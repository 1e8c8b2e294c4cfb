-------------------------------- MODULE Ext2 --------------------------------
(***************************************************************************)
(* The blocks and inodes of the ext2 driver (src/src/HDD/Ext2.cpp): the    *)
(* bitmaps and counters of the block groups, the inode table, and the      *)
(* recursive walks over direct and indirect blocks that read, write and    *)
(* cut the data of an inode.                                               *)
(*                                                                         *)
(* The unit of an address is a cell: four bytes, the size of a block       *)
(* number.  A block has PerBlock cells, and a cell holds a block number    *)
(* (>= 0), written data (< 0), or Junk, what an unused block happens to    *)
(* hold.  An inode has NDirect direct pointers and one pointer for each of *)
(* NLevels levels of indirection (12 and 3 in the code).  The kernel runs  *)
(* one system call at a time, so each operation is one step.               *)
(***************************************************************************)
EXTENDS Integers, FiniteSets, Sequences, FiniteSetsExt, SequencesExt

CONSTANTS NDirect, NLevels, PerBlock,  \* shape of an inode and of a block
          NGroups, BlocksPerGroup,     \* _nbBgd, _sb.blocks_per_group
          NInodes, InodesPerGroup,     \* inodes of the volume, and of a group
          Reserved,                    \* blocks of the super block, tables, bitmaps
          Addr, Lengths                \* bounds: where writes and cuts start, how
                                       \* many cells a write has

ASSUME Ext2Shape ==
    /\ NDirect \in Nat \ {0} /\ NLevels \in Nat /\ PerBlock \in Nat \ {0}
    /\ NGroups \in Nat \ {0} /\ BlocksPerGroup \in Nat \ {0}
    /\ NInodes \in Nat \ {0} /\ InodesPerGroup \in Nat \ {0}
    /\ NInodes <= NGroups * InodesPerGroup

Block == 0..(NGroups * BlocksPerGroup - 1)
Group == 0..(NGroups - 1)
Inode == 1..NInodes
Junk == -1
Stamp(i, a) == -(100 * i + a + 2)

VARIABLES
    bitmap,     \* blocks marked in the block bitmaps
    freeBlocks, \* freeBlocks[g]: _bgd[g].free_blocks_count
    inodeMap,   \* inodes marked in the inode bitmaps
    disk,       \* disk[b]: the cells of block b
    inode,      \* inode[i]: the InodeData in the inode table
    orphan,     \* inodes that were freed while a File object still named them
    panic,      \* why the kernel stopped: "no", "full" (no block), "assert"
    written,    \* written[i]: addresses whose content is defined (ghost)
    leaked      \* blocks of a freed inode that was written again (ghost)
vars == <<bitmap, freeBlocks, inodeMap, disk, inode, orphan, panic, written, leaked>>

Slots     == 0..(NDirect + NLevels - 1)
NoData    == [size |-> 0, links |-> 0, blocks |-> 0, block |-> [k \in Slots |-> 0]]
GroupOf(b) == b \div BlocksPerGroup
AlignUp(n, k) == ((n + k - 1) \div k) * k

\* Cells below a pointer of a level, and blocks of its tree, itself included.
indirectSize[l \in 0..NLevels] ==
    IF l = 0 THEN PerBlock ELSE PerBlock * indirectSize[l - 1]
indirectBlock[l \in 0..NLevels] ==
    IF l = 0 THEN 1 ELSE 1 + PerBlock * indirectBlock[l - 1]
\* The level of the k-th pointer of an inode.
SlotLevel(k) == IF k < NDirect THEN 0 ELSE k - NDirect + 1
Capacity == NDirect * PerBlock + SumSet({indirectSize[l] : l \in 1..NLevels})

-----------------------------------------------------------------------------
\* A volume in the middle of an operation.
Volume == [bitmap |-> bitmap, freeBlocks |-> freeBlocks, disk |-> disk, stop |-> "no"]

\* Partition::readaddr and writeaddr of a block, or of some of its cells; both
\* assert that the address is in the partition.
Touch(v, b) == IF b \in Block THEN v ELSE [v EXCEPT !.stop = "assert"]
GetBlock(v, b) == IF b \in Block THEN v.disk[b] ELSE [c \in 0..(PerBlock - 1) |-> Junk]
PutBlock(v, b, cells) ==
    IF b \in Block THEN [v EXCEPT !.disk[b] = cells @@ @] ELSE Touch(v, b)

\* FS::getNewBlock: the groups in cyclic order from the one of the inode, the
\* lowest clear bit of the first group that counts a free block.
CandidateGroups(v, i) ==
    {k \in Group : v.freeBlocks[(k + (i - 1) \div InodesPerGroup) % NGroups] # 0}
getNewBlock(v, i) ==
    IF CandidateGroups(v, i) = {}
    THEN [vol |-> [v EXCEPT !.stop = "full"], id |-> 0]
    ELSE LET g == (Min(CandidateGroups(v, i)) + (i - 1) \div InodesPerGroup) % NGroups
             b == Min({c \in Block \ v.bitmap : GroupOf(c) = g})
         IN  [vol |-> [v EXCEPT !.bitmap = @ \cup {b}, !.freeBlocks[g] = @ - 1],
              id  |-> b]

\* Mutant of freeBlock: the group does not count the block.
freeBlockUncounted(v, b) ==
    [v EXCEPT !.bitmap = @ \ {b}, !.disk[b] = [c \in 0..(PerBlock - 1) |-> Junk]]

\* FS::freeBlock, which asserts that the bit of the block is set.
freeBlock(v, b) ==
    IF b \in v.bitmap
    THEN [v EXCEPT !.bitmap = @ \ {b}, !.freeBlocks[GroupOf(b)] = @ + 1,
                   !.disk[b] = [c \in 0..(PerBlock - 1) |-> Junk]]
    ELSE [v EXCEPT !.stop = "assert"]

-----------------------------------------------------------------------------
\* Inode::readrec, with r the arguments of the walk and r.data what was read.
RECURSIVE readrec(_, _, _), readKids(_, _, _, _)
readKids(r, level, b, k) ==
    IF k = PerBlock \/ r.size = 0 THEN r
    ELSE readKids(readrec(r, level - 1, disk[b][k]), level, b, k + 1)
readrec(r, level, b) ==
    IF r.size = 0 THEN r
    ELSE IF r.addr >= indirectSize[level]
    THEN [r EXCEPT !.addr = @ - indirectSize[level]]
    ELSE IF level = 0
    THEN LET count == Min({PerBlock - r.addr, r.size})
         IN  [addr |-> 0, size |-> r.size - count,
              data |-> r.data \o [k \in 1..count |-> disk[b][r.addr + k - 1]]]
    ELSE readKids([r EXCEPT !.addr = @ % indirectSize[level - 1]],
                  level, b, r.addr \div indirectSize[level - 1])

\* Inode::i_readaddr: the walk over the pointers of the inode, in order.
RECURSIVE readSlots(_, _, _)
readSlots(r, i, k) ==
    IF k \notin Slots THEN r
    ELSE readSlots(readrec(r, SlotLevel(k), inode[i].block[k]), i, k + 1)
i_readaddr(i, addr, size) ==
    readSlots([addr |-> addr, size |-> size, data |-> <<>>], i, 0).data

-----------------------------------------------------------------------------
\* Inode::writerec, which asserts that a new indirect block is the next one of
\* the preorder and gets a pointer.  The state w of the walk: the volume, the blocks counted
\* by the inode, the address and the size left, the position in the inode's
\* preorder of blocks, and the next cell of the source.  The result adds the
\* pointer (id) and whether it changed (ret).
canSkip(w, level) == w.blockNum + indirectBlock[level] - 1 < w.blocks
Allocate(w) ==
    LET n == getNewBlock(w.vol, w.ino)
    IN  [w EXCEPT !.vol = n.vol, !.id = n.id, !.blocks = @ + 1, !.ret = TRUE]

\* Mutant of LeafCount: the offset in the block is forgotten.
LeafCountFromStart(w) == Min({PerBlock, w.size})
LeafCount(w) == Min({PerBlock - w.addr, w.size})
WriteLeaf(w, b) ==
    LET fresh == w.blockNum >= w.blocks
        a     == IF fresh THEN Allocate(w) ELSE [w EXCEPT !.id = b, !.ret = FALSE]
        count == LeafCount(w)
        step  == IF w.addr < PerBlock
                 THEN [a EXCEPT !.vol = PutBlock(@, a.id,
                           [c \in w.addr..(w.addr + count - 1) |->
                               Stamp(w.ino, w.from + c - w.addr)]),
                           !.from = @ + count, !.size = @ - count, !.addr = 0]
                 ELSE [a EXCEPT !.addr = @ - PerBlock]
    IN  [step EXCEPT !.blockNum = @ + 1]

RECURSIVE writerec(_, _, _), writeKids(_, _, _)
\* The loop over the pointers of an indirect block, kept in w.buf.
writeKids(w, level, k) ==
    IF k = PerBlock \/ w.size = 0 \/ w.vol.stop # "no" THEN w
    ELSE LET r == writerec(w, level - 1, w.buf[k])
         IN  writeKids([r EXCEPT !.buf = [w.buf EXCEPT ![k] = r.id],
                                 !.wrote = w.wrote \/ r.ret],
                       level, k + 1)
writerec(w, level, b) ==
    IF w.size = 0 \/ w.vol.stop # "no" THEN [w EXCEPT !.id = b, !.ret = FALSE]
    ELSE IF canSkip(w, level) /\ w.addr >= indirectSize[level]
    THEN [w EXCEPT !.id = b, !.ret = FALSE, !.addr = @ - indirectSize[level],
                   !.blockNum = @ + indirectBlock[level]]
    ELSE IF level = 0 THEN WriteLeaf(w, b)
    ELSE LET fresh == w.blockNum >= w.blocks
             a     == IF fresh THEN Allocate(w) ELSE [w EXCEPT !.id = b, !.ret = FALSE]
             start == IF canSkip(w, level) THEN w.addr \div indirectSize[level - 1] ELSE 0
             walk  == writeKids(
                 [a EXCEPT !.blockNum = @ + 1 + start * indirectBlock[level - 1],
                           !.addr  = IF canSkip(w, level)
                                     THEN @ % indirectSize[level - 1] ELSE @,
                           !.buf   = IF fresh THEN [c \in 0..(PerBlock - 1) |-> 0]
                                     ELSE GetBlock(w.vol, b),
                           !.wrote = FALSE],
                 level, start)
             ok    == fresh => w.blockNum = w.blocks /\ walk.wrote
         IN  [walk EXCEPT !.id = a.id, !.ret = a.ret,
                  !.vol = IF walk.vol.stop = "no" /\ ~ok THEN [@ EXCEPT !.stop = "assert"]
                          ELSE IF walk.wrote THEN PutBlock(@, a.id, walk.buf) ELSE @]

\* Inode::i_writeaddr: the walk, then the size; the inode is saved when one of
\* its pointers or its size changed.
RECURSIVE writeSlots(_, _)
writeSlots(w, k) ==
    IF k \notin Slots THEN w
    ELSE LET r == writerec(w, SlotLevel(k), w.data.block[k])
         IN  writeSlots([r EXCEPT !.data.block[k] = r.id, !.save = w.save \/ r.ret], k + 1)
i_writeaddr(i, addr, size) ==
    LET w == writeSlots(
            [vol |-> Volume, ino |-> i, blocks |-> inode[i].blocks, addr |-> addr,
             size |-> size, blockNum |-> 0, from |-> addr, id |-> 0, ret |-> FALSE,
             buf |-> <<>>, wrote |-> FALSE, data |-> inode[i], save |-> FALSE], 0)
        grown == addr + size > inode[i].size
    IN  [vol  |-> w.vol,
         data |-> IF w.save \/ grown
                  THEN [w.data EXCEPT !.blocks = w.blocks,
                            !.size = IF grown THEN addr + size ELSE @]
                  ELSE inode[i]]

-----------------------------------------------------------------------------
\* Inode::resizerec: frees what lies beyond sizeAfter, a tree that keeps
\* nothing with the block that holds its pointers.
RECURSIVE resizerec(_, _, _), resizeKids(_, _, _)
resizeKids(z, level, k) ==
    IF k = PerBlock \/ z.sizeBefore = 0 THEN z
    ELSE LET r == resizerec(z, level - 1, z.buf[k])
         IN  resizeKids([r EXCEPT
                 !.buf = IF r.ret THEN [z.buf EXCEPT ![k] = 0] ELSE z.buf,
                 !.drop = z.drop /\ r.ret], level, k + 1)
FreeIn(z, b) == [z EXCEPT !.vol = freeBlock(@, b), !.blocks = @ - 1, !.ret = TRUE]
resizerec(z, level, b) ==
    IF z.sizeBefore = 0 THEN [z EXCEPT !.ret = FALSE]
    ELSE IF z.sizeAfter >= indirectSize[level]
    THEN [z EXCEPT !.ret = FALSE, !.sizeAfter = @ - indirectSize[level],
                   !.sizeBefore = @ - indirectSize[level]]
    ELSE IF level = 0
    THEN IF z.sizeAfter # 0
         THEN [z EXCEPT !.ret = FALSE, !.sizeAfter = 0, !.sizeBefore = @ - PerBlock]
         ELSE FreeIn([z EXCEPT !.sizeBefore = @ - PerBlock], b)
    ELSE LET start == z.sizeAfter \div indirectSize[level - 1]
             walk  == resizeKids(
                 [z EXCEPT !.sizeAfter  = @ - start * indirectSize[level - 1],
                           !.sizeBefore = @ - start * indirectSize[level - 1],
                           !.vol = Touch(@, b), !.buf = GetBlock(z.vol, b), !.drop = (start = 0)], level, start)
             saved == [walk EXCEPT !.vol = PutBlock(@, b, walk.buf), !.ret = FALSE]
         IN  IF walk.drop THEN FreeIn(saved, b) ELSE saved

\* Inode::i_resize to a smaller size (see the README for growth).  The direct
\* pointers of the inode keep the numbers of the blocks they lost.
RECURSIVE resizeSlots(_, _, _)
resizeSlots(z, i, k) ==
    IF k \notin Slots THEN z
    ELSE resizeSlots(resizerec(z, SlotLevel(k), inode[i].block[k]), i, k + 1)
i_resize(i, size) ==
    LET z == resizeSlots(
            [vol |-> Volume, blocks |-> inode[i].blocks, sizeAfter |-> size,
             sizeBefore |-> AlignUp(inode[i].size, PerBlock), ret |-> FALSE,
             buf |-> <<>>, drop |-> FALSE], i, 0)
    IN  [vol |-> z.vol, data |-> [inode[i] EXCEPT !.size = size, !.blocks = z.blocks]]

-----------------------------------------------------------------------------
\* A volume as mkfs leaves it: the tables are marked, everything else is free.
Init ==
    /\ bitmap = Reserved
    /\ freeBlocks = [g \in Group |->
                        Cardinality({b \in Block \ Reserved : GroupOf(b) = g})]
    /\ inodeMap = {}
    /\ disk = [b \in Block |-> [c \in 0..(PerBlock - 1) |-> Junk]]
    /\ inode = [i \in Inode |-> NoData]
    /\ orphan = {} /\ panic = "no"
    /\ written = [i \in Inode |-> {}] /\ leaked = {}

\* The blocks of the tree of an inode: its first `blocks` blocks in preorder.
RECURSIVE TreeOf(_, _, _), KidsOf(_, _, _, _)
KidsOf(b, level, n, k) ==
    IF k = PerBlock \/ n <= 0 THEN <<>>
    ELSE LET t == TreeOf(disk[b][k], level - 1, n)
         IN  t \o KidsOf(b, level, n - Len(t), k + 1)
TreeOf(b, level, n) ==
    IF n <= 0 THEN <<>>
    ELSE <<b>> \o (IF level = 0 THEN <<>> ELSE KidsOf(b, level, n - 1, 0))
RECURSIVE SlotTrees(_, _, _)
SlotTrees(i, n, k) ==
    IF k \notin Slots \/ n <= 0 THEN <<>>
    ELSE LET t == TreeOf(inode[i].block[k], SlotLevel(k), n)
         IN  t \o SlotTrees(i, n - Len(t), k + 1)
BlocksOf(i) == SlotTrees(i, inode[i].blocks, 0)

\* The volume and the inode as an operation leaves them; a kernel that stops
\* is not looked at any further.
Store(i, r) ==
    /\ panic' = r.vol.stop
    /\ IF r.vol.stop = "no"
       THEN /\ bitmap' = r.vol.bitmap /\ freeBlocks' = r.vol.freeBlocks
            /\ disk' = r.vol.disk /\ inode' = [inode EXCEPT ![i] = r.data]
       ELSE UNCHANGED <<bitmap, freeBlocks, disk, inode>>

\* FS::getNewFile and the link of its first entry: the lowest free inode, with
\* empty data, whatever the inode table held there.  A volume without a free
\* inode stops the kernel.
getNewFile ==
    /\ panic = "no" /\ inodeMap # Inode
    /\ LET i == Min(Inode \ inodeMap)
       IN  /\ inodeMap' = inodeMap \cup {i}
           /\ inode' = [inode EXCEPT ![i] = [NoData EXCEPT !.links = 1]]
           /\ leaked' = leaked \cup Range(BlocksOf(i))
           /\ orphan' = orphan \ {i}
    /\ UNCHANGED <<bitmap, freeBlocks, disk, panic, written>>

\* RegularFile::writeaddr: through a name, or through a File object that was
\* open when the last name went.
writeaddr(i, addr, len) ==
    /\ panic = "no" /\ i \in inodeMap \cup orphan
    /\ addr + len <= Capacity
    /\ Store(i, i_writeaddr(i, addr, len))
    /\ written' = IF panic' = "no" /\ i \in inodeMap
                  THEN [written EXCEPT ![i] = @ \cup addr..(addr + len - 1)]
                  ELSE written
    /\ UNCHANGED <<inodeMap, orphan, leaked>>

\* RegularFile::resize to a smaller size.
resize(i, size) ==
    /\ panic = "no" /\ i \in inodeMap /\ size < inode[i].size
    /\ Store(i, i_resize(i, size))
    /\ written' = [written EXCEPT ![i] = {a \in @ : a < size}]
    /\ UNCHANGED <<inodeMap, orphan, leaked>>

\* Inode::link, for a second name.
link(i) ==
    /\ panic = "no" /\ i \in inodeMap /\ inode[i].links < 2
    /\ inode' = [inode EXCEPT ![i].links = @ + 1]
    /\ UNCHANGED <<bitmap, freeBlocks, inodeMap, disk, orphan, panic, written, leaked>>

\* Inode::unlink: the last name takes the blocks and the inode with it, open
\* says that a descriptor still holds a File object for it.
unlink(i, open) ==
    /\ panic = "no" /\ i \in inodeMap
    /\ IF inode[i].links = 1
       THEN /\ Store(i, [vol |-> IF inode[i].size = 0 THEN Volume ELSE i_resize(i, 0).vol,
                         data |-> NoData])
            /\ inodeMap' = inodeMap \ {i}
            /\ written' = [written EXCEPT ![i] = {}]
            /\ orphan' = IF open THEN orphan \cup {i} ELSE orphan
       ELSE /\ inode' = [inode EXCEPT ![i].links = @ - 1]
            /\ UNCHANGED <<bitmap, freeBlocks, disk, inodeMap, orphan, panic, written>>
    /\ UNCHANGED leaked

noInode ==
    /\ panic = "no" /\ inodeMap = Inode /\ panic' = "full"
    /\ UNCHANGED <<bitmap, freeBlocks, inodeMap, disk, inode, orphan, written, leaked>>

Stopped == panic # "no" /\ UNCHANGED vars

Next ==
    \/ getNewFile
    \/ noInode
    \/ \E i \in Inode :
        \/ \E addr \in Addr, len \in Lengths : writeaddr(i, addr, len)
        \/ \E size \in Addr : resize(i, size)
        \/ link(i)
        \/ \E open \in BOOLEAN : unlink(i, open)
    \/ Stopped

Spec == Init /\ [][Next]_vars

-----------------------------------------------------------------------------
Content(i) == i_readaddr(i, 0, inode[i].size)

TypeOK ==
    /\ bitmap \subseteq Block /\ inodeMap \subseteq Inode /\ orphan \subseteq Inode
    /\ freeBlocks \in [Group -> 0..BlocksPerGroup]
    /\ panic \in {"no", "full", "assert"}
    /\ \A i \in Inode : /\ inode[i].size \in 0..Capacity /\ inode[i].links \in 0..2
                        /\ \A k \in Slots : inode[i].block[k] \in Block
CountersAgree ==
    \A g \in Group : freeBlocks[g] = Cardinality({b \in Block \ bitmap : GroupOf(b) = g})
EachInOneTree ==
    \A i, j \in Inode : /\ IsInjective(BlocksOf(i))
                        /\ i # j => Range(BlocksOf(i)) \cap Range(BlocksOf(j)) = {}
MarkedIffUsed ==
    LET used == UNION {Range(BlocksOf(i)) : i \in Inode}
    IN  /\ bitmap = Reserved \cup used \cup leaked
        /\ used \cap (Reserved \cup leaked) = {}

\* The assertions of freeBlock and writerec never fail.
NoAssertion == panic # "assert"

\* Every block marked in a bitmap is a table, or is in the tree of exactly one
\* inode, once, or was leaked by a write to a freed inode; and the counters of
\* the groups agree with the bitmaps.  So getNewBlock never hands out a block
\* that is in use, i_resize frees neither too much nor too little, and no sequence
\* of writes, cuts and unlinks, through a File object of a freed inode included,
\* stops the kernel other than by filling the disk.
VolumeSound == TypeOK /\ CountersAgree /\ EachInOneTree /\ MarkedIffUsed /\ NoAssertion

\* What is read is what was written last: each cell of a file keeps its value
\* until it is overwritten or cut off, whatever is done to the other inodes,
\* and whichever blocks were freed and handed out again in between; and a read
\* that starts anywhere in the file, skipping trees, returns the same cells as
\* a read of the whole file.
ContentIntact ==
    \A i \in inodeMap :
        LET data == Content(i)
        IN  /\ Len(data) = inode[i].size
            /\ \A a \in written[i] : data[a + 1] = Stamp(i, a)
            /\ \A a \in 0..inode[i].size :
                i_readaddr(i, a, inode[i].size - a) = SubSeq(data, a + 1, inode[i].size)
=============================================================================
