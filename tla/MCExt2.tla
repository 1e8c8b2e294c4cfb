------------------------------- MODULE MCExt2 -------------------------------
(***************************************************************************)
(* The ext2 driver for model checking: the data of inodes (Ext2), the     *)
(* directories (Ext2Dirs) and the disk under them (Disk).  The blocks of a *)
(* directory are the content of a file of Ext2 with an inode of its own,   *)
(* and a block is some sectors of the disk, so the machines share no       *)
(* state: a behaviour is one of a single module, chosen at the start,      *)
(* while the others keep their initial state.                              *)
(***************************************************************************)
EXTENDS Ext2, TLC

VARIABLES machine, mode, links, blocks, recs, dirCount, stop, names, exposed, doubled
dirVars == <<mode, links, blocks, recs, dirCount, stop, names, exposed, doubled>>
VARIABLES sectors, bytes
hddVars == <<sectors, bytes>>

CONSTANTS DirBlockSize, Name, MoreName

\* Names of 1, 4 and 12 bytes: a block of 32 bytes that holds "." and ".." has no room
\* for any, and the longest fills exactly what the shortest leaves of a block.
NameLength == ("." :> 1) @@ (".." :> 2) @@ ("a" :> 1) @@ ("b" :> 4) @@ ("c" :> 12)

\* Many names of one inode in directories with the 12 direct blocks of the code, and
\* two names of two inodes in directories with 2, where indirect blocks are in reach.
Direct == INSTANCE Ext2Dirs WITH Name <- MoreName,
              BlockSize <- DirBlockSize, NameLen <- NameLength,
              NInodes <- 2, NDirect <- 12, MaxBlocks <- 4, panic <- stop
Indirect == INSTANCE Ext2Dirs WITH BlockSize <- DirBlockSize, NameLen <- NameLength,
                NInodes <- 3, NDirect <- 2, MaxBlocks <- 4, panic <- stop

\* Three sectors, and buffers of bits in a pattern that no shift repeats: a byte that
\* goes to a neighbouring address, or comes from one, is seen in some of them.
SentBits(b, n) == [k \in 1..n |-> IF k + b \in {1, 2, 4, 8} THEN 1 ELSE 0]
Hdd == INSTANCE Disk WITH SectorBytes <- 4, NbSectors <- 3,
           Sent <- SentBits, Buffer <- 0..2, Unready <- -1

MCInit == /\ Init /\ Hdd!Init
          /\ \/ machine = "direct" /\ Direct!Init
             \/ machine \in {"disk", "blocks", "indirect"} /\ Indirect!Init
MCNext ==
    /\ UNCHANGED machine
    /\ \/ machine = "disk" /\ Hdd!Next /\ UNCHANGED <<vars, dirVars>>
       \/ machine = "blocks" /\ Next /\ UNCHANGED <<dirVars, hddVars>>
       \/ machine = "direct" /\ Direct!Next /\ UNCHANGED <<vars, hddVars>>
       \/ machine = "indirect" /\ Indirect!Next /\ UNCHANGED <<vars, hddVars>>
MCSpec == MCInit /\ [][MCNext]_<<machine, vars, dirVars, hddVars>>

\* What was written is read back: the bytes of files (Ext2) and the transfers of the
\* disk under them.
ReadsBack == ContentIntact /\ (machine = "disk" => Hdd!TransfersExact)

\* Of Ext2Dirs.
ChainTiles == IF machine = "direct" THEN Direct!ChainTiles ELSE Indirect!ChainTiles
LinksExact == IF machine = "direct" THEN Direct!LinksExact ELSE Indirect!LinksExact
TreeKept == IF machine = "direct" THEN Direct!TreeKept ELSE Indirect!TreeKept
NamesExact == IF machine = "direct" THEN Direct!NamesExact ELSE Indirect!NamesExact
=============================================================================
