-------------------------------- MODULE Disk --------------------------------
(***************************************************************************)
(* The disk under the ext2 driver (src/src/HDD/HardDrive.cpp): transfers   *)
(* of any number of bytes at any address, made of commands that move whole *)
(* sectors through a port of two bytes.  A disk is a sequence of sectors,  *)
(* a sector a sequence of SectorBytes bytes (512).                         *)
(***************************************************************************)
EXTENDS Integers, Sequences, SequencesExt

CONSTANTS SectorBytes,   \* 512
          NbSectors,     \* of the disk
          Sent(_, _),    \* Sent(k, n): the n bytes of the kth buffer a caller may write
          Buffer,        \* the buffers of callers
          Unready        \* what the port gives before the drive has the sector

VARIABLES sectors,       \* what the drive holds
          bytes          \* ghost: what the writes asked for, byte by byte
vars == <<sectors, bytes>>

Words == SectorBytes \div 2      \* words of a sector
Sector(disk, n) == disk[n + 1]
Ceil(n, k) == (n + k - 1) \div k

\* The words the drive sends after the command for nb sectors from LBA, in order.
Words16(disk, LBA, nb) ==
    [n \in 1..(nb * Words) |->
        LET s == Sector(disk, LBA + (n - 1) \div Words)
            k == 2 * ((n - 1) % Words)
        IN  <<s[k + 1], s[k + 2]>>]

\* HDD::readaddr: the words before the address are read and dropped, an odd
\* address takes the second byte of a word, an odd end the first one, and the rest
\* of the last sector is read and dropped.  Only the loop over whole words waits for
\* the drive at the start of a sector: when the last byte is the first of its
\* sector, it may be read before the drive has it.
readaddr(disk, addr, size) ==
    LET LBA      == addr \div SectorBytes
        offset   == addr % SectorBytes
        nbsector == Ceil(addr + size, SectorBytes) - LBA
        port     == Words16(disk, LBA, nbsector)
        skipped  == offset \div 2
        odd      == offset % 2
        pairs    == (size - odd) \div 2
        first    == skipped + odd
        count    == first + pairs
        tail     == (size - odd) % 2
        head     == IF odd = 1 THEN <<port[skipped + 1][2]>> ELSE <<>>
        last     == IF count % Words = 0 /\ count > 0 THEN Unready ELSE port[count + 1][1]
    IN  head \o FlattenSeq(SubSeq(port, first + 1, first + pairs))
             \o (IF tail = 1 THEN <<last>> ELSE <<>>)

readlba(disk, LBA, nb) == readaddr(disk, LBA * SectorBytes, nb * SectorBytes)

\* HDD::writelba of whole sectors; it asserts that there is at least one.
writelba(disk, LBA, data) ==
    LET nb == Len(data) \div SectorBytes
    IN  [n \in DOMAIN disk |->
            IF n - 1 \in LBA..(LBA + nb - 1)
            THEN SubSeq(data, (n - 1 - LBA) * SectorBytes + 1, (n - LBA) * SectorBytes)
            ELSE disk[n]]

\* Mutant of Patch: the data is put at the start of the sector.
PatchAtStart(disk, LBA, offset, data) ==
    writelba(disk, LBA,
        [k \in 1..SectorBytes |->
            IF k \in DOMAIN data THEN data[k] ELSE readlba(disk, LBA, 1)[k]])

\* The sector with data put over it from an offset: read, memcpy, write.
Patch(disk, LBA, offset, data) ==
    writelba(disk, LBA,
        [k \in 1..SectorBytes |->
            IF k - offset \in DOMAIN data THEN data[k - offset]
            ELSE readlba(disk, LBA, 1)[k]])

\* HDD::writeaddr: the end of a first sector, whole sectors, the start of a last one.
writeaddr(disk, addr, data) ==
    LET LBA    == addr \div SectorBytes
        offset == addr % SectorBytes
        toCopy == IF offset = 0 THEN 0 ELSE Min({SectorBytes - offset, Len(data)})
        head   == IF offset = 0 THEN disk ELSE Patch(disk, LBA, offset, SubSeq(data, 1, toCopy))
        next   == IF offset = 0 THEN LBA ELSE LBA + 1
        rest   == SubSeq(data, toCopy + 1, Len(data))
        whole  == Len(rest) \div SectorBytes
        middle == IF whole = 0 THEN head
                  ELSE writelba(head, next, SubSeq(rest, 1, whole * SectorBytes))
        last   == SubSeq(rest, whole * SectorBytes + 1, Len(rest))
    IN  IF last = <<>> THEN middle ELSE Patch(middle, next + whole, 0, last)

-----------------------------------------------------------------------------
Bytes(disk) == FlattenSeq(disk)
Transfer == {t \in (0..(NbSectors * SectorBytes - 1)) \X (1..(NbSectors * SectorBytes)) :
                t[1] + t[2] <= NbSectors * SectorBytes}

Init == /\ sectors = [n \in 1..NbSectors |-> [k \in 1..SectorBytes |-> 0]]
        /\ bytes = Bytes(sectors)

\* A client of the disk, Partition or the ext2 driver, writes a buffer at an address.
Write(addr, data) ==
    /\ sectors' = writeaddr(sectors, addr, data)
    /\ bytes' = [k \in DOMAIN bytes |->
                    IF k - addr \in DOMAIN data THEN data[k - addr] ELSE bytes[k]]

Next == \E t \in Transfer, b \in Buffer : Write(t[1], Sent(b, t[2]))
Spec == Init /\ [][Next]_vars

-----------------------------------------------------------------------------
\* After any writes, of any lengths at any addresses and over each other, the drive
\* holds what they asked for and every read gives it: HDD::writeaddr, which the source
\* marks "not tested" from its second sector on, reads and writes back the sectors at
\* both ends, and HDD::readaddr takes bytes out of words.  Excepted is a last byte that
\* is the first of its sector, which may be read before the drive has the sector (the
\* read after the loop, HardDrive.cpp:159).
TransfersExact ==
    /\ Bytes(sectors) = bytes
    /\ \A t \in Transfer :
          LET got == readaddr(sectors, t[1], t[2])
          IN  /\ Len(got) = t[2]
              /\ \A k \in 1..t[2] :
                    \/ got[k] = bytes[t[1] + k]
                    \/ k = t[2] /\ (t[1] + t[2] - 1) % SectorBytes = 0 /\ got[k] = Unready
=============================================================================
