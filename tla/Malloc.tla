------------------------------- MODULE Malloc -------------------------------
(***************************************************************************)
(* malloc, free and realloc of libc/src/malloc.cpp, which the kernel and   *)
(* the user programs share: first fit over the chain of block headers,     *)
(* with boundary tags, coalescing, and memory returned to sbrk when the    *)
(* last block is freed.                                                    *)
(*                                                                         *)
(* Memory is a function on words of 8 bytes from the start of the heap.  A *)
(* header takes one word; the tag of a free block is a copy of its header  *)
(* in the last word of the block.  A client fills what it has asked for    *)
(* with its own data, so that a tag or a header written in a live block is *)
(* seen.  align8 makes every size a number of words.  The bit parity is    *)
(* recomputed by each setter and left out.                                 *)
(***************************************************************************)
EXTENDS Integers, FiniteSets

CONSTANTS MaxWords,    \* bound on the size of the heap, in words
          Sizes,       \* the sizes clients ask for, in words
          Client       \* names of the blocks that clients hold

\* Nobody asks for nothing: malloc(0) would make a block of size 0, which is taken for the
\* end of the list.
ASSUME SizesAssumption == MaxWords \in Nat \ {0} /\ Sizes \subseteq Nat \ {0}

VARIABLES
    mem,               \* the words of the heap
    Brk,               \* break, in words
    ptr,               \* the pointer each client holds, Null if none
    asked              \* the size it has asked for

vars == <<mem, Brk, ptr, asked>>

Addr == 0..(MaxWords - 1)
Null == -1

\* A word is a header (or its copy, a tag), the i-th word of a client's data, or
\* nothing known: fresh from sbrk, or not mapped.
Word == [owner : Client \cup {"header", "junk", "unmapped"}, size : 0..MaxWords,
         prevFree : BOOLEAN, free : BOOLEAN]
Cell(o, size, p, f) == [owner |-> o, size |-> size, prevFree |-> p, free |-> f]
Header(size, prevFree, free) == Cell("header", size, prevFree, free)
Data(c, i) == Cell(c, i, FALSE, FALSE)
Junk == Cell("junk", 0, FALSE, FALSE)
Unmapped == Cell("unmapped", 0, FALSE, FALSE)

firstHeader == 0

\* The types of the memory, of the break and of the clients' pointers.
TypeOK ==
    /\ mem \in [Addr -> Word]
    /\ Brk \in 1..MaxWords
    /\ ptr \in [Client -> Addr \cup {Null}]
    /\ asked \in [Client -> Sizes \cup {0}]

\* __initmalloc: the only header is the end of the list.
Init ==
    /\ mem = [a \in Addr |-> IF a = firstHeader THEN Header(0, FALSE, FALSE) ELSE Unmapped]
    /\ Brk = 1
    /\ ptr = [c \in Client |-> Null]
    /\ asked = [c \in Client |-> 0]

-----------------------------------------------------------------------------
(* Headers in a memory m *)

nextHeader(m, h) == h + m[h].size + 1
getNextBoundaryTag(m, h) == h + m[h].size
headerToPtr(h) == h + 1

\* Mutant of Fits: the loop of malloc takes a free block of any size.
FitsAny(m, h, n) == m[h].size = 0 \/ m[h].free

\* The end of the list, or a free block with enough space.
Fits(m, h, n) == m[h].size = 0 \/ (m[h].free /\ m[h].size >= n)

\* The headers that the loop of malloc may visit.
Chain(m) ==
    LET walk[h \in Addr] ==
            {h} \cup IF m[h].size = 0 \/ nextHeader(m, h) \notin Addr THEN {}
                     ELSE walk[nextHeader(m, h)]
    IN  walk[firstHeader]

\* The loop of malloc, which goes upwards.
FirstFit(m, n) ==
    LET fit == {h \in Chain(m) : Fits(m, h, n)}
    IN  CHOOSE h \in fit : \A g \in fit : h <= g

setPFree(m, h, b) == [m EXCEPT ![h].prevFree = b]

\* Is there enough space to split the block in two?
splits(m, h, n) == m[h].size - n >= 2

\* malloc takes the free block h for n words, splitting it if it can.
take(m, h, n) ==
    LET rest == Header(m[h].size - n - 1, FALSE, TRUE)
        nxt  == h + n + 1
        cut  == [m EXCEPT ![h] = Header(n, m[h].prevFree, FALSE),
                          ![nxt] = rest,
                          ![nxt + rest.size] = rest]
        all  == [m EXCEPT ![h].free = FALSE]
    IN  IF splits(m, h, n)
        THEN setPFree(cut, nextHeader(cut, h), FALSE)
        ELSE setPFree(all, nextHeader(all, h), FALSE)

\* malloc extends the heap at its end h for n words.
extend(m, h, n) ==
    [a \in Addr |->
        IF a = h THEN Header(n, m[h].prevFree, FALSE)
        ELSE IF a = h + n + 1 THEN Header(0, FALSE, FALSE)
        ELSE IF a > h /\ a <= h + n THEN Junk ELSE m[a]]

\* The client fills the n words at p.
fill(m, c, p, n) == [a \in Addr |-> IF a >= p /\ a < p + n THEN Data(c, a - p) ELSE m[a]]

-----------------------------------------------------------------------------
(* The steps of free *)

\* Merge with the next block.
mergeNext(m, h) ==
    LET nxt == nextHeader(m, h)
    IN  IF m[nxt].size # 0 /\ m[nxt].free
        THEN [m EXCEPT ![h].size = @ + m[nxt].size + 1] ELSE m

\* Mutant of mergePrev: the tag of the merged block is not written.
MergePrevNoTag(m, h) ==
    IF m[h].prevFree
    THEN LET prev == h - 1 - m[h - 1].size
         IN  [mem |-> [m EXCEPT ![prev].size = @ + m[h].size + 1], head |-> prev]
    ELSE [mem |-> [m EXCEPT ![getNextBoundaryTag(m, h)] = m[h]], head |-> h]

\* Merge with the previous block, found by its tag, and write the boundary tag.
mergePrev(m, h) ==
    LET prev == IF m[h].prevFree THEN h - 1 - m[h - 1].size ELSE h
        big  == IF m[h].prevFree THEN [m EXCEPT ![prev].size = @ + m[h].size + 1] ELSE m
    IN  [mem |-> [big EXCEPT ![getNextBoundaryTag(big, prev)] = big[prev]], head |-> prev]

\* A free block at the end goes back to sbrk: its header is the new end of the list.
trim(m, h, b) ==
    IF m[nextHeader(m, h)].size = 0
    THEN [mem |-> [a \in Addr |-> IF a = h THEN Header(0, FALSE, FALSE)
                                  ELSE IF a > h THEN Unmapped ELSE m[a]],
          Brk |-> b - (m[h].size + 1)]
    ELSE [mem |-> m, Brk |-> b]

\* Mutant of mark: the flag of the next block is not set.
MarkOnly(m, h) == [m EXCEPT ![h].free = TRUE]

mark(m, h) == setPFree([m EXCEPT ![h].free = TRUE], nextHeader(m, h), TRUE)

\* free of the block whose header is h.
release(m, h, b) ==
    LET r == mergePrev(mergeNext(mark(m, h), h), h) IN trim(r.mem, r.head, b)

-----------------------------------------------------------------------------
(* Calls *)

\* The heap after malloc(n): memory, break, header of the block, and whether the
\* assertion on the address that sbrk returns holds.
Malloced(m, b, n) ==
    LET h == FirstFit(m, n)
    IN  IF m[h].size = 0
        THEN [mem |-> extend(m, h, n), Brk |-> b + n + 1, head |-> h, ok |-> headerToPtr(h) = b]
        ELSE [mem |-> take(m, h, n), Brk |-> b, head |-> h, ok |-> TRUE]

\* The client fills the block at once.  A failed assertion ends the program.
malloc(c, n) ==
    LET r == Malloced(mem, Brk, n) IN
    /\ ptr[c] = Null
    /\ r.ok /\ r.Brk <= MaxWords
    /\ mem' = fill(r.mem, c, headerToPtr(r.head), n)
    /\ Brk' = r.Brk
    /\ ptr' = [ptr EXCEPT ![c] = headerToPtr(r.head)]
    /\ asked' = [asked EXCEPT ![c] = n]

free(c) ==
    LET r == release(mem, ptr[c] - 1, Brk) IN
    /\ ptr[c] # Null
    /\ mem' = r.mem
    /\ Brk' = r.Brk
    /\ ptr' = [ptr EXCEPT ![c] = Null]
    /\ asked' = [asked EXCEPT ![c] = 0]

\* realloc of a block to n > 0 words: malloc, memcpy, free; the client then fills the
\* rest.  The copy is bounded by the size of the old block, not by what was asked for.
\* (realloc(nullptr, n) is malloc and realloc(p, 0) is free.)
realloc(c, n) ==
    LET old  == ptr[c]
        r    == Malloced(mem, Brk, n)
        p    == headerToPtr(r.head)
        size == mem[old - 1].size
        len  == IF n > size THEN size ELSE n
        copy == [a \in Addr |-> IF a >= p /\ a < p + len THEN r.mem[a - p + old] ELSE r.mem[a]]
        z    == release(copy, old - 1, r.Brk)
    IN  /\ old # Null /\ n > 0
        /\ r.ok /\ r.Brk <= MaxWords
        /\ mem' = [a \in Addr |-> IF a >= p + asked[c] /\ a < p + n
                                 THEN Data(c, a - p) ELSE z.mem[a]]
        /\ Brk' = z.Brk
        /\ ptr' = [ptr EXCEPT ![c] = p]
        /\ asked' = [asked EXCEPT ![c] = n]

Next ==
    \E c \in Client : \/ free(c)
                      \/ \E n \in Sizes : malloc(c, n) \/ realloc(c, n)

Spec == Init /\ [][Next]_vars

-----------------------------------------------------------------------------
(* Properties *)

Live == {c \in Client : ptr[c] # Null}
Headers == Chain(mem)
Blocks == {h \in Headers : mem[h].size # 0}
Prev(h) == {g \in Blocks : nextHeader(mem, g) = h}

\* What a client has written in its block stays there until it frees it, and
\* realloc keeps it: no header, tag, split or merge touches a live block and no
\* two live blocks overlap.
ContentIntact ==
    \A c \in Live : \A i \in 0..(asked[c] - 1) :
        ptr[c] + i < Brk /\ mem[ptr[c] + i] = Data(c, i)

\* The chain of headers covers the heap exactly: it goes from firstHeader to the
\* end header, which is the last word below the break.
ChainEndsAtBrk ==
    /\ \A h \in Headers : h < Brk /\ mem[h].owner = "header"
    /\ \A h \in Headers : mem[h].size = 0 <=> h = Brk - 1

\* The flags and tags that free relies on to go backwards: prevFree says whether the
\* previous block is free, and the tag of a free block equals its header.
TagsRight ==
    /\ \A h \in Headers : mem[h].prevFree <=> \E g \in Prev(h) : mem[g].free
    /\ \A h \in Blocks : mem[h].free => mem[getNextBoundaryTag(mem, h)] = mem[h]

\* Free memory is coalesced and given back: no two neighbours are free, and the last
\* block is in use.
Coalesced ==
    \A h \in Blocks : mem[h].free =>
        LET n == nextHeader(mem, h) IN mem[n].size # 0 /\ ~mem[n].free

\* Nothing leaks: the blocks in use are those of the clients.
NoLeak == {headerToPtr(h) : h \in {b \in Blocks : ~mem[b].free}} = {ptr[c] : c \in Live}

\* "assert(headerToPtr(head) == newAddr)" of malloc: whenever it asks sbrk for memory,
\* what it gets follows the end of the list.
SbrkContiguous == \A n \in Sizes : Malloced(mem, Brk, n).ok

\* The chain of headers is intact: it tiles the heap, its flags and tags agree, no free
\* space is lost between neighbours, and what sbrk gives next will follow it.
HeapInv == TypeOK /\ ChainEndsAtBrk /\ TagsRight /\ Coalesced /\ SbrkContiguous
=============================================================================
