------------------------------- MODULE Frames -------------------------------
(***************************************************************************)
(* The kernel's own memory: the PhysicalMemoryAllocator over its Bitset,   *)
(* Paging with its temporary windows on page tables, the PageHeap, and the *)
(* processor's TLB.  User memories are the subject of UserMemory.          *)
(*                                                                         *)
(* Tables have Fan entries instead of 512, a word of a bitset has WordBits *)
(* bits instead of 64, a large page is Large frames instead of 512.  A     *)
(* kernel page is a number; its digits are the indices in PDP, PD and PT.  *)
(* A bitset is the set of its bits.  A call is one step: nothing preempts  *)
(* the kernel here.                                                        *)
(***************************************************************************)
EXTENDS Integers, FiniteSets, FiniteSetsExt

CONSTANTS WordBits, Large, Fan,
          NbFrames,     \* _bitset.size() of the physmemalloc
          BootFrames,   \* occupied when the kernel starts: a set of frames
          NbSlots,      \* _bitset.size() of the pageHeap, one word here
          Touched       \* bound: the pages the processor uses


Frame == 0..NbFrames - 1
None  == -1
KernelPDP == -2          \* the PDP the loader made
Page  == 0..Fan * Fan * Fan - 1
Idx   == 0..Fan - 1
PDPindex(v) == v \div (Fan * Fan)
PDindex(v)  == (v \div Fan) % Fan
PTindex(v)  == v % Fan

\* Where things are: the pageHeap downwards from base, the screen's buffer, and
\* pages of the kernel (heap, TLS, bitsets).
base == Fan * Fan - 1
SlotPage(s) == base - s
BufferPage  == Fan * Fan
KernelPages == {BufferPage + Fan, BufferPage + Fan + 1}

\* The font is two pages of the kernel's image.
FontFrame == Min(BootFrames)

\* What the sizes have to be (512 entries, 64 bits, 4096 slots and so on).
FramesShape ==
    /\ {WordBits, Large, Fan, NbFrames, NbSlots} \subseteq Nat \ {0}
    /\ NbFrames % WordBits = 0 /\ Large % (2 * WordBits) = 0
    /\ Fan >= 2 /\ NbSlots \in 3..Fan * Fan
    /\ BootFrames \subseteq Frame /\ BootFrames # {} /\ FontFrame + 1 \in BootFrames
    /\ Touched \subseteq Page

VARIABLES
    mem,    \* free: the set bits; tab: the present entries of the tables, by
            \* <<table, index>>; large: entries with isSizeMega; tables: the
            \* frames that were made tables (ghost)
    mmu,    \* win: tmpPDP, tmpPD and tmpPT; tlb: what the processor has cached
    slots,  \* the set bits of the pageHeap's _bitset
    use,    \* what the frames are for (ghost): pairs <<user, frame>>
    flat,   \* what each page should lead to (ghost)
    stop    \* why the kernel stopped, or "no"
vars == <<mem, mmu, slots, use, flat, stop>>

\* The pages of the three windows.
tmpPDP  == -10
tmpPD   == -11
tmpPT   == -12
Windows == {tmpPDP, tmpPD, tmpPT}
St == [mem |-> mem, mmu |-> mmu, stop |-> stop]

-----------------------------------------------------------------------------
(***************************************************************************)
(* Bitset.                                                                 *)
(***************************************************************************)
AlignUp(n, k) == ((n + k - 1) \div k) * k

\* Bitset::unset(i, len): where the range starts at a word, the length loses a
\* word all the same.
Covered(i, len) == IF i % WordBits = 0 THEN i..i + len - WordBits - 1 ELSE i..i + len - 1

bsf(B) == IF B = {} THEN None ELSE Min(B)
usr(B) == IF Frame \subseteq B THEN None ELSE Max(Frame \ B)
\* Bitset::largeBsf(2) within one word.
largeBsf(B) ==
    LET starts == {i \in B : i + 1 \in B} IN IF starts = {} THEN None ELSE Min(starts)

-----------------------------------------------------------------------------
(***************************************************************************)
(* PhysicalMemoryAllocator.                                                *)
(***************************************************************************)
alloc(m) == [m EXCEPT !.free = @ \ {bsf(m.free)}]
free(m, f) == [m EXCEPT !.free = @ \cup {f}]

\* The frames from index 0 on start at 1M: large pages are aligned there.
\* Mutant of alloc2M: the last used frame is not skipped.
alloc2MOnLast(m) == AlignUp(usr(m.free), Large \div 2)
alloc2M(m) ==
    LET up == AlignUp(usr(m.free) + 1, Large \div 2)
    IN  IF up % Large = 0 THEN up + Large \div 2 ELSE up
Tail(f) == (f..f + Large - 1) \ Covered(f, Large)

-----------------------------------------------------------------------------
(***************************************************************************)
(* Paging: tables are read and written through windows, which the MMU      *)
(* translates as any other page.                                           *)
(***************************************************************************)
\* Mutant of invlpg: the cached translation stays.
invlpgNothing(v, w) == v
invlpg(v, w) == [v EXCEPT !.mmu.tlb = [x \in DOMAIN @ \ {w} |-> @[x]]]

\* Paging::actTmpPDP, actTmpPD, actTmpPT and their freeTmp.
act(v, w, f) ==
    IF v.mmu.win[w] # None THEN [v EXCEPT !.stop = "window in use"]
    ELSE invlpg([v EXCEPT !.mmu.win[w] = f], w)
freeTmp(v, w) == invlpg([v EXCEPT !.mmu.win[w] = None], w)
\* The table behind a window, and an access to it.
Seen(v, w)   == IF w \in DOMAIN v.mmu.tlb THEN v.mmu.tlb[w] ELSE v.mmu.win[w]
Cached(v, w) == [v EXCEPT !.mmu.tlb = [x \in DOMAIN @ \cup {w} |->
                                          IF x = w THEN Seen(v, w) ELSE @[x]]]
Present(v, w, i) == <<Seen(v, w), i>> \in DOMAIN v.mem.tab
Entry(v, w, i)   == v.mem.tab[<<Seen(v, w), i>>]
Write(v, w, i, f) ==
    [Cached(v, w) EXCEPT !.mem.tab = [x \in DOMAIN @ \cup {<<Seen(v, w), i>>} |->
                                         IF x = <<Seen(v, w), i>> THEN f ELSE @[x]]]
Erase(v, w, i) ==
    [Cached(v, w) EXCEPT !.mem.tab = [x \in DOMAIN @ \ {<<Seen(v, w), i>>} |-> @[x]],
                         !.mem.large = @ \ {<<Seen(v, w), i>>}]
\* new(tmp..) PageEntry[512]: no entry is present.
Clear(v, w) ==
    [Cached(v, w) EXCEPT
        !.mem.tab = [x \in {y \in DOMAIN @ : y[1] # Seen(v, w)} |-> @[x]],
        !.mem.tables = @ \cup {Seen(v, w)}]

\* What getPDphy and getPTphy do: the table below index i of the table in
\* window w, made in window below when it is not there.
Descend(v, w, table, i, below) ==
    LET on == act(v, w, table) IN
    IF Present(on, w, i)
    THEN [st |-> freeTmp(Cached(on, w), w), table |-> Entry(on, w, i)]
    ELSE LET f     == bsf(v.mem.free)
             taken == [on EXCEPT !.mem = alloc(@)]
             made  == freeTmp(Clear(act(taken, below, f), below), below)
         IN  [st |-> freeTmp(Write(made, w, i, f), w), table |-> f]
getPDphy(v, a) == Descend(v, tmpPDP, KernelPDP, PDPindex(a), tmpPD)
getPTphy(v, a) ==
    LET pd == getPDphy(v, a)
    IN  Descend(pd.st, tmpPD, pd.table, PDindex(a), tmpPT)

\* Paging::createMapping, createMapping2M and freeMapping, which leaves what the
\* processor has cached.
createMapping(v, phy, a) ==
    LET pt == getPTphy(v, a)
        on == act(pt.st, tmpPT, pt.table)
    IN  IF Present(on, tmpPT, PTindex(a)) THEN [on EXCEPT !.stop = "already mapped"]
        ELSE invlpg(freeTmp(Write(on, tmpPT, PTindex(a), phy), tmpPT), a)
createMapping2M(v, phy, a) ==
    LET pd == getPDphy(v, a)
        on == act(pd.st, tmpPD, pd.table)
        e  == <<Seen(on, tmpPD), PDindex(a)>>
    IN  IF Present(on, tmpPD, PDindex(a)) THEN [on EXCEPT !.stop = "already mapped"]
        ELSE invlpg(freeTmp([Write(on, tmpPD, PDindex(a), phy) EXCEPT
                                !.mem.large = @ \cup {e}], tmpPD), a)
freeMapping(v, a) ==
    LET pt == getPTphy(v, a)
        on == act(pt.st, tmpPT, pt.table)
    IN  IF ~Present(on, tmpPT, PTindex(a)) THEN [on EXCEPT !.stop = "not mapped"]
        ELSE freeTmp(Erase(on, tmpPT, PTindex(a)), tmpPT)

\* The processor's walk; the lowest index chooses in a large page.
Walk(m, a) ==
    LET pdp == <<KernelPDP, PDPindex(a)>>
        pd  == <<m.tab[pdp], PDindex(a)>>
        pt  == <<m.tab[pd], PTindex(a)>>
    IN  IF pdp \notin DOMAIN m.tab \/ pd \notin DOMAIN m.tab THEN None
        ELSE IF pd \in m.large THEN m.tab[pd]
        ELSE IF pt \in DOMAIN m.tab THEN m.tab[pt] ELSE None

-----------------------------------------------------------------------------
Becomes(v) == mem' = v.mem /\ mmu' = v.mmu /\ stop' = v.stop

Init ==
    /\ mem = [free |-> Frame \ BootFrames, tab |-> <<>>, large |-> {},
              tables |-> {}]
    /\ mmu = [win |-> [w \in Windows |-> None], tlb |-> <<>>]
    /\ slots = {}
    /\ use = {<<"boot", f>> : f \in BootFrames}
    /\ flat = [a \in Page |-> None]
    /\ stop = "no"

-----------------------------------------------------------------------------
(***************************************************************************)
(* The boot: Screen::init, then PageHeap::init and Font::defInit, whose    *)
(* two pages are mapped downwards from where the bitset counts upwards.    *)
(***************************************************************************)
\* A bound: no call meets the end of memory, which stops the kernel.
Left(n) == Cardinality(mem.free) >= n

BootScreen ==
    /\ mem.large = {}
    /\ \E f \in {alloc2M(mem)} :
          /\ f + Large <= NbFrames
          /\ \E v \in {[St EXCEPT !.mem.free = @ \ Covered(f, Large)]} :
                Becomes(createMapping2M(v, f, BufferPage))
          /\ use' = use \cup {"screen"} \X (f..f + Large - 1)
          /\ flat' = [a \in Page |-> IF a \in BufferPage..BufferPage + Fan - 1
                                     THEN f ELSE flat[a]]
    /\ UNCHANGED slots

BootPageHeap ==
    /\ mem.large # {} /\ flat[SlotPage(0)] = None /\ Left(2)
    /\ LET fresh == 1..NbSlots - 1      \* _bitset[0] = false
           i     == largeBsf(fresh)
           one   == createMapping(St, FontFrame, SlotPage(i))
       IN  /\ Becomes(createMapping(one, FontFrame + 1, SlotPage(i) + 1))
           /\ slots' = fresh \ {i, i + 1}
           /\ flat' = [flat EXCEPT ![SlotPage(i)] = FontFrame,
                                  ![SlotPage(i) + 1] = FontFrame + 1]
    /\ UNCHANGED use

Booted == flat[SlotPage(0)] # None

-----------------------------------------------------------------------------
(***************************************************************************)
(* Afterwards: frames for user memories, windows on them in the pageHeap,  *)
(* pages of the kernel, and the processor, which caches what it uses.      *)
(***************************************************************************)
UserAlloc ==
    /\ Booted /\ Left(1)
    /\ mem' = alloc(mem)
    /\ use' = use \cup {<<"user", bsf(mem.free)>>}
    /\ UNCHANGED <<mmu, slots, flat, stop>>
InWindow(f) == \E s \in 0..NbSlots - 1 : flat[SlotPage(s)] = f
UserFree(f) ==
    /\ <<"user", f>> \in use /\ ~InWindow(f)
    /\ mem' = free(mem, f)
    /\ use' = use \ {<<"user", f>>}
    /\ UNCHANGED <<mmu, slots, flat, stop>>

\* PageHeap::ialloc and PageHeap::free of one page.
PageHeapAlloc(f) ==
    /\ <<"user", f>> \in use /\ slots # {} /\ Left(2)
    /\ \E s \in {bsf(slots)} :
          /\ slots' = slots \ {s}
          /\ Becomes(createMapping(St, f, SlotPage(s)))
          /\ flat' = [flat EXCEPT ![SlotPage(s)] = f]
    /\ UNCHANGED use
PageHeapFree(s) ==
    /\ flat[SlotPage(s)] \notin BootFrames \cup {None}
    /\ Becomes(freeMapping(St, SlotPage(s)))
    /\ slots' = slots \cup {s}
    /\ flat' = [flat EXCEPT ![SlotPage(s)] = None]
    /\ UNCHANGED use

\* A page of the kernel: alloc and createMapping, freeMappingAndPhy.
KernelMap(a) ==
    /\ Booted /\ flat[a] = None /\ Left(3)
    /\ \E f \in {bsf(mem.free)} :
          /\ Becomes(createMapping([St EXCEPT !.mem = alloc(@)], f, a))
          /\ use' = use \cup {<<"kernel", f>>}
          /\ flat' = [flat EXCEPT ![a] = f]
    /\ UNCHANGED slots
KernelUnmap(a) ==
    /\ flat[a] # None
    /\ \E f \in {Walk(mem, a)} :
          /\ Becomes(freeMapping([St EXCEPT !.mem = free(@, f)], a))
          /\ use' = use \ {<<"kernel", f>>}
    /\ flat' = [flat EXCEPT ![a] = None]
    /\ UNCHANGED slots

\* The processor translates page a, and may forget what it cached.
Translate(a) ==
    /\ Walk(mem, a) # None /\ a \notin DOMAIN mmu.tlb
    /\ mmu' = [mmu EXCEPT !.tlb = [x \in DOMAIN @ \cup {a} |->
                                      IF x = a THEN Walk(mem, a) ELSE @[x]]]
    /\ UNCHANGED <<mem, slots, use, flat, stop>>

Next ==
    /\ stop = "no"
    /\ \/ BootScreen \/ BootPageHeap \/ UserAlloc
       \/ \E f \in Frame : UserFree(f) \/ PageHeapAlloc(f)
       \/ \E s \in 0..NbSlots - 1 : PageHeapFree(s)
       \/ \E a \in KernelPages : KernelMap(a) \/ KernelUnmap(a)
       \/ \E a \in Touched : Translate(a)
Spec == Init /\ [][Next]_vars

-----------------------------------------------------------------------------
TypeOK ==
    /\ mem.free \subseteq Frame /\ mem.tables \subseteq Frame
    /\ \A x \in DOMAIN mem.tab : mem.tab[x] \in Frame
    /\ slots \subseteq 0..NbSlots - 1
    /\ flat \in [Page -> Frame \cup {None}]

\* Every kernel page leads where the calls that mapped it said, through the
\* tables and through what the processor has cached; no window on a table is
\* left open, none is opened twice, and no call meets a page that is already
\* mapped or not mapped any more.  freeMapping does not tell the processor; it
\* is the next createMapping of the page that does.
MapExact ==
    /\ TypeOK
    /\ stop = "no"
    /\ \A w \in Windows : mmu.win[w] = None /\ w \notin DOMAIN mmu.tlb
    /\ \A a \in Page : Walk(mem, a) = flat[a]
    /\ \A a \in DOMAIN mmu.tlb : flat[a] # None => mmu.tlb[a] = flat[a]
    /\ \A s \in slots : flat[SlotPage(s)] = None

\* A frame has one use at a time, and one that is used is not free.  What
\* alloc2M leaves in the bitset is excepted: the last word of the large page.
Uses == use \cup {"table"} \X mem.tables
UsedOnce(F) ==
    /\ \A x \in Uses : x[2] \in F => x[2] \notin mem.free
    /\ \A x, y \in Uses : x[2] \in F /\ x[2] = y[2] => x = y
LeftByAlloc2M == UNION {Tail(mem.tab[e]) : e \in mem.large}
FramesExclusive == UsedOnce(Frame \ LeftByAlloc2M)
=============================================================================
