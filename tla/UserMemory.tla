----------------------------- MODULE UserMemory -----------------------------
(***************************************************************************)
(* The memory of user processes: UserMemory and Heap over Paging and       *)
(* PhysicalMemoryAllocator, with the processor's MMU.                      *)
(*                                                                         *)
(* A user memory is a tree of tables in physical frames: the PDP, PDs, PTs *)
(* and at the leaves the pages.  A table has Fan entries, 512 in the code; *)
(* a table or page is named by the path of indices that leads to it.  A    *)
(* present entry is a triple <<table, index, frame>>; the frame may be     *)
(* FirstPT, the PT of the identity map that all user memories share.       *)
(* System calls are not preempted: each is one step.  What a freed frame   *)
(* holds is dropped; what a page holds before it is written is Junk.       *)
(***************************************************************************)
EXTENDS Integers, Sequences, FiniteSets, SequencesExt

CONSTANTS Proc, InitProc,    \* the processes, and init, whose death stops the kernel
          NbFrames,          \* the frames of the PhysicalMemoryAllocator
          MaxAllocs,         \* bound on the operations that allocate frames
          Dists,             \* distances from the start of the heap given to brk
          Stored,            \* the pages programs write in
          Image, Junk, Data, \* contents: as loaded, not written yet, written
          Fan,               \* the entries of a table
          ProgramPage, HeapPage, StackPages  \* where a program is

ASSUME BoundsAssumption ==
    InitProc \in Proc /\ NbFrames \in Nat /\ MaxAllocs \in Nat /\ Dists \subseteq Nat

Idx == 0..Fan - 1
Vpn == 0..Fan * Fan * Fan - 1
Frame == 1..NbFrames
None == 0
FirstPT == -1
DefaultPDP == 0         \* pagePT[6], the PDP without a process
PageSize == 4096
Content == Data \cup {Image, Junk}

\* A program is a segment of one page beyond the identity map of the first PT, the
\* heap behind it, and its stack.
ASSUME LayoutAssumption ==
    /\ Fan \in Nat \ {0, 1}
    /\ {ProgramPage, HeapPage} \subseteq Vpn /\ StackPages \subseteq Vpn
    /\ Fan <= ProgramPage /\ ProgramPage < HeapPage
    /\ \A v \in StackPages : ProgramPage < v

PDP == <<>>
PD0 == <<0>>
\* getPDPindex, getPDindex and getPTindex of page v.
Path(v) == <<v \div (Fan * Fan), (v \div Fan) % Fan, v % Fan>>
\* The loops of UserMemory.cpp visit the tree in the order of this number.
preorder(p) ==
    LET digit(k) == IF k <= Len(p) THEN p[k] + 1 ELSE 0
    IN  (digit(1) * (Fan + 1) + digit(2)) * (Fan + 1) + digit(3)

VARIABLES
    mem,     \* physical memory: the set bits of _bitset, the entries, <<page, content>>
    mmu,     \* PML4[0] and the TLB
    pdp,     \* _PDP of each UserMemory, None if there is no process
    phase,   \* "none", "alive" or "zombie"
    Brk,     \* Heap::_Brk of each process
    dist,    \* the break of the program, relative to the start of the heap
    allocs,  \* operations that have allocated frames
    wild     \* a program has written in a table: the model ends

vars == <<mem, mmu, pdp, phase, Brk, dist, allocs, wild>>

NoTLB == [v \in Vpn |-> None]

\* The state of frames, of the MMU and of the processes.
TypeOK ==
    /\ mem \in [free : SUBSET Frame,
                entry : SUBSET (Frame \X Idx \X (Frame \cup {FirstPT})),
                page : SUBSET (Frame \X Content)]
    /\ mmu \in [PML4 : Frame \cup {DefaultPDP}, TLB : [Vpn -> Frame \cup {None}]]
    /\ pdp \in [Proc -> Frame \cup {None}]
    /\ phase \in [Proc -> {"none", "alive", "zombie"}]
    /\ Brk \in [Proc -> {PageSize * n : n \in Vpn}]
    /\ dist \in [Proc -> Nat]
    /\ allocs \in 0..MaxAllocs /\ wild \in BOOLEAN

\* The default PDP is active; no user process exists.
Init ==
    /\ mem = [free |-> Frame, entry |-> {}, page |-> {}]
    /\ mmu = [PML4 |-> DefaultPDP, TLB |-> NoTLB]
    /\ pdp = [u \in Proc |-> None]
    /\ phase = [u \in Proc |-> "none"]
    /\ Brk = [u \in Proc |-> 0]
    /\ dist = [u \in Proc |-> 0]
    /\ allocs = 0 /\ wild = FALSE

-----------------------------------------------------------------------------
(* PhysicalMemoryAllocator and Paging *)

\* The tree rooted at r, as pairs <<node, frame>>.
tree(m, r) ==
    LET below(T) == UNION {{<<Append(x[1], e[2]), e[3]>> :
                                e \in {y \in m.entry : y[1] = x[2]}} : x \in T}
        root == {<<PDP, r>>}
        PDs == below(root)
        PTs == below(PDs)
    IN  root \cup PDs \cup PTs \cup below(PTs)

\* The frame of node p in a tree, and what a frame holds: sets of one element, empty
\* if there is none.
at(T, p) == {x[2] : x \in {y \in T : y[1] = p}}
held(m, f) == {x[2] : x \in {y \in m.page : y[1] = f}}
nodes(T) == {x[1] : x \in {y \in T : y[2] \in Frame}}
frames(T, P) == {x[2] : x \in {y \in T : y[1] \in P}} \cap Frame

\* alloc, called n + 1 times, has taken this frame last: it takes the lowest set bit.
alloc(m, n) == CHOOSE f \in m.free : Cardinality({g \in m.free : g < f}) = n

\* Nodes are allocated and linked into the tree: N is a set of pairs <<node, what it
\* holds>>.  Which of the frames that an operation allocates becomes which node is
\* not told apart: it follows the preorder.
graft(m, T, N) ==
    LET new == {<<x[1], alloc(m, Cardinality({y \in N : preorder(y[1]) < preorder(x[1])})),
                  x[2]>> : x \in N}
        all == T \cup {<<x[1], x[2]>> : x \in new}
    IN  [free |-> m.free \ {x[2] : x \in new},
         entry |-> m.entry \cup
             UNION {{<<f, Last(x[1]), x[2]>> : f \in at(all, Front(x[1]))} :
                        x \in {y \in new : y[1] # PDP}},
         page |-> m.page \cup UNION {{x[2]} \X x[3] : x \in new}]

free(m, F) ==
    [free |-> m.free \cup F,
     entry |-> {e \in m.entry : e[1] \notin F},
     page |-> {x \in m.page : x[1] \notin F}]

\* createMapping of pages to new frames: getPDphy and getPTphy make the tables that
\* are missing.  V is a set of pairs <<page, content>>.
missing(m, r, V) ==
    LET tables == (UNION {Prefixes(Front(Path(x[1]))) : x \in V}) \ nodes(tree(m, r))
    IN  {<<p, {}>> : p \in tables} \cup {<<Path(x[1]), {x[2]}>> : x \in V}
createMapping(m, r, V) == graft(m, tree(m, r), missing(m, r, V))

\* freeMappingAndPhy of the pages of V.
freeMapping(m, r, V) ==
    LET T == tree(m, r)
        m1 == free(m, frames(T, {Path(v) : v \in V}))
        cut == UNION {at(T, Front(Path(v))) \X {Last(Path(v))} : v \in V}
    IN  [m1 EXCEPT !.entry = {e \in @ : <<e[1], e[2]>> \notin cut}]

\* Mutant of invlpg: a mapping that is made is not invalidated.
InvlpgNothing(a, V) == a

invlpg(a, V) ==
    [a EXCEPT !.TLB = [v \in Vpn |-> IF v \in V THEN None ELSE a.TLB[v]]]

switchUser(a, r) == IF r = a.PML4 THEN a ELSE [PML4 |-> r, TLB |-> NoTLB]

-----------------------------------------------------------------------------
(* UserMemory *)

\* The constructor: a PDP and a PD whose slot 0 is the identity map.
construct(m) ==
    LET m1 == graft(m, {}, {<<PDP, {}>>, <<PD0, {}>>})
    IN  [m1 EXCEPT !.entry = @ \cup {<<alloc(m, 1), 0, FirstPT>>}]

\* What freePDs and freePTs leave present of the PDP and of the first PD.
kept(T, e) == e[1] \notin frames(T, {PDP, PD0}) \/ e[2] = 0

\* freePDs, freePTs and freePages: only the PDP and the first PD are left.
clear(m, r) ==
    LET T == tree(m, r)
        m1 == free(m, frames(T, nodes(T) \ {PDP, PD0}))
    IN  [m1 EXCEPT !.entry = {e \in @ : kept(T, e)}]

\* Mutant of leave: the memory that is cleared stays active.
LeaveNot(a, r) == a

\* clear() returns to the default mapping when the memory is active.
leave(a, r) == IF r = a.PML4 THEN switchUser(a, DefaultPDP) ELSE a

\* Mutant of copyPDs: the tables are copied, not the pages.
CopyTables(m, r, src) ==
    LET S == tree(m, src)
        m1 == graft(m, tree(m, r), {<<p, {}>> : p \in {q \in nodes(S) \ {PDP, PD0} : Len(q) < 3}})
        T == tree(m1, r)
    IN  [m1 EXCEPT !.entry = @ \cup
            UNION {at(T, Front(x[1])) \X {Last(x[1])} \X {x[2]} : x \in {y \in S : Len(y[1]) = 3}}]

\* copyPDs, copyPTs and copyPages: a deep copy, in a memory that was cleared.
copies(m, src) ==
    LET S == tree(m, src)
    IN  {<<p, UNION {held(m, f) : f \in at(S, p)}>> : p \in nodes(S) \ {PDP, PD0}}
copyPDs(m, r, src) == graft(m, tree(m, r), copies(m, src))

\* loadFromBytes, for a program of one page; the frames it holds while it reads
\* the file are given back before it returns.
Loaded == {<<ProgramPage, Image>>} \cup StackPages \X {Junk}
loadFromBytes(m, r) == createMapping(m, r, Loaded)

-----------------------------------------------------------------------------
Allocating == allocs < MaxAllocs /\ allocs' = allocs + 1

\* "Kernel is out of physical memory" (the assertion of alloc) stops the kernel.
Room(m, N) == Cardinality(N) <= Cardinality(m.free)
RoomToConstruct(m) == Room(m, {PDP, PD0})

Current(u) == phase[u] = "alive" /\ mmu.PML4 = pdp[u]

\* kmain: the process init.
start ==
    /\ phase[InitProc] = "none"
    /\ RoomToConstruct(mem)
    /\ LET r == alloc(mem, 0)
           m == construct(mem)
       IN
        /\ Room(m, missing(m, r, Loaded))
        /\ mem' = loadFromBytes(m, r)
        /\ mmu' = switchUser(mmu, r)
        /\ pdp' = [pdp EXCEPT ![InitProc] = r]
    /\ phase' = [phase EXCEPT ![InitProc] = "alive"]
    /\ Allocating
    /\ UNCHANGED <<Brk, dist, wild>>

\* Process(Process&): the constructor of UserMemory, then its operator=.
fork(u, c) ==
    /\ Current(u) /\ phase[c] = "none"
    /\ RoomToConstruct(mem)
    /\ LET r == alloc(mem, 0)
           m == clear(construct(mem), r)
       IN
        /\ Room(m, copies(m, pdp[u]))
        /\ mem' = copyPDs(m, r, pdp[u])
        /\ pdp' = [pdp EXCEPT ![c] = r]
    /\ phase' = [phase EXCEPT ![c] = "alive"]
    /\ Brk' = [Brk EXCEPT ![c] = Brk[u]]
    /\ dist' = [dist EXCEPT ![c] = dist[u]]
    /\ Allocating
    /\ UNCHANGED <<mmu, wild>>

\* sysexec: Process::clear, loadFromBytes, which activates the memory, and prepare.
exec(u) ==
    /\ Current(u)
    /\ LET m == clear(mem, pdp[u]) IN
        /\ Room(m, missing(m, pdp[u], Loaded))
        /\ mem' = loadFromBytes(m, pdp[u])
    /\ mmu' = switchUser(leave(mmu, pdp[u]), pdp[u])
    /\ Brk' = [Brk EXCEPT ![u] = 0]
    /\ dist' = [dist EXCEPT ![u] = 0]
    /\ Allocating
    /\ UNCHANGED <<pdp, phase, wild>>

\* Process::terminate.
terminate(u) ==
    /\ Current(u) /\ u # InitProc
    /\ mem' = clear(mem, pdp[u])
    /\ mmu' = leave(mmu, pdp[u])
    /\ phase' = [phase EXCEPT ![u] = "zombie"]
    /\ UNCHANGED <<pdp, Brk, dist, allocs, wild>>

\* ~UserMemory of a zombie, in the wait of another process.
destroy(u) ==
    /\ phase[u] = "zombie"
    /\ \E w \in Proc : Current(w)
    /\ LET m == clear(mem, pdp[u])
       IN  mem' = free(m, frames(tree(m, pdp[u]), {PDP, PD0}))
    /\ mmu' = leave(mmu, pdp[u])
    /\ pdp' = [pdp EXCEPT ![u] = None]
    /\ phase' = [phase EXCEPT ![u] = "none"]
    /\ Brk' = [Brk EXCEPT ![u] = 0]
    /\ dist' = [dist EXCEPT ![u] = 0]
    /\ UNCHANGED <<allocs, wild>>

\* Process::prepare, when run() launches or checks a thread of u.
prepare(u) ==
    /\ phase[u] = "alive"
    /\ mmu' = switchUser(mmu, pdp[u])
    /\ UNCHANGED <<mem, pdp, phase, Brk, dist, allocs, wild>>

-----------------------------------------------------------------------------
(* Heap::brk; d is the address of the call, counted from _virtAddrStart, which loadFromBytes
   sets to the end of the last segment *)

nbNewPages(b, d) == (d - b + PageSize - 1) \div PageSize

\* Mutant of nbPages: the page the break is in is freed too.
PagesUp(b, d) == (b - d + PageSize - 1) \div PageSize
nbPages(b, d) == (b - d) \div PageSize

HeapPages(from, n) == {HeapPage + from \div PageSize + i : i \in 0..n - 1}

\* Bound: programs have too little memory for a heap that reaches the stack.
ASSUME HeapAssumption ==
    \A d \in Dists : HeapPages(0, nbNewPages(0, d)) \subseteq Vpn \ StackPages

grown(b, d) == b + nbNewPages(b, d) * PageSize

brkGrow(u, d) ==
    /\ Current(u) /\ d > Brk[u]
    /\ LET V == HeapPages(Brk[u], nbNewPages(Brk[u], d)) IN
        /\ Room(mem, missing(mem, pdp[u], V \X {Junk}))
        /\ mem' = createMapping(mem, pdp[u], V \X {Junk})
        /\ mmu' = invlpg(mmu, V)
    /\ Brk' = [Brk EXCEPT ![u] = grown(@, d)]
    /\ dist' = [dist EXCEPT ![u] = d]
    /\ Allocating
    /\ UNCHANGED <<pdp, phase, wild>>

\* freeMapping does not invalidate the TLB.
brkShrink(u, d) ==
    /\ Current(u) /\ d + PageSize < Brk[u]
    /\ LET n == nbPages(Brk[u], d) IN
        /\ mem' = freeMapping(mem, pdp[u], HeapPages(Brk[u] - n * PageSize, n))
        /\ Brk' = [Brk EXCEPT ![u] = @ - n * PageSize]
    /\ dist' = [dist EXCEPT ![u] = d]
    /\ UNCHANGED <<mmu, pdp, phase, allocs, wild>>

brkSame(u, d) ==
    /\ Current(u) /\ d <= Brk[u] /\ d + PageSize >= Brk[u]
    /\ dist' = [dist EXCEPT ![u] = d]
    /\ UNCHANGED <<mem, mmu, pdp, phase, Brk, allocs, wild>>

-----------------------------------------------------------------------------
(* The processor *)

\* The frame an access of u to page v reaches, in a set: the TLB is asked first, then
\* the tables, which form the tree T.
Translate(u, v, T) ==
    IF mmu.PML4 = pdp[u] /\ mmu.TLB[v] # None THEN {mmu.TLB[v]} ELSE at(T, Path(v))

Mapped(T) == LET N == nodes(T) IN {v \in Vpn : Path(v) \in N}

\* A page that brk has taken away: the TLB may still translate it.
GivenBack(u, v) == v \notin Mapped(tree(mem, pdp[u]))

\* The program writes in a page it has, or through a translation that freeMapping
\* has left.  The frame may then be free, a page of any process or a table; what a
\* program writes in a table the processor follows: the model ends.
store(u, v, c) ==
    /\ Current(u)
    /\ \E f \in Translate(u, v, tree(mem, pdp[u])) :
        /\ mem' = IF held(mem, f) = {} THEN mem
                  ELSE [mem EXCEPT !.page = {x \in @ : x[1] # f} \cup {<<f, c>>}]
        /\ mmu' = [mmu EXCEPT !.TLB[v] = f]
        /\ wild' = (f \notin mem.free /\ held(mem, f) = {})
    /\ UNCHANGED <<pdp, phase, Brk, dist, allocs>>

Next ==
    /\ ~wild
    /\ \/ start
       \/ \E u, c \in Proc : fork(u, c)
       \/ \E u \in Proc : exec(u) \/ terminate(u) \/ destroy(u) \/ prepare(u)
       \/ \E u \in Proc, d \in Dists : brkGrow(u, d) \/ brkShrink(u, d) \/ brkSame(u, d)
       \/ \E u \in Proc, v \in Stored, c \in Data : store(u, v, c)

Spec == Init /\ [][Next]_vars

-----------------------------------------------------------------------------
(* Safety *)

Owned == UNION {{<<u, x[1], x[2]>> : x \in tree(mem, pdp[u])} : u \in Proc}

\* Each allocated frame is one table or page of one process and a free frame none,
\* through fork, exec, brk, exit and wait: nothing leaks, is freed twice (the bsod of
\* PhysicalMemoryAllocator::free) or is shared.
FramesOwned ==
    LET refs == {x \in Owned : x[3] \in Frame}
        used == {x[3] : x \in refs}
    IN  used = Frame \ mem.free /\ Cardinality(used) = Cardinality(refs)

\* "The first PD is always active, it is setup in slot 0 of the PDP, and have its own
\* slot 0 setup to the identity map PT" (UserMemory.h), and clear leaves nothing more.
ClassInvariant ==
    \A u \in {w \in Proc : phase[w] # "none"} :
        LET T == tree(mem, pdp[u]) IN
        /\ PD0 \in nodes(T)
        /\ at(T, <<0, 0>>) = {FirstPT}
        /\ phase[u] = "zombie" => nodes(T) = {PDP, PD0}

\* A program has exactly its segments, its stack and the pages of its heap, which
\* reach its break and no more than a page beyond, whatever breaks it and the
\* processes it comes from have asked for.  The assertion of sysbrk, that the byte
\* below the break is mapped, follows.
HeapMapped ==
    \A u \in Proc : phase[u] = "alive" =>
        /\ Mapped(tree(mem, pdp[u])) = {ProgramPage} \cup StackPages \cup HeapPages(0, Brk[u] \div PageSize)
        /\ dist[u] <= Brk[u] /\ Brk[u] <= dist[u] + PageSize

\* The tables the processor walks belong to a living process, or are the default
\* ones: never tables that terminate or ~UserMemory has freed.
ActiveAlive ==
    mmu.PML4 \in {DefaultPDP} \cup {pdp[u] : u \in {w \in Proc : phase[w] = "alive"}}

\* The user memories own what they use, no more and once, and have the shape that the
\* kernel and the programs rely on, as long as no program has written in a table.
MemInv == TypeOK /\ FramesOwned /\ ClassInvariant
=============================================================================
