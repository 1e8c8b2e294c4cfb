---------------------------- MODULE FramesProofs ----------------------------
(***************************************************************************)
(* Proofs about the memory of the kernel, for tables, bitsets and memories *)
(* of any size.  KernelInv is inductive and gives MapExact and             *)
(* FramesExclusive; MemoryProofs states the two theorems.                  *)
(*                                                                         *)
(* Between two calls every window is shut and none is cached (Resting),    *)
(* and the tables hang in a tree below KernelPDP: each is a frame of       *)
(* tables, at one place, and none is free (Tables).  So getPDphy and       *)
(* getPTphy find the table of a page or make it from a frame that nothing  *)
(* leads to, and createMapping, createMapping2M and freeMapping change the *)
(* walk of one page, or of one large page, and of no other (MappingCreated,*)
(* LargeCreated, MappingFreed).                                            *)
(***************************************************************************)
EXTENDS Frames, FiniteSetTheorems, WellFoundedInduction, TLAPS

-----------------------------------------------------------------------------
(* Numbers and pages *)

\* Division.
LEMMA Divided ==
    ASSUME NEW n \in Nat, NEW k \in Nat, k > 0
    PROVE  /\ n \div k \in Nat /\ n % k \in 0..k - 1
           /\ n = (n \div k) * k + (n % k)
<1>1. n \div k \in Nat /\ n % k \in 0..k - 1
    OBVIOUS
<1>2. ASSUME NEW q \in Int, q = n \div k, NEW r \in Int, r = n % k
      PROVE  n = q * k + r
    BY <1>2, SMTT(30)
<1>3. n \div k \in Int /\ n % k \in Int
    BY <1>1
<1>4. n = (n \div k) * k + (n % k)
    BY <1>2, <1>3, Zenon
<1> QED
    BY <1>1, <1>4

\* A quotient and a remainder are unique.
LEMMA Quotient ==
    ASSUME NEW n \in Nat, NEW k \in Nat, k > 0, NEW q \in Nat, NEW r \in 0..k - 1, n = q * k + r
    PROVE  n \div k = q /\ n % k = r
BY SMTT(30)

\* Multiplication distributes, for the solver.
LEMMA Distributed ==
    ASSUME NEW a \in Int, NEW b \in Int, NEW F \in Int
    PROVE  (a * F + b) * F = a * (F * F) + b * F
OBVIOUS

\* The indices of a page are its digits.
LEMMA DigitsOfPage ==
    ASSUME FramesShape, NEW v \in Page
    PROVE  /\ PDPindex(v) \in Idx /\ PDindex(v) \in Idx /\ PTindex(v) \in Idx
           /\ v = (PDPindex(v) * Fan + PDindex(v)) * Fan + PTindex(v)
<1> DEFINE q == v \div Fan
           a == q \div Fan
<1>1. v \in Nat /\ Fan \in Nat /\ Fan > 0 /\ Fan * Fan \in Nat /\ Fan * Fan > 0
    BY DEF FramesShape, Page
<1>2. q \in Nat /\ v % Fan \in 0..Fan - 1 /\ v = q * Fan + (v % Fan)
    BY <1>1, Divided
<1> HIDE DEF q
<1>3. a \in Nat /\ q % Fan \in 0..Fan - 1 /\ q = a * Fan + (q % Fan)
    BY <1>1, <1>2, Divided
<1> HIDE DEF a
<1> DEFINE r == (q % Fan) * Fan + (v % Fan)
<1>4. r \in 0..Fan * Fan - 1
    <2>1. (q % Fan) * Fan \in Nat /\ (q % Fan) * Fan <= (Fan - 1) * Fan
        BY <1>1, <1>3
    <2>2. (Fan - 1) * Fan = Fan * Fan - Fan
        BY <1>1
    <2> QED
        BY <2>1, <2>2, <1>1, <1>2
<1>5. v = a * (Fan * Fan) + r
    <2>1. (a * Fan + (q % Fan)) * Fan = a * (Fan * Fan) + (q % Fan) * Fan
        <3>1. a \in Int /\ q % Fan \in Int /\ Fan \in Int
            BY <1>1, <1>3
        <3> QED
            BY ONLY <3>1, Distributed
    <2>2. (q % Fan) * Fan \in Nat /\ a * (Fan * Fan) \in Nat
        BY <1>1, <1>3
    <2> QED
        BY <2>1, <2>2, <1>1, <1>2, <1>3
<1> HIDE DEF r
<1>6. v \div (Fan * Fan) = a
    BY <1>4, <1>5, <1>1, <1>3, Quotient
<1>7. a < Fan
    <2>1. v < Fan * Fan * Fan
        BY <1>1 DEF Page
    <2>2. ASSUME a >= Fan PROVE FALSE
        <3>1. a * (Fan * Fan) >= Fan * (Fan * Fan)
            BY <2>2, <1>1, <1>3
        <3>2. Fan * (Fan * Fan) = Fan * Fan * Fan
            BY <1>1
        <3>3. a * (Fan * Fan) \in Nat /\ Fan * Fan * Fan \in Nat
            BY <1>1, <1>3
        <3> QED
            BY <3>1, <3>2, <3>3, <2>1, <1>4, <1>5
    <2> QED
        BY <2>2, <1>1, <1>3
<1> QED
    BY <1>1, <1>2, <1>3, <1>6, <1>7 DEF Idx, q, PDPindex, PDindex, PTindex

\* Two pages differ in an index.
LEMMA PageOfDigits ==
    ASSUME FramesShape, NEW v \in Page, NEW w \in Page, PDPindex(v) = PDPindex(w),
           PDindex(v) = PDindex(w), PTindex(v) = PTindex(w)
    PROVE  v = w
BY DigitsOfPage

\* A page with these digits.
LEMMA DigitsAre ==
    ASSUME FramesShape, NEW i \in Idx, NEW j \in Idx, NEW k \in Idx, NEW v \in Page,
           v = i * (Fan * Fan) + j * Fan + k
    PROVE  PDPindex(v) = i /\ PDindex(v) = j /\ PTindex(v) = k
<1>1. v \in Nat /\ Fan \in Nat /\ Fan > 0 /\ Fan * Fan \in Nat /\ Fan * Fan > 0
      /\ i \in 0..Fan - 1 /\ j \in 0..Fan - 1 /\ k \in 0..Fan - 1
    BY DEF FramesShape, Page, Idx
<1> DEFINE r == j * Fan + k
           q == i * Fan + j
<1>2. j * Fan \in Nat /\ j * Fan <= (Fan - 1) * Fan /\ (Fan - 1) * Fan = Fan * Fan - Fan
      /\ i * (Fan * Fan) \in Nat /\ i * Fan \in Nat
    BY <1>1
<1>3. r \in 0..Fan * Fan - 1 /\ q \in Nat
    BY <1>1, <1>2
<1>4. v = i * (Fan * Fan) + r
    BY <1>1, <1>2
<1>5. v = q * Fan + k
    <2>1. (i * Fan + j) * Fan = i * (Fan * Fan) + j * Fan
        BY <1>1, Distributed
    <2> QED
        BY <2>1, <1>1, <1>2
<1> HIDE DEF r
<1>6. PDPindex(v) = i
    BY <1>1, <1>3, <1>4, Quotient DEF PDPindex
<1> HIDE DEF q
<1>7. v \div Fan = q /\ v % Fan = k
    <2>1. q \in Nat /\ v = q * Fan + k
        BY <1>3, <1>5
    <2> QED
        BY ONLY <1>1, <2>1, Quotient
<1>8. q % Fan = j
    BY <1>1, <1>3, Quotient DEF q
<1> QED
    BY <1>6, <1>7, <1>8 DEF PDindex, PTindex

-----------------------------------------------------------------------------
(* Where things are *)

\* The page is not in the large page of the screen.
Small(a) == ~(PDPindex(a) = 1 /\ PDindex(a) = 0)

\* The digits of the buffer, of the kernel's pages and of the slots.
LEMMA Places ==
    ASSUME FramesShape
    PROVE  /\ BufferPage \in Page /\ PDPindex(BufferPage) = 1 /\ PDindex(BufferPage) = 0
           /\ \A a \in Page : ~Small(a) <=> a \in BufferPage..BufferPage + Fan - 1
           /\ KernelPages \subseteq Page /\ \A a \in KernelPages : Small(a) /\ a > BufferPage
           /\ \A s \in 0..NbSlots - 1 : /\ SlotPage(s) \in Page /\ Small(SlotPage(s))
                                        /\ SlotPage(s) < BufferPage
           /\ \A s, t \in 0..NbSlots - 1 : SlotPage(s) = SlotPage(t) => s = t
<1>1. Fan \in Nat /\ Fan >= 2 /\ NbSlots \in 3..Fan * Fan /\ Fan * Fan \in Nat
    BY DEF FramesShape
<1>2. Fan * Fan + 2 * Fan <= Fan * Fan * Fan
    <2>1. Fan * Fan >= 2 * Fan
        BY <1>1
    <2>2. (Fan * Fan) * Fan >= 2 * (Fan * Fan)
        BY <1>1
    <2>3. (Fan * Fan) * Fan \in Nat
        BY <1>1
    <2> QED
        BY <2>1, <2>2, <2>3, <1>1
<1>3. Fan * Fan * Fan \in Nat
    BY <1>1
<1>4. 0 \in Idx /\ 1 \in Idx
    BY <1>1 DEF Idx
<1>5. ASSUME NEW a \in BufferPage..BufferPage + Fan - 1
      PROVE  a \in Page /\ PDPindex(a) = 1 /\ PDindex(a) = 0
    <2>1. a \in Page
        BY <1>1, <1>2, <1>3 DEF Page, BufferPage
    <2> DEFINE k == a - Fan * Fan
    <2>2. k \in Idx
        BY <1>1 DEF Idx, BufferPage
    <2>3. a = 1 * (Fan * Fan) + 0 * Fan + k
        BY <1>1 DEF BufferPage
    <2> HIDE DEF k
    <2> QED
        BY <2>1, <2>2, <2>3, <1>4, DigitsAre
<1>6. ASSUME NEW a \in Page, PDPindex(a) = 1, PDindex(a) = 0
      PROVE  a \in BufferPage..BufferPage + Fan - 1
    <2>1. a = (1 * Fan + 0) * Fan + PTindex(a) /\ PTindex(a) \in Idx
        BY <1>6, DigitsOfPage
    <2> QED
        BY <2>1, <1>1 DEF BufferPage, Idx
<1>7. BufferPage \in BufferPage..BufferPage + Fan - 1
    BY <1>1 DEF BufferPage
<1>8. ASSUME NEW a \in KernelPages
      PROVE  a \in Page /\ a > BufferPage /\ a \notin BufferPage..BufferPage + Fan - 1
    BY <1>1, <1>2, <1>3 DEF KernelPages, BufferPage, Page
<1>9. ASSUME NEW s \in 0..NbSlots - 1
      PROVE  SlotPage(s) \in Page /\ SlotPage(s) < BufferPage
             /\ SlotPage(s) \notin BufferPage..BufferPage + Fan - 1
    BY <1>1, <1>2, <1>3 DEF SlotPage, base, BufferPage, Page
<1>10. \A s, t \in 0..NbSlots - 1 : SlotPage(s) = SlotPage(t) => s = t
    BY <1>1 DEF SlotPage, base
<1> QED
    BY <1>5, <1>6, <1>7, <1>8, <1>9, <1>10 DEF Small

\* Sizes.
LEMMA SizesAre ==
    ASSUME FramesShape
    PROVE  /\ None \notin Frame /\ KernelPDP \notin Frame /\ KernelPDP # None
           /\ Frame \subseteq Nat /\ Windows \cap Page = {}
           /\ tmpPDP # tmpPD /\ tmpPD # tmpPT /\ tmpPDP # tmpPT
           /\ \A a \in Page : a \in Nat
BY DEF FramesShape, None, KernelPDP, Frame, Windows, Page, tmpPDP, tmpPD, tmpPT

-----------------------------------------------------------------------------
(* The least frame *)

\* A set of numbers has a least one.
LEMMA Least ==
    ASSUME NEW T \in SUBSET Nat, T # {}
    PROVE  \E n \in T : \A m \in T : n <= m
<1> DEFINE Upto(n) == 0 .. n
           C == {Upto(n) : n \in T}
<1>1. IsWellFoundedOn(StrictSubsetOrdering(Nat), FiniteSubsetsOf(Nat))
    BY FS_StrictSubsetOrderingWellFounded
<1>2. \A n \in T : Upto(n) \in FiniteSubsetsOf(Nat)
    <2> TAKE n \in T
    <2>1. IsFiniteSet(0 .. n)
        BY FS_Interval
    <2> QED
        BY <2>1 DEF FiniteSubsetsOf
<1>3. \A n \in T, m \in T : m < n => <<Upto(m), Upto(n)>> \in StrictSubsetOrdering(Nat)
    <2> TAKE n \in T, m \in T
    <2>1. m < n => /\ Upto(m) \in SUBSET Nat /\ Upto(n) \in SUBSET Nat
                   /\ Upto(m) \subseteq Upto(n) /\ n \in Upto(n) /\ n \notin Upto(m)
        OBVIOUS
    <2> HIDE DEF Upto
    <2> QED
        BY <2>1 DEF StrictSubsetOrdering
<1> HIDE DEF Upto
<1>4. C # {} /\ C \subseteq FiniteSubsetsOf(Nat)
    BY <1>2
<1> HIDE DEF C
<1>5. \E x \in C : \A y \in C : ~(<<y, x>> \in StrictSubsetOrdering(Nat))
    BY <1>1, <1>4, WFMin
<1>6. PICK n \in T : \A m \in T : ~(<<Upto(m), Upto(n)>> \in StrictSubsetOrdering(Nat))
    BY <1>5 DEF C
<1>7. \A m \in T : ~(m < n)
    BY <1>3, <1>6
<1> QED
    BY <1>7

\* A set of frames that is not empty has a least one and a greatest one.
LEMMA Extremes ==
    ASSUME FramesShape, NEW S \in SUBSET Frame, S # {}
    PROVE  /\ Min(S) \in S /\ \A f \in S : Min(S) <= f
           /\ Max(S) \in S /\ \A f \in S : f <= Max(S)
<1>1. NbFrames \in Nat /\ S \subseteq Nat /\ \A f \in S : f \in 0..NbFrames - 1
    BY DEF FramesShape, Frame
<1>2. \E n \in S : \A m \in S : n <= m
    BY <1>1, Least
<1>3. \E n \in S : \A m \in S : n >= m
    <2> DEFINE T == {NbFrames - f : f \in S}
    <2>1. T \in SUBSET Nat /\ T # {}
        <3>1. \A f \in S : NbFrames - f \in Nat
            BY <1>1
        <3> QED
            BY <3>1
    <2>2. PICK t \in T : \A u \in T : t <= u
        BY <2>1, Least
    <2>3. PICK n \in S : t = NbFrames - n
        OBVIOUS
    <2>4. \A m \in S : NbFrames - m \in T
        OBVIOUS
    <2> HIDE DEF T
    <2>5. \A m \in S : n >= m
        BY <2>2, <2>3, <2>4, <1>1
    <2> QED
        BY <2>5
<1>4. Min(S) \in S /\ \A f \in S : Min(S) <= f
    BY <1>2 DEF Min
<1>5. Max(S) \in S /\ \A f \in S : Max(S) >= f
    BY <1>3 DEF Max
<1>6. \A f \in S : Max(S) >= f => f <= Max(S)
    BY <1>1, <1>5
<1> QED
    BY <1>4, <1>5, <1>6

\* Sets of frames are finite.
LEMMA FramesCounted ==
    ASSUME FramesShape, NEW F \in SUBSET Frame
    PROVE  IsFiniteSet(F) /\ Cardinality(F) \in Nat
<1>1. NbFrames \in Nat /\ IsFiniteSet(0..NbFrames - 1)
    BY FS_Interval DEF FramesShape
<1> QED
    BY <1>1, FS_Subset, FS_CardinalityType DEF Frame

\* Frames are left as long as one was not the last.
LEMMA FreeLeft ==
    ASSUME FramesShape, NEW F \in SUBSET Frame, NEW n \in Nat, Cardinality(F) >= n
    PROVE  /\ n >= 1 => F # {}
           /\ \A f : Cardinality(F \ {f}) >= n - 1
<1>1. IsFiniteSet(F) /\ Cardinality(F) \in Nat
    BY FramesCounted
<1>2. n >= 1 => F # {}
    BY FS_EmptySet
<1>3. ASSUME NEW f PROVE Cardinality(F \ {f}) >= n - 1
    <2>1. Cardinality(F \ {f}) = IF f \in F THEN Cardinality(F) - 1 ELSE Cardinality(F)
        BY <1>1, FS_RemoveElement
    <2> QED
        BY <2>1, <1>1
<1> QED
    BY <1>2, <1>3

\* The two pages of the font: the first slot that the bitset has for two pages is slot 1, and
\* the second page is that of slot 0, in the same table.
LEMMA FontSlots ==
    ASSUME FramesShape
    PROVE  /\ largeBsf(1..NbSlots - 1) = 1 /\ SlotPage(1) + 1 = SlotPage(0)
           /\ SlotPage(0) \in Page /\ SlotPage(1) \in Page /\ SlotPage(0) # SlotPage(1)
           /\ Small(SlotPage(0)) /\ Small(SlotPage(1))
           /\ SlotPage(0) # BufferPage /\ SlotPage(1) # BufferPage
           /\ PDPindex(SlotPage(0)) = PDPindex(SlotPage(1)) /\ PDindex(SlotPage(0)) = PDindex(SlotPage(1))
           /\ FontFrame \in Frame /\ FontFrame + 1 \in Frame
           /\ FontFrame \in BootFrames /\ FontFrame + 1 \in BootFrames
           /\ \A a \in KernelPages : a \in Page /\ a # SlotPage(0) /\ a # SlotPage(1)
<1>1. NbSlots \in Nat /\ NbSlots >= 3 /\ Fan \in Nat /\ Fan >= 2 /\ Fan * Fan \in Nat
      /\ 0 \in 0..NbSlots - 1 /\ 1 \in 0..NbSlots - 1
    BY DEF FramesShape
<1>2. largeBsf(1..NbSlots - 1) = 1
    <2> DEFINE T == {i \in 1..NbSlots - 1 : i + 1 \in 1..NbSlots - 1}
    <2>1. 1 \in T /\ T \in SUBSET Nat /\ \A i \in T : i >= 1
        BY <1>1
    <2>2. largeBsf(1..NbSlots - 1) = IF T = {} THEN None ELSE Min(T)
        BY DEF largeBsf
    <2> HIDE DEF T
    <2>3. Min(T) \in T /\ \A i \in T : Min(T) <= i
        BY <2>1, Least DEF Min
    <2>4. Min(T) = 1
        <3> DEFINE x == Min(T)
        <3>1. x \in Nat /\ x <= 1 /\ x >= 1
            BY <2>1, <2>3
        <3> HIDE DEF x
        <3>2. x = 1
            BY <3>1
        <3> QED
            BY <3>2 DEF x
    <2> QED
        BY <2>1, <2>2, <2>4
<1>3. SlotPage(1) + 1 = SlotPage(0) /\ SlotPage(0) # SlotPage(1)
    BY <1>1 DEF SlotPage, base
<1>4. SlotPage(0) \in Page /\ SlotPage(1) \in Page /\ Small(SlotPage(0)) /\ Small(SlotPage(1))
      /\ SlotPage(0) < BufferPage /\ SlotPage(1) < BufferPage /\ BufferPage \in Page
      /\ \A a \in KernelPages : a \in Page /\ a > BufferPage
    BY <1>1, Places
<1>5. /\ SlotPage(0) # BufferPage /\ SlotPage(1) # BufferPage
      /\ \A a \in KernelPages : a \in Page /\ a # SlotPage(0) /\ a # SlotPage(1)
    BY <1>4, SizesAre
<1>6. PDPindex(SlotPage(0)) = PDPindex(SlotPage(1)) /\ PDindex(SlotPage(0)) = PDindex(SlotPage(1))
    <2> DEFINE j == Fan - 1
               k == Fan - 2
    <2>1. 0 \in Idx /\ j \in Idx /\ k \in Idx
        BY <1>1 DEF Idx
    <2>2. j * Fan = Fan * Fan - Fan
        BY <1>1
    <2>3. SlotPage(0) = 0 * (Fan * Fan) + j * Fan + j /\ SlotPage(1) = 0 * (Fan * Fan) + j * Fan + k
        BY <1>1, <2>2 DEF SlotPage, base
    <2> HIDE DEF j, k
    <2>4. PDPindex(SlotPage(0)) = 0 /\ PDindex(SlotPage(0)) = j
        BY <1>4, <2>1, <2>3, DigitsAre
    <2>5. PDPindex(SlotPage(1)) = 0 /\ PDindex(SlotPage(1)) = j
        BY <1>4, <2>1, <2>3, DigitsAre
    <2> QED
        BY <2>4, <2>5
<1>7. FontFrame \in BootFrames /\ FontFrame + 1 \in BootFrames /\ BootFrames \subseteq Frame
    BY Extremes DEF FramesShape, FontFrame
<1> QED
    BY <1>2, <1>3, <1>4, <1>5, <1>6, <1>7

-----------------------------------------------------------------------------
(* The windows *)

\* A state of the memory and of the processor.
State(m, win, tlb, s) == [mem |-> m, mmu |-> [win |-> win, tlb |-> tlb], stop |-> s]

\* Sets with an element more or less.
Plus(S, x) == S \cup {x}
Minus(S, x) == S \ {x}
Single(x) == {x}

\* Functions with a value more or less.
Drop(t, w) == [x \in DOMAIN t \ {w} |-> t[x]]
With(t, w, f) == [x \in DOMAIN t \cup {w} |-> IF x = w THEN f ELSE t[x]]

\* invlpg drops one page.
LEMMA Invlpg ==
    ASSUME NEW m, NEW win, NEW tlb, NEW s, NEW w
    PROVE  invlpg(State(m, win, tlb, s), w) = State(m, win, Drop(tlb, w), s)
BY DEF invlpg, State, Drop

\* The steps through a window, on such a state.
LEMMA Looks ==
    ASSUME NEW m, NEW win, NEW tlb, NEW s, NEW w,
           NEW seen, seen = IF w \in DOMAIN tlb THEN tlb[w] ELSE win[w]
    PROVE  /\ Seen(State(m, win, tlb, s), w) = seen
           /\ Cached(State(m, win, tlb, s), w) = State(m, win, With(tlb, w, seen), s)
<1> DEFINE v == State(m, win, tlb, s)
<1>1. v.mem = m /\ v.mmu.win = win /\ v.mmu.tlb = tlb /\ v.stop = s
    BY DEF State
<1>2. Seen(v, w) = seen
    BY <1>1 DEF Seen
<1>3. Cached(v, w) = State(m, win, With(tlb, w, seen), s)
    BY <1>2 DEF Cached, State, With
<1> QED
    BY <1>2, <1>3

\* What a window shows of the table behind it: the cached one if there is one.
LEMMA Finds ==
    ASSUME NEW m, NEW win, NEW tlb, NEW s, NEW w, NEW i,
           NEW seen, seen = IF w \in DOMAIN tlb THEN tlb[w] ELSE win[w]
    PROVE  /\ Present(State(m, win, tlb, s), w, i) <=> <<seen, i>> \in DOMAIN m.tab
           /\ Entry(State(m, win, tlb, s), w, i) = m.tab[<<seen, i>>]
<1> DEFINE v == State(m, win, tlb, s)
<1>1. v.mem = m
    BY DEF State
<1>2. Seen(v, w) = seen
    BY Looks
<1> QED
    BY <1>1, <1>2 DEF Present, Entry

\* actTmp puts a table behind a window that is shut, and drops what was cached of it.
LEMMA Opens ==
    ASSUME NEW m, NEW win, NEW tlb, NEW s, NEW w, NEW f, win[w] = None
    PROVE  act(State(m, win, tlb, s), w, f) = State(m, [win EXCEPT ![w] = f], Drop(tlb, w), s)
<1> DEFINE v == State(m, win, tlb, s)
<1>1. ~(v.mmu.win[w] # None)
    BY DEF State
<1> DEFINE o == [v EXCEPT !.mmu.win[w] = f]
<1>2. o = State(m, [win EXCEPT ![w] = f], tlb, s)
    BY DEF State
<1> HIDE DEF v
<1>3. act(v, w, f) = invlpg(o, w)
    BY <1>1, Zenon DEF act
<1> HIDE DEF o
<1>4. act(v, w, f) = State(m, [win EXCEPT ![w] = f], Drop(tlb, w), s)
    BY <1>2, <1>3, Invlpg
<1> QED
    BY <1>4 DEF v

\* freeTmp shuts a window, and drops what was cached of it.
LEMMA Closes ==
    ASSUME NEW m, NEW win, NEW tlb, NEW s, NEW w
    PROVE  freeTmp(State(m, win, tlb, s), w) = State(m, [win EXCEPT ![w] = None], Drop(tlb, w), s)
<1> DEFINE v == State(m, win, tlb, s)
<1>1. [v EXCEPT !.mmu.win[w] = None] = State(m, [win EXCEPT ![w] = None], tlb, s)
    BY DEF State
<1> HIDE DEF v
<1>2. freeTmp(v, w) = State(m, [win EXCEPT ![w] = None], Drop(tlb, w), s)
    BY <1>1, Invlpg DEF freeTmp
<1> QED
    BY <1>2 DEF v

\* Physical memory, and what is behind a table.
Memory(fr, tab, lg, ts) == [free |-> fr, tab |-> tab, large |-> lg, tables |-> ts]
Without(tab, f) == [x \in {y \in DOMAIN tab : y[1] # f} |-> tab[x]]

\* The changes of physical memory through a window.
LEMMA Writes ==
    ASSUME NEW fr, NEW tab, NEW lg, NEW ts, NEW win, NEW tlb, NEW s, NEW w, NEW f, NEW i,
           NEW seen, seen = IF w \in DOMAIN tlb THEN tlb[w] ELSE win[w]
    PROVE  Write(State(Memory(fr, tab, lg, ts), win, tlb, s), w, i, f) =
               State(Memory(fr, With(tab, <<seen, i>>, f), lg, ts), win, With(tlb, w, seen), s)
<1> DEFINE v == State(Memory(fr, tab, lg, ts), win, tlb, s)
           c == With(tlb, w, seen)
           u == State(Memory(fr, tab, lg, ts), win, c, s)
<1>1. Seen(v, w) = seen /\ Cached(v, w) = u
    BY Looks
<1>2. u.mem.free = fr /\ u.mem.tab = tab /\ u.mem.large = lg /\ u.mem.tables = ts
    BY DEF State, Memory
<1>3. \A A : [u EXCEPT !.mem.tab = A] = State(Memory(fr, A, lg, ts), win, c, s)
    BY DEF State, Memory
<1> HIDE DEF u, v, c
<1>4. Write(v, w, i, f) = [u EXCEPT !.mem.tab = With(tab, <<seen, i>>, f)]
    BY <1>1, <1>2 DEF Write, With
<1>5. Write(v, w, i, f) = State(Memory(fr, With(tab, <<seen, i>>, f), lg, ts), win, c, s)
    BY <1>3, <1>4, Zenon
<1> QED
    BY <1>5 DEF c, v

\* An entry erased through a window.
LEMMA Erases ==
    ASSUME NEW fr, NEW tab, NEW lg, NEW ts, NEW win, NEW tlb, NEW s, NEW w, NEW i,
           NEW seen, seen = IF w \in DOMAIN tlb THEN tlb[w] ELSE win[w]
    PROVE  Erase(State(Memory(fr, tab, lg, ts), win, tlb, s), w, i) =
               State(Memory(fr, Drop(tab, <<seen, i>>), Minus(lg, <<seen, i>>), ts), win, With(tlb, w, seen), s)
<1> DEFINE v == State(Memory(fr, tab, lg, ts), win, tlb, s)
           c == With(tlb, w, seen)
           u == State(Memory(fr, tab, lg, ts), win, c, s)
<1>1. Seen(v, w) = seen /\ Cached(v, w) = u
    BY Looks
<1>2. u.mem.free = fr /\ u.mem.tab = tab /\ u.mem.large = lg /\ u.mem.tables = ts
    BY DEF State, Memory
<1>3. \A A : [u EXCEPT !.mem.tab = A] = State(Memory(fr, A, lg, ts), win, c, s)
    BY DEF State, Memory
<1> DEFINE A == Drop(tab, <<seen, i>>)
           B == Minus(lg, <<seen, i>>)
<1> HIDE DEF u, v, c, A, B
<1>4. Erase(v, w, i) = [u EXCEPT !.mem.tab = A, !.mem.large = B]
    BY <1>1, <1>2 DEF Erase, A, B, Drop, Minus
<1>5. [u EXCEPT !.mem.tab = A, !.mem.large = B] = [[u EXCEPT !.mem.tab = A] EXCEPT !.mem.large = B]
    OBVIOUS
<1>6. [State(Memory(fr, A, lg, ts), win, c, s) EXCEPT !.mem.large = B] = State(Memory(fr, A, B, ts), win, c, s)
    BY DEF State, Memory
<1>7. [u EXCEPT !.mem.tab = A] = State(Memory(fr, A, lg, ts), win, c, s)
    BY <1>3
<1>8. [u EXCEPT !.mem.tab = A, !.mem.large = B] = State(Memory(fr, A, B, ts), win, c, s)
    BY <1>5, <1>6, <1>7
<1> QED
    BY <1>4, <1>8 DEF A, B, c, v

\* A table made empty through a window.
LEMMA Clears ==
    ASSUME NEW fr, NEW tab, NEW lg, NEW ts, NEW win, NEW tlb, NEW s, NEW w,
           NEW seen, seen = IF w \in DOMAIN tlb THEN tlb[w] ELSE win[w]
    PROVE  Clear(State(Memory(fr, tab, lg, ts), win, tlb, s), w) =
               State(Memory(fr, Without(tab, seen), lg, Plus(ts, seen)), win, With(tlb, w, seen), s)
<1> DEFINE v == State(Memory(fr, tab, lg, ts), win, tlb, s)
           c == With(tlb, w, seen)
           u == State(Memory(fr, tab, lg, ts), win, c, s)
<1>1. Seen(v, w) = seen /\ Cached(v, w) = u
    BY Looks
<1>2. u.mem.free = fr /\ u.mem.tab = tab /\ u.mem.large = lg /\ u.mem.tables = ts
    BY DEF State, Memory
<1>3. \A A : [u EXCEPT !.mem.tab = A] = State(Memory(fr, A, lg, ts), win, c, s)
    BY DEF State, Memory
<1> DEFINE A == Without(tab, seen)
           B == Plus(ts, seen)
<1> HIDE DEF u, v, c, A, B
<1>4. Clear(v, w) = [u EXCEPT !.mem.tab = A, !.mem.tables = B]
    BY <1>1, <1>2 DEF Clear, A, B, Without, Plus
<1>5. [u EXCEPT !.mem.tab = A, !.mem.tables = B] = [[u EXCEPT !.mem.tab = A] EXCEPT !.mem.tables = B]
    OBVIOUS
<1>6. [State(Memory(fr, A, lg, ts), win, c, s) EXCEPT !.mem.tables = B] = State(Memory(fr, A, lg, B), win, c, s)
    BY DEF State, Memory
<1>7. [u EXCEPT !.mem.tab = A] = State(Memory(fr, A, lg, ts), win, c, s)
    BY <1>3
<1>8. [u EXCEPT !.mem.tab = A, !.mem.tables = B] = State(Memory(fr, A, lg, B), win, c, s)
    BY <1>5, <1>6, <1>7
<1> QED
    BY <1>4, <1>8 DEF A, B, c, v

\* No window is open, and none is cached.
Shut == [w \in Windows |-> None]
Quiet(tlb) == tlb = [x \in DOMAIN tlb |-> tlb[x]] /\ Windows \cap DOMAIN tlb = {}

\* A window that was opened, used and closed leaves nothing.
LEMMA ClosedAgain ==
    ASSUME NEW tlb, Quiet(tlb), NEW w \in Windows, NEW f
    PROVE  Drop(tlb, w) = tlb /\ Drop(With(tlb, w, f), w) = tlb
<1>1. w \notin DOMAIN tlb /\ tlb = [x \in DOMAIN tlb |-> tlb[x]]
    BY DEF Quiet
<1>2. DOMAIN tlb \ {w} = DOMAIN tlb
    BY <1>1
<1>3. Drop(tlb, w) = tlb
    BY <1>1, <1>2, Zenon DEF Drop
<1>4. DOMAIN With(tlb, w, f) = DOMAIN tlb \cup {w}
      /\ \A x \in DOMAIN tlb : With(tlb, w, f)[x] = tlb[x]
    BY <1>1 DEF With
<1>5. DOMAIN With(tlb, w, f) \ {w} = DOMAIN tlb
    BY <1>1, <1>4
<1>6. Drop(With(tlb, w, f), w) = [x \in DOMAIN tlb |-> With(tlb, w, f)[x]]
    BY <1>5, Zenon DEF Drop
<1>7. Drop(With(tlb, w, f), w) = tlb
    BY <1>1, <1>4, <1>6
<1> QED
    BY <1>3, <1>7

\* What getPDphy and getPTphy do: the table that is there is found, and one that is
\* missing is made, without entries, in the lowest free frame.
LEMMA Descends ==
    ASSUME FramesShape, NEW fr, NEW tab, NEW lg, NEW ts, NEW tlb, NEW s, Quiet(tlb),
           NEW w \in Windows, NEW below \in Windows, below # w, NEW table, NEW i,
           NEW f, f = bsf(fr), NEW m, m = Memory(fr, tab, lg, ts), NEW v, v = State(m, Shut, tlb, s)
    PROVE  /\ <<table, i>> \in DOMAIN tab =>
                  Descend(v, w, table, i, below) = [st |-> v, table |-> tab[<<table, i>>]]
           /\ <<table, i>> \notin DOMAIN tab =>
                  Descend(v, w, table, i, below) =
                      [st |-> State(Memory(Minus(fr, f), With(Without(tab, f), <<table, i>>, f), lg, Plus(ts, f)),
                                    Shut, tlb, s),
                       table |-> f]
<1> DEFINE W1 == [Shut EXCEPT ![w] = table]
           on == State(m, W1, tlb, s)
<1>1. W1[w] = table /\ W1[below] = None /\ [W1 EXCEPT ![w] = None] = Shut
      /\ W1 = [x \in Windows |-> W1[x]] /\ Shut[w] = None
    BY DEF Shut
<1>2. w \notin DOMAIN tlb /\ below \notin DOMAIN tlb
    BY DEF Quiet
<1>3. act(v, w, table) = on
    BY <1>1, Opens, ClosedAgain
<1> DEFINE tab1 == Without(tab, f)
           tab2 == With(tab1, <<table, i>>, f)
           m1 == Memory(Minus(fr, f), tab, lg, ts)
           m2 == Memory(Minus(fr, f), tab1, lg, Plus(ts, f))
           m3 == Memory(Minus(fr, f), tab2, lg, Plus(ts, f))
           W2 == [W1 EXCEPT ![below] = f]
           taken == [on EXCEPT !.mem = alloc(@)]
<1>4. m.tab = tab /\ m.free = fr /\ alloc(m) = m1
    BY DEF Memory, alloc, Minus
<1>5. W2[below] = f /\ [W2 EXCEPT ![below] = None] = W1
    BY <1>1
<1>6. taken = State(m1, W1, tlb, s)
    BY <1>4 DEF State
<1> HIDE DEF W1, W2, m1, m2, m3, tab1, tab2
<1>7. ASSUME <<table, i>> \in DOMAIN tab
      PROVE  Descend(v, w, table, i, below) = [st |-> v, table |-> tab[<<table, i>>]]
    <2>1. Present(on, w, i) /\ Entry(on, w, i) = tab[<<table, i>>]
        BY <1>1, <1>2, <1>4, <1>7, Finds
    <2>2. Cached(on, w) = State(m, W1, With(tlb, w, table), s)
        BY <1>1, <1>2, Looks
    <2>3. freeTmp(Cached(on, w), w) = v
        BY <2>2, <1>1, Closes, ClosedAgain
    <2> HIDE DEF on
    <2> QED
        BY <2>1, <2>3, <1>3 DEF Descend
<1>8. ASSUME <<table, i>> \notin DOMAIN tab
      PROVE  Descend(v, w, table, i, below) = [st |-> State(m3, Shut, tlb, s), table |-> f]
    <2>1. ~Present(on, w, i)
        BY <1>1, <1>2, <1>4, <1>8, Finds
    <2>2. act(taken, below, f) = State(m1, W2, tlb, s)
        BY <1>1, <1>6, Opens, ClosedAgain DEF W2
    <2>3. Clear(act(taken, below, f), below) = State(m2, W2, With(tlb, below, f), s)
        <3>1. f = IF below \in DOMAIN tlb THEN tlb[below] ELSE W2[below]
            BY <1>2, <1>5
        <3>2. Clear(State(m1, W2, tlb, s), below) = State(m2, W2, With(tlb, below, f), s)
            BY ONLY <3>1, Clears DEF m1, m2, tab1
        <3> QED
            BY <2>2, <3>2
    <2> DEFINE made == freeTmp(Clear(act(taken, below, f), below), below)
    <2>4. made = State(m2, W1, tlb, s)
        BY <2>3, <1>5, Closes, ClosedAgain
    <2> HIDE DEF made
    <2>5. Write(made, w, i, f) = State(m3, W1, With(tlb, w, table), s)
        BY <2>4, <1>1, <1>2, Writes DEF m2, m3, tab2
    <2>6. freeTmp(Write(made, w, i, f), w) = State(m3, Shut, tlb, s)
        BY <2>5, <1>1, Closes, ClosedAgain
    <2>7. v.mem.free = fr
        BY <1>4 DEF State
    <2> HIDE DEF on, taken
    <2> QED
        BY <2>1, <2>6, <2>7, <1>3 DEF Descend, made, taken
<1> QED
    BY <1>7, <1>8 DEF m3, tab2, tab1

-----------------------------------------------------------------------------
(* The tables *)

\* What entry i of table t leads to.
To(m, t, i) == IF <<t, i>> \in DOMAIN m.tab THEN m.tab[<<t, i>>] ELSE None
PD(m, t) == t # None /\ \E i \in Idx : To(m, KernelPDP, i) = t

\* The entry leads to a table.
Link(m, t, i) ==
    /\ i \in Idx /\ To(m, t, i) # None
    /\ \/ t = KernelPDP
       \/ PD(m, t) /\ <<t, i>> \notin m.large

\* The entries are those of tables, no two of them lead to the same table, no table is in
\* a free frame, and the only large page is that of the screen.
Tables(m) ==
    /\ m = Memory(m.free, m.tab, m.large, m.tables)
    /\ m.free \subseteq Frame /\ m.tables \subseteq Frame
    /\ \A f \in m.tables : f \notin m.free
    /\ DOMAIN m.tab \subseteq ({KernelPDP} \cup m.tables) \X Idx
    /\ \A x \in DOMAIN m.tab : m.tab[x] \in Frame
    /\ \A t, i : Link(m, t, i) => To(m, t, i) \in m.tables
    /\ \A t, u, i, j : Link(m, t, i) /\ Link(m, u, j) /\ To(m, t, i) = To(m, u, j) => t = u /\ i = j
    /\ \A x \in m.large : x \in DOMAIN m.tab /\ x = <<To(m, KernelPDP, 1), 0>>

\* The entries of memory.
LEMMA Entries ==
    ASSUME FramesShape, NEW m, Tables(m), NEW t, NEW i, To(m, t, i) # None
    PROVE  /\ To(m, t, i) \in Frame /\ i \in Idx /\ t \in {KernelPDP} \cup m.tables
           /\ <<t, i>> \in DOMAIN m.tab /\ t # None
<1>1. <<t, i>> \in DOMAIN m.tab /\ To(m, t, i) = m.tab[<<t, i>>]
    BY DEF To
<1>2. <<t, i>> \in ({KernelPDP} \cup m.tables) \X Idx /\ m.tab[<<t, i>>] \in Frame
    BY <1>1 DEF Tables
<1>3. m.tables \subseteq Frame
    BY DEF Tables
<1> QED
    BY <1>1, <1>2, <1>3, SizesAre

\* The walk of the processor in these terms.
Through(m, pd, e, j, k) ==
    IF pd = None \/ e = None THEN None ELSE IF <<pd, j>> \in m.large THEN e ELSE To(m, e, k)

\* Walk is the walk in these terms, in every memory whose tables are right.
LEMMA WalkIs ==
    ASSUME FramesShape, NEW m, Tables(m), NEW a
    PROVE  LET pd == To(m, KernelPDP, PDPindex(a))
           IN  Walk(m, a) = Through(m, pd, To(m, pd, PDindex(a)), PDindex(a), PTindex(a))
<1> DEFINE i == PDPindex(a)
           j == PDindex(a)
           k == PTindex(a)
           pd == To(m, KernelPDP, i)
           e == To(m, pd, j)
<1>1. pd # None <=> <<KernelPDP, i>> \in DOMAIN m.tab
    BY SizesAre DEF To, Tables
<1>2. pd # None => pd = m.tab[<<KernelPDP, i>>]
    BY <1>1 DEF To
<1>3. e # None <=> <<pd, j>> \in DOMAIN m.tab
    BY SizesAre DEF To, Tables
<1>4. e # None => e = m.tab[<<pd, j>>]
    BY <1>3 DEF To
<1> DEFINE pd0 == m.tab[<<KernelPDP, i>>]
<1>5. Walk(m, a) = IF <<KernelPDP, i>> \notin DOMAIN m.tab \/ <<pd0, j>> \notin DOMAIN m.tab THEN None
                   ELSE IF <<pd0, j>> \in m.large THEN m.tab[<<pd0, j>>]
                   ELSE To(m, m.tab[<<pd0, j>>], k)
    BY DEF Walk, To
<1> HIDE DEF i, j, k, pd, e
<1>6. Walk(m, a) = Through(m, pd, e, j, k)
    BY <1>1, <1>2, <1>3, <1>4, <1>5 DEF Through
<1> QED
    BY <1>6 DEF i, j, k, pd, e

\* A new table in a free frame.
LEMMA NewTable ==
    ASSUME FramesShape, NEW m, Tables(m), NEW t, NEW i \in Idx, t = KernelPDP \/ PD(m, t),
           <<t, i>> \notin DOMAIN m.tab, NEW f \in m.free,
           NEW n, n = Memory(Minus(m.free, f), With(Without(m.tab, f), <<t, i>>, f), m.large, Plus(m.tables, f))
    PROVE  /\ To(n, t, i) = f /\ t # f
           /\ \A u, j : <<u, j>> # <<t, i>> => To(n, u, j) = IF u = f THEN None ELSE To(m, u, j)
           /\ \A u, j : To(m, u, j) # None => To(n, u, j) = To(m, u, j)
           /\ DOMAIN n.tab \subseteq DOMAIN m.tab \cup {<<t, i>>}
           /\ \A x \in DOMAIN n.tab : n.tab[x] \in Frame
<1>1. f \in Frame /\ f \notin m.tables /\ f # KernelPDP /\ f # None
    BY SizesAre DEF Tables
<1>2. t # f
    <2>1. ASSUME PD(m, t) PROVE t \in m.tables
        <3>1. PICK l \in Idx : To(m, KernelPDP, l) = t
            BY <2>1 DEF PD
        <3>2. Link(m, KernelPDP, l)
            BY <2>1, <3>1 DEF Link, PD
        <3> QED
            BY <3>1, <3>2 DEF Tables
    <2> QED
        BY <2>1, <1>1
<1>3. n.tab = With(Without(m.tab, f), <<t, i>>, f)
    BY DEF Memory
<1>4. DOMAIN n.tab = {y \in DOMAIN m.tab : y[1] # f} \cup {<<t, i>>}
      /\ \A x \in DOMAIN n.tab : n.tab[x] = IF x = <<t, i>> THEN f ELSE m.tab[x]
    BY <1>3 DEF With, Without
<1>5. ASSUME NEW u, NEW j, <<u, j>> # <<t, i>>
      PROVE  To(n, u, j) = IF u = f THEN None ELSE To(m, u, j)
    BY <1>4, <1>5 DEF To
<1>6. To(n, t, i) = f
    BY <1>4 DEF To
<1>7. ASSUME NEW u, NEW j, To(m, u, j) # None
      PROVE  To(n, u, j) = To(m, u, j)
    <2>1. u \in {KernelPDP} \cup m.tables /\ <<u, j>> \in DOMAIN m.tab
        BY <1>7, Entries
    <2>2. u # f /\ <<u, j>> # <<t, i>>
        BY <2>1, <1>1
    <2> QED
        BY <2>2, <1>5
<1>8. \A x \in DOMAIN n.tab : n.tab[x] \in Frame
    BY <1>1, <1>4 DEF Tables
<1> QED
    BY <1>2, <1>4, <1>5, <1>6, <1>7, <1>8

\* The large page hangs in a table.
LEMMA LargeHangs ==
    ASSUME FramesShape, NEW m, Tables(m), NEW x \in m.large
    PROVE  To(m, KernelPDP, 1) # None /\ To(m, To(m, KernelPDP, 1), 0) # None
<1> DEFINE pd == To(m, KernelPDP, 1)
<1> HIDE DEF pd
<1>1. x \in DOMAIN m.tab /\ x = <<pd, 0>>
    BY DEF Tables, pd
<1>2. <<pd, 0>> \in ({KernelPDP} \cup m.tables) \X Idx /\ m.tab[<<pd, 0>>] \in Frame
    BY <1>1 DEF Tables
<1>3. pd # None /\ To(m, pd, 0) # None
    BY <1>1, <1>2, SizesAre DEF To, Tables
<1> QED
    BY <1>3 DEF pd

\* It is one more table of the same tree.
LEMMA TableAdded ==
    ASSUME FramesShape, NEW m, Tables(m), NEW t, NEW i \in Idx,
           t = KernelPDP \/ (PD(m, t) /\ <<t, i>> \notin m.large),
           <<t, i>> \notin DOMAIN m.tab, NEW f \in m.free,
           NEW n, n = Memory(Minus(m.free, f), With(Without(m.tab, f), <<t, i>>, f), m.large, Plus(m.tables, f))
    PROVE  /\ Tables(n) /\ To(n, t, i) = f /\ f # None /\ Link(n, t, i)
           /\ \A u, j : To(m, u, j) # None => To(n, u, j) = To(m, u, j)
           /\ \A u, j : Link(m, u, j) => Link(n, u, j)
           /\ \A a \in Page : Walk(n, a) = Walk(m, a)
           /\ \A j : To(n, f, j) = None
<1> DEFINE E == /\ To(n, t, i) = f /\ t # f
                /\ \A u, j : <<u, j>> # <<t, i>> => To(n, u, j) = IF u = f THEN None ELSE To(m, u, j)
                /\ \A u, j : To(m, u, j) # None => To(n, u, j) = To(m, u, j)
<1>1. E /\ DOMAIN n.tab \subseteq DOMAIN m.tab \cup {<<t, i>>} /\ \A x \in DOMAIN n.tab : n.tab[x] \in Frame
    BY NewTable
<1>2. f \in Frame /\ f \notin m.tables /\ f # KernelPDP /\ f # None
    BY SizesAre DEF Tables
<1>3. /\ n.free = Minus(m.free, f) /\ n.large = m.large /\ n.tables = Plus(m.tables, f)
      /\ n = Memory(n.free, n.tab, n.large, n.tables)
    BY DEF Memory
<1>4. To(m, t, i) = None
    BY DEF To
<1>5. \A j : To(n, f, j) = None
    BY <1>1
<1> HIDE DEF E
<1>6. ASSUME NEW x, PD(n, x), x # f PROVE PD(m, x)
    <2>1. PICK l \in Idx : To(n, KernelPDP, l) = x
        BY <1>6 DEF PD
    <2>2. To(m, KernelPDP, l) = x
        BY <2>1, <1>1, <1>2, <1>6 DEF E
    <2> QED
        BY <2>2, <1>6 DEF PD
<1>7. ASSUME NEW x, PD(m, x) PROVE PD(n, x)
    BY <1>7, <1>1 DEF PD, E
<1>8. ASSUME NEW u, NEW j, Link(n, u, j)
      PROVE  Link(m, u, j) \/ (u = t /\ j = i)
    <2>1. u # f
        BY <1>5, <1>8 DEF Link
    <2>2. CASE u = t /\ j = i
        BY <2>2
    <2>3. CASE ~(u = t /\ j = i)
        <3>1. To(n, u, j) = To(m, u, j)
            BY <2>1, <2>3, <1>1 DEF E
        <3> QED
            BY <3>1, <2>1, <1>8, <1>6, <1>3 DEF Link
    <2> QED
        BY <2>2, <2>3
<1>9. ASSUME NEW u, NEW j, Link(m, u, j)
      PROVE  Link(n, u, j) /\ To(n, u, j) = To(m, u, j)
    BY <1>9, <1>1, <1>3, <1>7 DEF Link, E
<1>10. Link(n, t, i)
    BY <1>1, <1>2, <1>3, <1>7 DEF Link, E
<1>11. \A u, j : Link(m, u, j) => To(m, u, j) \in m.tables
    BY DEF Tables
<1>12. Tables(n)
    <2>1. n.free \subseteq Frame /\ n.tables \subseteq Frame /\ \A g \in n.tables : g \notin n.free
        BY <1>2, <1>3 DEF Tables, Plus, Minus
    <2>2. t \in {KernelPDP} \cup m.tables
        <3>1. ASSUME PD(m, t) PROVE t \in m.tables
            <4>1. PICK l \in Idx : To(m, KernelPDP, l) = t
                BY <3>1 DEF PD
            <4>2. Link(m, KernelPDP, l)
                BY <3>1, <4>1 DEF Link, PD
            <4> QED
                BY <4>1, <4>2, <1>11
        <3> QED
            BY <3>1
    <2>3. DOMAIN n.tab \subseteq ({KernelPDP} \cup n.tables) \X Idx
        <3>1. DOMAIN m.tab \subseteq ({KernelPDP} \cup m.tables) \X Idx
            BY DEF Tables
        <3>2. <<t, i>> \in ({KernelPDP} \cup m.tables) \X Idx
            BY <2>2
        <3>3. ({KernelPDP} \cup m.tables) \X Idx \subseteq ({KernelPDP} \cup n.tables) \X Idx
            BY <1>3 DEF Plus
        <3> QED
            BY <3>1, <3>2, <3>3, <1>1
    <2>4. ASSUME NEW u, NEW j, Link(n, u, j) PROVE To(n, u, j) \in n.tables
        <3>1. m.tables \subseteq n.tables /\ f \in n.tables
            BY <1>3 DEF Plus
        <3>2. CASE Link(m, u, j)
            BY ONLY <3>1, <3>2, <1>9, <1>11
        <3>3. CASE u = t /\ j = i
            BY <3>1, <3>3, <1>1 DEF E
        <3> QED
            BY <3>2, <3>3, <2>4, <1>8
    <2>5. ASSUME NEW u, NEW v, NEW j, NEW k, Link(n, u, j), Link(n, v, k), To(n, u, j) = To(n, v, k)
          PROVE  u = v /\ j = k
        <3>1. ASSUME NEW x, NEW l, Link(n, x, l)
              PROVE  \/ x = t /\ l = i /\ To(n, x, l) = f
                     \/ Link(m, x, l) /\ To(n, x, l) = To(m, x, l) /\ To(m, x, l) # f
            BY <3>1, <1>1, <1>2, <1>8, <1>9, <1>11 DEF E
        <3>2. \/ u = t /\ j = i /\ To(n, u, j) = f
              \/ Link(m, u, j) /\ To(n, u, j) = To(m, u, j) /\ To(m, u, j) # f
            BY <2>5, <3>1
        <3>3. \/ v = t /\ k = i /\ To(n, v, k) = f
              \/ Link(m, v, k) /\ To(n, v, k) = To(m, v, k) /\ To(m, v, k) # f
            BY <2>5, <3>1
        <3>4. Link(m, u, j) /\ Link(m, v, k) /\ To(m, u, j) = To(m, v, k) => u = v /\ j = k
            BY DEF Tables
        <3> QED
            BY <3>2, <3>3, <3>4, <2>5
    <2>6. ASSUME NEW x \in n.large
          PROVE  x \in DOMAIN n.tab /\ x = <<To(n, KernelPDP, 1), 0>>
        <3>1. To(m, KernelPDP, 1) # None /\ To(m, To(m, KernelPDP, 1), 0) # None /\ x = <<To(m, KernelPDP, 1), 0>>
            BY <1>3, <2>6, LargeHangs DEF Tables
        <3>2. To(n, KernelPDP, 1) = To(m, KernelPDP, 1) /\ To(n, To(m, KernelPDP, 1), 0) # None
            BY <3>1, <1>1 DEF E
        <3> QED
            BY <3>1, <3>2 DEF To
    <2> QED
        BY <1>1, <1>3, <2>1, <2>3, <2>4, <2>5, <2>6 DEF Tables
<1>13. ASSUME NEW a \in Page PROVE Walk(n, a) = Walk(m, a)
    <2> DEFINE p == PDPindex(a)
               j == PDindex(a)
               k == PTindex(a)
               pd == To(m, KernelPDP, p)
               e == To(m, pd, j)
    <2>1. Walk(m, a) = Through(m, pd, e, j, k)
        BY WalkIs
    <2>2. Walk(n, a) = Through(n, To(n, KernelPDP, p), To(n, To(n, KernelPDP, p), j), j, k)
        BY <1>12, WalkIs
    <2>3. p \in Idx /\ j \in Idx /\ k \in Idx
        BY DigitsOfPage
    <2> HIDE DEF p, j, k
    <2>4. CASE pd = None
        <3>1. To(n, KernelPDP, p) = None \/ To(n, KernelPDP, p) = f
            BY <2>4, <1>1, <1>2 DEF E
        <3>2. To(n, KernelPDP, p) = None \/ To(n, To(n, KernelPDP, p), j) = None
            BY <3>1, <1>5
        <3> QED
            BY <2>1, <2>2, <2>4, <3>2 DEF Through
    <2>5. CASE pd # None
        <3>1. To(n, KernelPDP, p) = pd
            BY <2>5, <1>1 DEF E
        <3>2. pd \in m.tables
            <4>1. Link(m, KernelPDP, p)
                BY <2>3, <2>5 DEF Link
            <4> QED
                BY <4>1, <1>11
        <3>3. pd # f
            BY <3>2, <1>2
        <3>4. CASE e = None
            <4>1. To(n, pd, j) = None \/ (To(n, pd, j) = f /\ pd = t /\ j = i)
                <5>1. \A q : q # f /\ <<q, j>> # <<t, i>> => To(n, q, j) = To(m, q, j)
                    BY <1>1 DEF E
                <5>2. To(n, t, i) = f
                    BY <1>1 DEF E
                <5>3. ASSUME NEW q, q # f, To(m, q, j) = None
                      PROVE  To(n, q, j) = None \/ (To(n, q, j) = f /\ q = t /\ j = i)
                    BY <5>1, <5>2, <5>3
                <5> QED
                    BY <3>3, <3>4, <5>3
            <4>2. ASSUME To(n, pd, j) = f, pd = t, j = i PROVE Through(n, pd, f, j, k) = None
                <5>1. <<t, i>> \notin m.large
                    BY DEF Tables
                <5> QED
                    BY <4>2, <5>1, <1>3, <1>5, <1>2, <2>5 DEF Through
            <4> QED
                BY <4>1, <4>2, <3>1, <3>4, <2>1, <2>2, <2>5 DEF Through
        <3>5. CASE e # None
            <4>1. To(n, pd, j) = e
                BY <3>5, <1>1 DEF E
            <4>2. CASE <<pd, j>> \in m.large
                BY <4>1, <4>2, <3>1, <2>1, <2>2, <2>5, <3>5, <1>3 DEF Through
            <4>3. CASE <<pd, j>> \notin m.large
                <5>1. PD(m, pd)
                    BY <2>3, <2>5 DEF PD
                <5>2. Link(m, pd, j)
                    BY <5>1, <4>3, <3>5, <2>3 DEF Link
                <5>3. e \in m.tables /\ e # f
                    BY <5>2, <1>2, <1>11
                <5>4. ~(e = t /\ k = i)
                    <6>1. ASSUME e = t PROVE FALSE
                        <7>1. e # KernelPDP
                            BY <5>3, SizesAre DEF Tables
                        <7>2. PICK l \in Idx : To(m, KernelPDP, l) = e
                            BY <6>1, <7>1 DEF PD
                        <7>3. Link(m, KernelPDP, l)
                            BY <7>2, <3>5 DEF Link
                        <7>4. pd = KernelPDP
                            BY <7>2, <7>3, <5>2 DEF Tables
                        <7> QED
                            BY <7>4, <3>2, SizesAre DEF Tables
                    <6> QED
                        BY <6>1
                <5>5. To(n, e, k) = To(m, e, k)
                    BY <5>3, <5>4, <1>1 DEF E
                <5> QED
                    BY <4>1, <4>3, <5>5, <3>1, <2>1, <2>2, <2>5, <3>5, <1>3 DEF Through
            <4> QED
                BY <4>2, <4>3
        <3> QED
            BY <3>4, <3>5
    <2> QED
        BY <2>4, <2>5
<1> QED
    BY <1>1, <1>2, <1>5, <1>9, <1>10, <1>12, <1>13 DEF E

\* The entry of a page that is not in the large page is not that of the large page.
LEMMA NotLarge ==
    ASSUME FramesShape, NEW m, Tables(m), NEW a \in Page, Small(a),
           NEW pd, pd = To(m, KernelPDP, PDPindex(a)), pd # None
    PROVE  <<pd, PDindex(a)>> \notin m.large
<1> DEFINE i == PDPindex(a)
           j == PDindex(a)
<1>1. i \in Idx /\ j \in Idx
    BY DigitsOfPage
<1>2. pd = To(m, KernelPDP, i) /\ ~(i = 1 /\ j = 0)
    BY DEF Small
<1> HIDE DEF i, j
<1>3. ASSUME <<pd, j>> \in m.large PROVE i = 1 /\ j = 0
    <2>1. <<pd, j>> = <<To(m, KernelPDP, 1), 0>> /\ To(m, KernelPDP, 1) # None
        BY <1>3, LargeHangs DEF Tables
    <2>2. Link(m, KernelPDP, i) /\ Link(m, KernelPDP, 1)
        <3>1. 1 \in Idx
            BY DEF FramesShape, Idx
        <3> QED
            BY <1>1, <1>2, <2>1, <3>1 DEF Link
    <2>3. pd = To(m, KernelPDP, 1) /\ j = 0
        BY <2>1
    <2> QED
        BY <2>2, <2>3, <1>2 DEF Tables
<1> QED
    BY <1>2, <1>3 DEF j

\* An entry of a page table is written or cleared: only this page changes.  The entry becomes
\* f, None if it is cleared.
LEMMA PageSet ==
    ASSUME FramesShape, NEW m, Tables(m), NEW a \in Page, Small(a),
           NEW pd, pd = To(m, KernelPDP, PDPindex(a)), pd # None,
           NEW pt, pt = To(m, pd, PDindex(a)), pt # None,
           NEW f, NEW k, k = PTindex(a), NEW tab,
           \/ f \in Frame /\ tab = With(m.tab, <<pt, k>>, f)
           \/ f = None /\ tab = Drop(m.tab, <<pt, k>>),
           NEW n, n = Memory(m.free, tab, m.large, m.tables)
    PROVE  /\ Tables(n)
           /\ \A b \in Page : Walk(n, b) = IF b = a THEN f ELSE Walk(m, b)
<1> DEFINE i == PDPindex(a)
           j == PDindex(a)
<1>1. i \in Idx /\ j \in Idx /\ k \in Idx
    BY DigitsOfPage
<1>2. pd = To(m, KernelPDP, i) /\ pt = To(m, pd, j) /\ ~(i = 1 /\ j = 0)
    BY DEF Small
<1> HIDE DEF i, j
<1>3. <<pd, j>> \notin m.large
    BY NotLarge DEF j
<1>4. PD(m, pd) /\ Link(m, KernelPDP, i) /\ Link(m, pd, j)
    BY <1>1, <1>2, <1>3 DEF PD, Link
<1>5. pd \in m.tables /\ pt \in m.tables /\ pd # KernelPDP /\ pt # KernelPDP
    BY <1>2, <1>4, SizesAre DEF Tables
<1>6. ~PD(m, pt)
    <2>1. ASSUME PD(m, pt) PROVE FALSE
        <3>1. PICK l \in Idx : To(m, KernelPDP, l) = pt
            BY <2>1 DEF PD
        <3>2. Link(m, KernelPDP, l)
            BY <3>1 DEF Link
        <3>3. pd = KernelPDP
            BY <3>1, <3>2, <1>2, <1>4 DEF Tables
        <3> QED
            BY <3>3, <1>5
    <2> QED
        BY <2>1
<1>7. /\ n.free = m.free /\ n.large = m.large /\ n.tables = m.tables /\ n.tab = tab
      /\ n = Memory(n.free, n.tab, n.large, n.tables)
    BY DEF Memory
<1>8. /\ DOMAIN n.tab \subseteq DOMAIN m.tab \cup {<<pt, k>>}
      /\ \A x \in DOMAIN n.tab : n.tab[x] \in Frame
      /\ To(n, pt, k) = f
      /\ \A u, l : <<u, l>> # <<pt, k>> => To(n, u, l) = To(m, u, l)
    <2>1. CASE f \in Frame /\ tab = With(m.tab, <<pt, k>>, f)
        <3>1. DOMAIN n.tab = DOMAIN m.tab \cup {<<pt, k>>}
              /\ \A x \in DOMAIN n.tab : n.tab[x] = IF x = <<pt, k>> THEN f ELSE m.tab[x]
            BY <2>1, <1>7 DEF With
        <3>2. \A x \in DOMAIN n.tab : n.tab[x] \in Frame
            BY <2>1, <3>1 DEF Tables
        <3> QED
            BY <3>1, <3>2 DEF To
    <2>2. CASE f = None /\ tab = Drop(m.tab, <<pt, k>>)
        <3>1. DOMAIN n.tab = DOMAIN m.tab \ {<<pt, k>>}
              /\ \A x \in DOMAIN n.tab : n.tab[x] = m.tab[x]
            BY <2>2, <1>7 DEF Drop
        <3>2. \A x \in DOMAIN n.tab : n.tab[x] \in Frame
            BY <3>1 DEF Tables
        <3> QED
            BY <3>1, <3>2, <2>2 DEF To
    <2> QED
        BY <2>1, <2>2
<1>9. \A u, l : u # pt => To(n, u, l) = To(m, u, l)
    BY <1>8
<1>10. \A x : PD(n, x) <=> PD(m, x)
    BY <1>5, <1>9 DEF PD
<1>11. ASSUME NEW u, NEW l PROVE /\ Link(n, u, l) <=> Link(m, u, l)
                                 /\ Link(m, u, l) => To(n, u, l) = To(m, u, l)
    <2>1. CASE u = pt
        BY <2>1, <1>5, <1>6, <1>10 DEF Link
    <2>2. CASE u # pt
        BY <2>2, <1>7, <1>9, <1>10 DEF Link
    <2> QED
        BY <2>1, <2>2
<1>12. Tables(n)
    <2>1. DOMAIN n.tab \subseteq ({KernelPDP} \cup n.tables) \X Idx
        <3>1. DOMAIN m.tab \subseteq ({KernelPDP} \cup m.tables) \X Idx
            BY DEF Tables
        <3>2. <<pt, k>> \in ({KernelPDP} \cup m.tables) \X Idx
            BY <1>1, <1>5
        <3> QED
            BY <3>1, <3>2, <1>7, <1>8
    <2>2. \A u, l : Link(n, u, l) => To(n, u, l) \in n.tables
        BY <1>7, <1>11 DEF Tables
    <2>3. \A t, u, l, q : Link(n, t, l) /\ Link(n, u, q) /\ To(n, t, l) = To(n, u, q) => t = u /\ l = q
        BY <1>11 DEF Tables
    <2>4. ASSUME NEW x \in n.large
          PROVE  x \in DOMAIN n.tab /\ x = <<To(n, KernelPDP, 1), 0>>
        <3>1. To(m, KernelPDP, 1) # None /\ To(m, To(m, KernelPDP, 1), 0) # None /\ x = <<To(m, KernelPDP, 1), 0>>
            BY <1>7, <2>4, LargeHangs DEF Tables
        <3>2. To(n, KernelPDP, 1) = To(m, KernelPDP, 1)
            BY <1>5, <1>9
        <3>3. To(m, KernelPDP, 1) # pt
            <4>1. 1 \in Idx
                BY DEF FramesShape, Idx
            <4>2. PD(m, To(m, KernelPDP, 1))
                BY <3>1, <4>1 DEF PD
            <4> QED
                BY <4>2, <1>6
        <3>4. To(n, To(m, KernelPDP, 1), 0) # None
            BY <3>1, <3>3, <1>9
        <3> QED
            BY <3>1, <3>2, <3>4 DEF To
    <2>5. n.free \subseteq Frame /\ n.tables \subseteq Frame /\ \A g \in n.tables : g \notin n.free
        BY <1>7 DEF Tables
    <2> QED
        BY <1>7, <1>8, <2>1, <2>2, <2>3, <2>4, <2>5 DEF Tables
<1>13. ASSUME NEW b \in Page PROVE Walk(n, b) = IF b = a THEN f ELSE Walk(m, b)
    <2> DEFINE p == PDPindex(b)
               q == PDindex(b)
               r == PTindex(b)
               d == To(m, KernelPDP, p)
               e == To(m, d, q)
    <2>1. Walk(m, b) = Through(m, d, e, q, r)
        BY WalkIs
    <2>2. Walk(n, b) = Through(n, To(n, KernelPDP, p), To(n, To(n, KernelPDP, p), q), q, r)
        BY <1>12, WalkIs
    <2>3. p \in Idx /\ q \in Idx /\ r \in Idx
        BY DigitsOfPage
    <2>4. p = i /\ q = j /\ r = k <=> b = a
        BY PageOfDigits DEF i, j
    <2> HIDE DEF p, q, r
    <2>5. To(n, KernelPDP, p) = d
        BY <1>5, <1>9
    <2>6. CASE d = None
        BY <2>1, <2>2, <2>4, <2>5, <2>6, <1>2 DEF Through
    <2>7. CASE d # None
        <3>1. PD(m, d) /\ Link(m, KernelPDP, p)
            BY <2>3, <2>7 DEF PD, Link
        <3>2. d # pt
            BY <3>1, <1>6
        <3>3. To(n, d, q) = e
            BY <3>2, <1>9
        <3>4. CASE e = None \/ <<d, q>> \in m.large
            <4>1. b # a
                BY <3>4, <2>4, <1>2, <1>3
            <4> QED
                BY <4>1, <3>3, <3>4, <2>1, <2>2, <2>5, <1>7 DEF Through
        <3>5. CASE e # None /\ <<d, q>> \notin m.large
            <4>1. Link(m, d, q)
                BY <2>3, <3>1, <3>5 DEF Link
            <4>2. e = pt => d = pd /\ q = j
                BY <4>1, <1>2, <1>4 DEF Tables
            <4>3. d = pd => p = i
                BY <3>1, <1>2, <1>4 DEF Tables
            <4>4. e = pt /\ r = k <=> b = a
                BY <4>2, <4>3, <2>4, <1>2
            <4>5. Walk(m, b) = To(m, e, r) /\ Walk(n, b) = To(n, e, r)
                BY <3>3, <3>5, <2>1, <2>2, <2>5, <2>7, <1>7 DEF Through
            <4>6. To(n, e, r) = IF e = pt /\ r = k THEN f ELSE To(m, e, r)
                BY <1>8
            <4> QED
                BY <4>4, <4>5, <4>6
        <3> QED
            BY <3>4, <3>5
    <2> QED
        BY <2>6, <2>7
<1> QED
    BY <1>12, <1>13

\* The large page is mapped: only the pages in it change.
LEMMA LargeSet ==
    ASSUME FramesShape, NEW m, Tables(m), m.large = {},
           NEW pd, pd = To(m, KernelPDP, 1), pd # None, To(m, pd, 0) = None, NEW f \in Frame,
           NEW n, n = Memory(m.free, With(m.tab, <<pd, 0>>, f), Single(<<pd, 0>>), m.tables)
    PROVE  /\ Tables(n)
           /\ \A b \in Page : Walk(n, b) = IF Small(b) THEN Walk(m, b) ELSE f
<1>1. 0 \in Idx /\ 1 \in Idx
    BY DEF FramesShape, Idx
<1>2. PD(m, pd) /\ Link(m, KernelPDP, 1)
    BY <1>1 DEF PD, Link
<1>3. pd \in m.tables /\ pd # KernelPDP
    BY <1>2, SizesAre DEF Tables
<1>4. /\ n.free = m.free /\ n.large = {<<pd, 0>>} /\ n.tables = m.tables
      /\ n.tab = With(m.tab, <<pd, 0>>, f)
      /\ n = Memory(n.free, n.tab, n.large, n.tables)
    BY DEF Memory, Single
<1>5. /\ DOMAIN n.tab = DOMAIN m.tab \cup {<<pd, 0>>}
      /\ \A x \in DOMAIN n.tab : n.tab[x] = IF x = <<pd, 0>> THEN f ELSE m.tab[x]
    BY <1>4 DEF With
<1>6. \A x \in DOMAIN n.tab : n.tab[x] \in Frame
    BY <1>5 DEF Tables
<1>7. /\ To(n, pd, 0) = f
      /\ \A u, l : <<u, l>> # <<pd, 0>> => To(n, u, l) = To(m, u, l)
    BY <1>5 DEF To
<1>8. \A u, l : u # pd => To(n, u, l) = To(m, u, l)
    BY <1>7
<1>9. \A x : PD(n, x) <=> PD(m, x)
    BY <1>3, <1>8 DEF PD
<1>10. ASSUME NEW u, NEW l PROVE /\ Link(n, u, l) <=> Link(m, u, l)
                                 /\ Link(m, u, l) => To(n, u, l) = To(m, u, l)
    <2>1. CASE u = pd /\ l = 0
        BY <2>1, <1>3, <1>4 DEF Link
    <2>2. CASE ~(u = pd /\ l = 0)
        <3>1. To(n, u, l) = To(m, u, l) /\ <<u, l>> \notin n.large /\ <<u, l>> \notin m.large
            BY <2>2, <1>4, <1>7
        <3> QED
            BY <3>1, <1>9 DEF Link
    <2> QED
        BY <2>1, <2>2
<1>11. Tables(n)
    <2>1. DOMAIN n.tab \subseteq ({KernelPDP} \cup n.tables) \X Idx
        <3>1. DOMAIN m.tab \subseteq ({KernelPDP} \cup m.tables) \X Idx
            BY DEF Tables
        <3>2. <<pd, 0>> \in ({KernelPDP} \cup m.tables) \X Idx
            BY <1>1, <1>3
        <3> QED
            BY <3>1, <3>2, <1>4, <1>5
    <2>2. ASSUME NEW u, NEW l, Link(n, u, l) PROVE To(n, u, l) \in n.tables
        <3>1. Link(m, u, l) /\ To(n, u, l) = To(m, u, l)
            BY <1>10, <2>2
        <3>2. To(m, u, l) \in m.tables
            BY <3>1 DEF Tables
        <3> QED
            BY <3>1, <3>2, <1>4
    <2>3. \A t, u, l, q : Link(n, t, l) /\ Link(n, u, q) /\ To(n, t, l) = To(n, u, q) => t = u /\ l = q
        BY <1>10 DEF Tables
    <2>4. ASSUME NEW x \in n.large
          PROVE  x \in DOMAIN n.tab /\ x = <<To(n, KernelPDP, 1), 0>>
        <3>1. x = <<pd, 0>> /\ x \in DOMAIN n.tab
            BY <2>4, <1>4, <1>5
        <3>2. To(n, KernelPDP, 1) = pd
            BY <1>3, <1>8
        <3> QED
            BY <3>1, <3>2
    <2>5. n.free \subseteq Frame /\ n.tables \subseteq Frame /\ \A g \in n.tables : g \notin n.free
        BY <1>4 DEF Tables
    <2> QED
        BY <1>4, <1>6, <2>1, <2>2, <2>3, <2>4, <2>5 DEF Tables
<1>12. ASSUME NEW b \in Page PROVE Walk(n, b) = IF Small(b) THEN Walk(m, b) ELSE f
    <2> DEFINE p == PDPindex(b)
               q == PDindex(b)
               r == PTindex(b)
               d == To(m, KernelPDP, p)
               e == To(m, d, q)
    <2>1. Walk(m, b) = Through(m, d, e, q, r)
        BY WalkIs
    <2>2. Walk(n, b) = Through(n, To(n, KernelPDP, p), To(n, To(n, KernelPDP, p), q), q, r)
        BY <1>11, WalkIs
    <2>3. p \in Idx /\ q \in Idx /\ r \in Idx
        BY DigitsOfPage
    <2>4. ~Small(b) <=> p = 1 /\ q = 0
        BY DEF Small
    <2> HIDE DEF p, q, r
    <2>5. To(n, KernelPDP, p) = d
        BY <1>3, <1>8
    <2>6. CASE d = None
        BY <2>1, <2>2, <2>4, <2>5, <2>6 DEF Through
    <2>7. CASE d # None
        <3>1. PD(m, d) /\ Link(m, KernelPDP, p)
            BY <2>3, <2>7 DEF PD, Link
        <3>2. d = pd <=> p = 1
            BY <3>1, <1>2 DEF Tables
        <3>3. <<d, q>> \in n.large <=> ~Small(b)
            BY <3>2, <2>4, <1>4
        <3>4. CASE ~Small(b)
            <4>1. f # None /\ To(n, d, q) = f
                BY <3>2, <3>4, <2>4, <1>7, SizesAre
            <4> QED
                BY <4>1, <3>3, <3>4, <2>2, <2>5, <2>7 DEF Through
        <3>5. CASE Small(b)
            <4>1. To(n, d, q) = e
                BY <3>2, <3>5, <2>4, <1>7
            <4>2. CASE e = None
                BY <4>1, <4>2, <3>5, <2>1, <2>2, <2>5 DEF Through
            <4>3. CASE e # None
                <5>1. <<d, q>> \notin m.large /\ <<d, q>> \notin n.large
                    BY <3>3, <3>5
                <5>2. Link(m, d, q)
                    BY <5>1, <2>3, <3>1, <4>3 DEF Link
                <5>3. e # pd
                    <6>1. e = pd => d = KernelPDP
                        BY <5>2, <1>2 DEF Tables
                    <6>2. d # KernelPDP
                        BY <3>1, SizesAre DEF Tables
                    <6> QED
                        BY <6>1, <6>2
                <5>4. To(n, e, r) = To(m, e, r)
                    BY <5>3, <1>8
                <5> QED
                    BY <5>1, <5>4, <4>1, <4>3, <3>5, <2>1, <2>2, <2>5, <2>7 DEF Through
            <4> QED
                BY <4>2, <4>3
        <3> QED
            BY <3>4, <3>5
    <2> QED
        BY <2>6, <2>7
<1> QED
    BY <1>11, <1>12

-----------------------------------------------------------------------------
(* Paging *)

\* Between two calls no window is open, and the tables are in order.
Resting(v) ==
    /\ v = State(v.mem, Shut, v.mmu.tlb, v.stop)
    /\ Quiet(v.mmu.tlb)
    /\ Tables(v.mem)

\* n has more tables than m, in frames that were free.
Took(m, n) ==
    /\ n.large = m.large /\ n.free \subseteq m.free
    /\ n.tables = m.tables \cup (m.free \ n.free)

\* The links of m are there in n, and the pages lead where they did.
Extends(m, n) ==
    /\ \A t, i : To(m, t, i) # None => To(n, t, i) = To(m, t, i)
    /\ \A t, i : Link(m, t, i) => Link(n, t, i)
    /\ \A a \in Page : Walk(n, a) = Walk(m, a)

\* The lowest free frame.
LEMMA Lowest ==
    ASSUME FramesShape, NEW F \in SUBSET Frame, F # {}
    PROVE  bsf(F) \in F
BY Extremes DEF bsf

\* An entry for a table.
Inner(m, t, i) == t = KernelPDP \/ (PD(m, t) /\ <<t, i>> \notin m.large)

\* getPDphy and getPTphy: one step down.
LEMMA Descended ==
    ASSUME FramesShape, NEW v, Resting(v), NEW w \in Windows, NEW below \in Windows, below # w,
           NEW i \in Idx, NEW t, Inner(v.mem, t, i),
           To(v.mem, t, i) # None \/ v.mem.free # {},
           NEW d, d = Descend(v, w, t, i, below)
    PROVE  /\ Resting(d.st) /\ d.st.mmu = v.mmu /\ d.st.stop = v.stop
           /\ Took(v.mem, d.st.mem) /\ Extends(v.mem, d.st.mem)
           /\ \A n \in Nat : Cardinality(v.mem.free) >= n + 1 => Cardinality(d.st.mem.free) >= n
           /\ d.table = To(d.st.mem, t, i) /\ d.table # None /\ Link(d.st.mem, t, i)
           /\ To(v.mem, t, i) # None => d.st = v
           /\ To(v.mem, t, i) = None => \A j : To(d.st.mem, d.table, j) = None
<1> DEFINE m == v.mem
           f == bsf(m.free)
<1>1. /\ m = Memory(m.free, m.tab, m.large, m.tables)
      /\ v = State(m, Shut, v.mmu.tlb, v.stop) /\ Quiet(v.mmu.tlb) /\ Tables(m) /\ m.free \subseteq Frame
    BY DEF Resting, Tables
<1>2. To(m, t, i) # None <=> <<t, i>> \in DOMAIN m.tab
    BY <1>1, SizesAre DEF To, Tables
<1>3. CASE <<t, i>> \in DOMAIN m.tab
    <2>1. d = [st |-> v, table |-> m.tab[<<t, i>>]]
        BY <1>1, <1>3, Descends
    <2>2. d.st = v /\ d.table = To(m, t, i)
        BY <2>1, <1>3 DEF To
    <2>3. Link(m, t, i)
        BY <1>2, <1>3 DEF Link, Inner
    <2>4. Took(m, m) /\ Extends(m, m)
        BY DEF Took, Extends
    <2>5. \A n \in Nat : Cardinality(m.free) >= n + 1 => Cardinality(m.free) >= n
        <3>1. Cardinality(m.free) \in Nat
            BY <1>1, FramesCounted
        <3> QED
            BY <3>1
    <2> QED
        BY <2>2, <2>3, <2>4, <2>5, <1>2, <1>3
<1>4. CASE <<t, i>> \notin DOMAIN m.tab
    <2> DEFINE n == Memory(Minus(m.free, f), With(Without(m.tab, f), <<t, i>>, f), m.large, Plus(m.tables, f))
    <2>1. f \in m.free
        BY <1>1, <1>2, <1>4, Lowest
    <2>2. d = [st |-> State(n, Shut, v.mmu.tlb, v.stop), table |-> f]
        BY <1>1, <1>4, Descends
    <2>3. t = KernelPDP \/ (PD(m, t) /\ <<t, i>> \notin m.large)
        BY DEF Inner
    <2> HIDE DEF m, f
    <2>4. /\ Tables(n) /\ To(n, t, i) = f /\ f # None /\ Link(n, t, i)
          /\ \A u, j : To(m, u, j) # None => To(n, u, j) = To(m, u, j)
          /\ \A u, j : Link(m, u, j) => Link(n, u, j)
          /\ \A a \in Page : Walk(n, a) = Walk(m, a)
          /\ \A j : To(n, f, j) = None
        BY <1>1, <1>4, <2>1, <2>3, TableAdded
    <2>5. n.free = m.free \ {f} /\ n.tables = m.tables \cup {f} /\ n.large = m.large
        BY DEF Memory, Plus, Minus
    <2>6. Took(m, n)
        BY <2>1, <2>5 DEF Took
    <2>7. Extends(m, n)
        BY <2>4 DEF Extends
    <2>8. \A k \in Nat : Cardinality(m.free) >= k + 1 => Cardinality(n.free) >= k
        <3> TAKE k \in Nat
        <3> HAVE Cardinality(m.free) >= k + 1
        <3> DEFINE F == m.free
        <3>1. F \in SUBSET Frame /\ k + 1 \in Nat /\ Cardinality(F) >= k + 1 /\ (k + 1) - 1 = k
            BY <1>1
        <3> HIDE DEF F
        <3>2. Cardinality(F \ {f}) >= (k + 1) - 1
            BY <3>1, FreeLeft
        <3>3. Cardinality(F \ {f}) >= k
            BY <3>1, <3>2
        <3> QED
            BY <3>3, <2>5 DEF F
    <2> HIDE DEF n
    <2>9. d.st.mem = n /\ d.st.mmu = [win |-> Shut, tlb |-> v.mmu.tlb] /\ d.st.stop = v.stop /\ d.table = f
        BY <2>2 DEF State
    <2>10. v.mmu = [win |-> Shut, tlb |-> v.mmu.tlb]
        BY <1>1 DEF State
    <2>11. Resting(d.st)
        BY <2>2, <2>4, <2>9, <1>1 DEF Resting
    <2> QED
        BY <2>4, <2>6, <2>7, <2>8, <2>9, <2>10, <2>11, <1>2, <1>4 DEF m
<1> QED
    BY <1>3, <1>4

\* The page has a page table, and where it is.
TableAt(m, a) == To(m, To(m, KernelPDP, PDPindex(a)), PDindex(a))
HasTable(m, a) == To(m, KernelPDP, PDPindex(a)) # None /\ TableAt(m, a) # None

\* getPTphy: the page table of the page, made if it is missing.
LEMMA TableFound ==
    ASSUME FramesShape, NEW v, Resting(v), NEW a \in Page, Small(a),
           HasTable(v.mem, a) \/ Cardinality(v.mem.free) >= 2,
           NEW g, g = getPTphy(v, a)
    PROVE  /\ Resting(g.st) /\ g.st.mmu = v.mmu /\ g.st.stop = v.stop
           /\ Took(v.mem, g.st.mem)
           /\ \A b \in Page : Walk(g.st.mem, b) = Walk(v.mem, b)
           /\ HasTable(g.st.mem, a) /\ g.table = TableAt(g.st.mem, a)
           /\ HasTable(v.mem, a) => g.st = v
<1> DEFINE i == PDPindex(a)
           j == PDindex(a)
           p == getPDphy(v, a)
<1>1. i \in Idx /\ j \in Idx
    BY DigitsOfPage
<1>2. tmpPDP \in Windows /\ tmpPD \in Windows /\ tmpPT \in Windows /\ tmpPD # tmpPDP /\ tmpPT # tmpPD
    BY SizesAre DEF Windows
<1>3. Tables(v.mem) /\ v.mem.free \subseteq Frame
    BY DEF Resting, Tables
<1>4. To(v.mem, KernelPDP, i) # None \/ v.mem.free # {}
    <2>1. ASSUME Cardinality(v.mem.free) >= 2 PROVE v.mem.free # {}
        BY <2>1, FS_EmptySet
    <2> QED
        BY <2>1 DEF HasTable
<1>5. p = Descend(v, tmpPDP, KernelPDP, i, tmpPD) /\ g = Descend(p.st, tmpPD, p.table, j, tmpPT)
    BY DEF getPDphy, getPTphy
<1> HIDE DEF i, j, p
<1>6. /\ Resting(p.st) /\ p.st.mmu = v.mmu /\ p.st.stop = v.stop
      /\ Took(v.mem, p.st.mem) /\ Extends(v.mem, p.st.mem)
      /\ \A n \in Nat : Cardinality(v.mem.free) >= n + 1 => Cardinality(p.st.mem.free) >= n
      /\ p.table = To(p.st.mem, KernelPDP, i) /\ p.table # None
      /\ To(v.mem, KernelPDP, i) # None => p.st = v
    <2>1. p = Descend(v, tmpPDP, KernelPDP, i, tmpPD)
        BY <1>5
    <2>2. Inner(v.mem, KernelPDP, i)
        BY DEF Inner
    <2> QED
        BY <2>1, <2>2, <1>1, <1>2, <1>4, Descended
<1> DEFINE t == p.table
<1>7. Inner(p.st.mem, t, j)
    <2>1. Tables(p.st.mem)
        BY <1>6 DEF Resting
    <2> QED
        BY <2>1, <1>1, <1>6, NotLarge DEF PD, Inner, i, j
<1>8. To(p.st.mem, t, j) # None \/ p.st.mem.free # {}
    <2>1. CASE HasTable(v.mem, a)
        BY <2>1, <1>6 DEF HasTable, TableAt, i, j
    <2>2. CASE Cardinality(v.mem.free) >= 2
        <3>1. 1 \in Nat /\ 1 + 1 = 2
            OBVIOUS
        <3>2. Cardinality(p.st.mem.free) >= 1
            BY <3>1, <2>2, <1>6
        <3> QED
            BY <3>2, FS_EmptySet
    <2> QED
        BY <2>1, <2>2
<1>9. /\ Resting(g.st) /\ g.st.mmu = p.st.mmu /\ g.st.stop = p.st.stop
      /\ Took(p.st.mem, g.st.mem) /\ Extends(p.st.mem, g.st.mem)
      /\ g.table = To(g.st.mem, t, j) /\ g.table # None
      /\ To(p.st.mem, t, j) # None => g.st = p.st
    BY <1>1, <1>2, <1>5, <1>6, <1>7, <1>8, Descended
<1> HIDE DEF t
<1>10. Took(v.mem, g.st.mem)
    BY <1>6, <1>9 DEF Took
<1>11. \A b \in Page : Walk(g.st.mem, b) = Walk(v.mem, b)
    BY <1>6, <1>9 DEF Extends
<1>12. To(g.st.mem, KernelPDP, i) = t /\ t # None
    BY <1>6, <1>9 DEF Extends, t
<1>13. HasTable(g.st.mem, a) /\ g.table = TableAt(g.st.mem, a)
    BY <1>9, <1>12 DEF HasTable, TableAt, i, j
<1>14. HasTable(v.mem, a) => g.st = v
    BY <1>6, <1>9 DEF HasTable, TableAt, i, j, t
<1> QED
    BY <1>6, <1>9, <1>10, <1>11, <1>13, <1>14

\* A page that leads somewhere has a page table, and its entry there is what counts.
LEMMA EntryOfPage ==
    ASSUME FramesShape, NEW m, Tables(m), NEW a \in Page, Small(a)
    PROVE  /\ Walk(m, a) # None => HasTable(m, a)
           /\ HasTable(m, a) => Walk(m, a) = To(m, TableAt(m, a), PTindex(a))
<1> DEFINE i == PDPindex(a)
           j == PDindex(a)
           pd == To(m, KernelPDP, i)
           e == To(m, pd, j)
<1>1. Walk(m, a) = Through(m, pd, e, j, PTindex(a))
    BY WalkIs
<1>2. pd # None => <<pd, j>> \notin m.large
    BY NotLarge
<1> HIDE DEF i, j, pd, e
<1>3. HasTable(m, a) <=> pd # None /\ e # None
    BY DEF HasTable, TableAt, i, j, pd, e
<1>4. e = TableAt(m, a)
    BY DEF TableAt, i, j, pd, e
<1> QED
    BY <1>1, <1>2, <1>3, <1>4 DEF Through

\* The processor can forget pages, which leaves no window in its cache.
LEMMA QuietDrop ==
    ASSUME NEW tlb, Quiet(tlb), NEW a
    PROVE  Quiet(Drop(tlb, a))
<1>1. DOMAIN Drop(tlb, a) = DOMAIN tlb \ {a}
    BY DEF Drop
<1>2. Drop(tlb, a) = [x \in DOMAIN Drop(tlb, a) |-> Drop(tlb, a)[x]]
    BY DEF Drop
<1> QED
    BY <1>1, <1>2 DEF Quiet

\* on is u with the window on page table pt.
OpenOn(u, win, pt, k, on) ==
    /\ on = State(u.mem, win, u.mmu.tlb, u.stop)
    /\ pt = IF tmpPT \in DOMAIN u.mmu.tlb THEN u.mmu.tlb[tmpPT] ELSE win[tmpPT]
    /\ [win EXCEPT ![tmpPT] = None] = Shut
    /\ Present(on, tmpPT, k) <=> To(u.mem, pt, k) # None

\* The window on the page table of a page, in the memory that getPTphy leaves.
LEMMA TableSeen ==
    ASSUME FramesShape, NEW u, Resting(u), NEW a \in Page, HasTable(u.mem, a),
           NEW pt, pt = TableAt(u.mem, a), NEW k, k = PTindex(a), NEW on, on = act(u, tmpPT, pt),
           NEW win, win = [Shut EXCEPT ![tmpPT] = pt]
    PROVE  OpenOn(u, win, pt, k, on)
<1>1. tmpPT \in Windows
    BY DEF Windows
<1>2. u = State(u.mem, Shut, u.mmu.tlb, u.stop) /\ Quiet(u.mmu.tlb) /\ Tables(u.mem)
    BY DEF Resting
<1>3. Shut[tmpPT] = None /\ win[tmpPT] = pt /\ [win EXCEPT ![tmpPT] = None] = Shut
    BY <1>1 DEF Shut
<1>4. tmpPT \notin DOMAIN u.mmu.tlb
    BY <1>1, <1>2 DEF Quiet
<1>5. on = State(u.mem, win, u.mmu.tlb, u.stop)
    <2> DEFINE m == u.mem
               tlb == u.mmu.tlb
               s == u.stop
    <2> HIDE DEF m, tlb, s
    <2>1. u = State(m, Shut, tlb, s) /\ Drop(tlb, tmpPT) = tlb
        BY <1>1, <1>2, ClosedAgain DEF m, tlb, s
    <2>2. act(State(m, Shut, tlb, s), tmpPT, pt) = State(m, [Shut EXCEPT ![tmpPT] = pt], Drop(tlb, tmpPT), s)
        BY ONLY <1>3, Opens
    <2>3. on = State(m, win, Drop(tlb, tmpPT), s)
        BY <2>1, <2>2
    <2> QED
        BY <2>1, <2>3 DEF m, tlb, s
<1>6. Present(on, tmpPT, k) <=> <<pt, k>> \in DOMAIN u.mem.tab
    <2>1. pt = IF tmpPT \in DOMAIN u.mmu.tlb THEN u.mmu.tlb[tmpPT] ELSE win[tmpPT]
        BY <1>3, <1>4
    <2>2. Present(State(u.mem, win, u.mmu.tlb, u.stop), tmpPT, k) <=> <<pt, k>> \in DOMAIN u.mem.tab
        BY ONLY <2>1, Finds
    <2> QED
        BY <2>2, <1>5
<1>7. To(u.mem, pt, k) # None <=> <<pt, k>> \in DOMAIN u.mem.tab
    BY <1>2, SizesAre DEF To, Tables
<1> QED
    BY <1>3, <1>4, <1>5, <1>6, <1>7 DEF OpenOn

\* createMapping of a page that leads nowhere: it leads to the frame, and the processor has
\* forgotten what it had for it.
LEMMA MappingCreated ==
    ASSUME FramesShape, NEW v, Resting(v), NEW a \in Page, Small(a), Walk(v.mem, a) = None,
           HasTable(v.mem, a) \/ Cardinality(v.mem.free) >= 2, NEW f \in Frame,
           NEW r, r = createMapping(v, f, a)
    PROVE  /\ Resting(r) /\ r.stop = v.stop /\ r.mmu.tlb = Drop(v.mmu.tlb, a)
           /\ Took(v.mem, r.mem)
           /\ \A b \in Page : Walk(r.mem, b) = IF b = a THEN f ELSE Walk(v.mem, b)
<1> DEFINE g == getPTphy(v, a)
           k == PTindex(a)
           pt == g.table
           on == act(g.st, tmpPT, pt)
           win == [Shut EXCEPT ![tmpPT] = pt]
           u == g.st
<1>1. /\ Resting(u) /\ u.mmu = v.mmu /\ u.stop = v.stop /\ Took(v.mem, u.mem)
      /\ \A b \in Page : Walk(u.mem, b) = Walk(v.mem, b)
      /\ HasTable(u.mem, a) /\ pt = TableAt(u.mem, a)
    BY TableFound
<1>2. r = IF Present(on, tmpPT, k) THEN [on EXCEPT !.stop = "already mapped"]
          ELSE invlpg(freeTmp(Write(on, tmpPT, k, f), tmpPT), a)
    BY Zenon DEF createMapping
<1> HIDE DEF g
<1> HIDE DEF k, pt, u
<1>3. on = act(u, tmpPT, pt)
    BY DEF u
<1> HIDE DEF on
<1>4. /\ on = State(u.mem, win, u.mmu.tlb, u.stop)
      /\ pt = IF tmpPT \in DOMAIN u.mmu.tlb THEN u.mmu.tlb[tmpPT] ELSE win[tmpPT]
      /\ [win EXCEPT ![tmpPT] = None] = Shut
      /\ Present(on, tmpPT, k) <=> To(u.mem, pt, k) # None
    <2>1. k = PTindex(a) /\ win = [Shut EXCEPT ![tmpPT] = pt]
        BY DEF k
    <2> HIDE DEF win
    <2>2. OpenOn(u, win, pt, k, on)
        BY <2>1, <1>1, <1>3, TableSeen
    <2> QED
        BY <2>2 DEF OpenOn
<1> DEFINE m == u.mem
           tlb == u.mmu.tlb
           s == u.stop
           tab == With(m.tab, <<pt, k>>, f)
           n == Memory(m.free, tab, m.large, m.tables)
<1>5. Tables(m) /\ m = Memory(m.free, m.tab, m.large, m.tables) /\ Quiet(tlb)
    BY <1>1 DEF Resting, Tables
<1>6. ~Present(on, tmpPT, k)
    BY <1>1, <1>4, <1>5, EntryOfPage DEF k
<1> HIDE DEF win, m, tlb, s
<1>7. Write(on, tmpPT, k, f) = State(n, win, With(tlb, tmpPT, pt), s)
    <2> DEFINE fr == m.free
               tb == m.tab
               lg == m.large
               ts == m.tables
    <2>1. on = State(Memory(fr, tb, lg, ts), win, tlb, s)
        BY <1>4, <1>5 DEF m, tlb, s
    <2>2. pt = IF tmpPT \in DOMAIN tlb THEN tlb[tmpPT] ELSE win[tmpPT]
        BY <1>4 DEF tlb
    <2> HIDE DEF fr, tb, lg, ts
    <2>3. Write(State(Memory(fr, tb, lg, ts), win, tlb, s), tmpPT, k, f) =
              State(Memory(fr, With(tb, <<pt, k>>, f), lg, ts), win, With(tlb, tmpPT, pt), s)
        BY ONLY <2>2, Writes
    <2> QED
        BY <2>1, <2>3 DEF fr, tb, lg, ts
<1> HIDE DEF tab
<1>8. freeTmp(Write(on, tmpPT, k, f), tmpPT) = State(n, Shut, tlb, s)
    <2> HIDE DEF n
    <2>1. Drop(With(tlb, tmpPT, pt), tmpPT) = tlb
        BY <1>5, ClosedAgain DEF Windows
    <2>2. freeTmp(State(n, win, With(tlb, tmpPT, pt), s), tmpPT) =
              State(n, [win EXCEPT ![tmpPT] = None], Drop(With(tlb, tmpPT, pt), tmpPT), s)
        BY ONLY Closes
    <2> QED
        BY <2>1, <2>2, <1>4, <1>7
<1>9. r = State(n, Shut, Drop(tlb, a), s)
    <2> HIDE DEF n
    <2> QED
        BY <1>2, <1>6, <1>8, Invlpg
<1>10. /\ Tables(n)
       /\ \A b \in Page : Walk(n, b) = IF b = a THEN f ELSE Walk(m, b)
    <2>1. pt = To(m, To(m, KernelPDP, PDPindex(a)), PDindex(a)) /\ To(m, KernelPDP, PDPindex(a)) # None /\ pt # None
        BY <1>1 DEF HasTable, TableAt, m
    <2> QED
        BY <2>1, <1>5, PageSet DEF tab, k
<1>11. n.free = m.free /\ n.large = m.large /\ n.tables = m.tables
    BY DEF Memory
<1> HIDE DEF n
<1>12. r.mem = n /\ r.stop = s /\ r.mmu.tlb = Drop(tlb, a)
    BY <1>9 DEF State
<1>13. Resting(r)
    BY <1>5, <1>9, <1>10, <1>12, QuietDrop DEF Resting
<1>14. Took(v.mem, n)
    BY <1>1, <1>11 DEF Took, m
<1> QED
    BY <1>1, <1>10, <1>12, <1>13, <1>14 DEF m, tlb, s

\* The table of a page is not a table of tables, and the large page is not in it.
LEMMA Leaf ==
    ASSUME FramesShape, NEW m, Tables(m), NEW a \in Page, Small(a), HasTable(m, a), NEW k
    PROVE  <<TableAt(m, a), k>> \notin m.large
<1> DEFINE i == PDPindex(a)
           j == PDindex(a)
           pd == To(m, KernelPDP, i)
           pt == To(m, pd, j)
<1>1. i \in Idx /\ j \in Idx /\ 1 \in Idx
    BY DigitsOfPage DEF FramesShape, Idx
<1>2. pd # None /\ pt # None /\ <<pd, j>> \notin m.large
    BY NotLarge DEF HasTable, TableAt
<1> HIDE DEF i, j
<1>3. Link(m, KernelPDP, i) /\ Link(m, pd, j)
    BY <1>1, <1>2 DEF Link, PD
<1>4. ASSUME <<pt, k>> \in m.large PROVE FALSE
    <2>1. To(m, KernelPDP, 1) = pt /\ Link(m, KernelPDP, 1)
        <3>1. <<pt, k>> = <<To(m, KernelPDP, 1), 0>>
            BY <1>4 DEF Tables
        <3> QED
            BY <3>1, <1>1, <1>2 DEF Link
    <2>2. pd = KernelPDP
        BY <2>1, <1>3 DEF Tables
    <2>3. pd \in m.tables
        BY <1>3 DEF Tables
    <2> QED
        BY <2>2, <2>3, SizesAre DEF Tables
<1> QED
    BY <1>4 DEF TableAt, i, j

\* freeMapping of a page that leads somewhere: it leads nowhere, and the processor is not told.
LEMMA MappingFreed ==
    ASSUME FramesShape, NEW v, Resting(v), NEW a \in Page, Small(a), Walk(v.mem, a) # None,
           NEW r, r = freeMapping(v, a)
    PROVE  /\ Resting(r) /\ r.stop = v.stop /\ r.mmu = v.mmu
           /\ r.mem.free = v.mem.free /\ r.mem.tables = v.mem.tables /\ r.mem.large = v.mem.large
           /\ \A b \in Page : Walk(r.mem, b) = IF b = a THEN None ELSE Walk(v.mem, b)
<1> DEFINE g == getPTphy(v, a)
           k == PTindex(a)
           pt == g.table
           on == act(g.st, tmpPT, pt)
           win == [Shut EXCEPT ![tmpPT] = pt]
           m == v.mem
<1>1. Tables(m) /\ m = Memory(m.free, m.tab, m.large, m.tables) /\ Quiet(v.mmu.tlb)
    BY DEF Resting, Tables
<1>2. HasTable(m, a) /\ Walk(m, a) = To(m, TableAt(m, a), k)
    BY <1>1, EntryOfPage
<1>3. g.st = v /\ pt = TableAt(m, a)
    BY <1>2, TableFound
<1>4. r = IF ~Present(on, tmpPT, k) THEN [on EXCEPT !.stop = "not mapped"]
          ELSE freeTmp(Erase(on, tmpPT, k), tmpPT)
    BY Zenon DEF freeMapping
<1> HIDE DEF g, k, pt
<1>5. on = act(v, tmpPT, pt)
    BY <1>3
<1> HIDE DEF on
<1>6. /\ on = State(v.mem, win, v.mmu.tlb, v.stop)
      /\ pt = IF tmpPT \in DOMAIN v.mmu.tlb THEN v.mmu.tlb[tmpPT] ELSE win[tmpPT]
      /\ [win EXCEPT ![tmpPT] = None] = Shut
      /\ Present(on, tmpPT, k) <=> To(v.mem, pt, k) # None
    <2>1. k = PTindex(a) /\ win = [Shut EXCEPT ![tmpPT] = pt]
        BY DEF k
    <2> HIDE DEF win
    <2>2. OpenOn(v, win, pt, k, on)
        BY <2>1, <1>2, <1>3, <1>5, TableSeen
    <2> QED
        BY <2>2 DEF OpenOn
<1> DEFINE tlb == v.mmu.tlb
           s == v.stop
           tab == Drop(m.tab, <<pt, k>>)
           n == Memory(m.free, tab, m.large, m.tables)
<1>7. Present(on, tmpPT, k)
    BY <1>2, <1>3, <1>6
<1>8. Minus(m.large, <<pt, k>>) = m.large
    BY <1>1, <1>2, <1>3, Leaf DEF Minus
<1> HIDE DEF win, m, tlb, s
<1>9. Erase(on, tmpPT, k) = State(n, win, With(tlb, tmpPT, pt), s)
    <2> DEFINE fr == m.free
               tb == m.tab
               lg == m.large
               ts == m.tables
    <2>1. on = State(Memory(fr, tb, lg, ts), win, tlb, s)
        BY <1>1, <1>6 DEF m, tlb, s
    <2>2. pt = IF tmpPT \in DOMAIN tlb THEN tlb[tmpPT] ELSE win[tmpPT]
        BY <1>6 DEF tlb
    <2> HIDE DEF fr, tb, lg, ts
    <2>3. Erase(State(Memory(fr, tb, lg, ts), win, tlb, s), tmpPT, k) =
              State(Memory(fr, Drop(tb, <<pt, k>>), Minus(lg, <<pt, k>>), ts), win, With(tlb, tmpPT, pt), s)
        BY ONLY <2>2, Erases
    <2> QED
        BY <2>1, <2>3, <1>8 DEF fr, tb, lg, ts
<1> HIDE DEF tab
<1>10. r = State(n, Shut, tlb, s)
    <2> HIDE DEF n
    <2>1. Drop(With(tlb, tmpPT, pt), tmpPT) = tlb
        BY <1>1, ClosedAgain DEF Windows, tlb
    <2>2. freeTmp(State(n, win, With(tlb, tmpPT, pt), s), tmpPT) =
              State(n, [win EXCEPT ![tmpPT] = None], Drop(With(tlb, tmpPT, pt), tmpPT), s)
        BY ONLY Closes
    <2> QED
        BY <2>1, <2>2, <1>4, <1>6, <1>7, <1>9
<1>11. /\ Tables(n)
       /\ \A b \in Page : Walk(n, b) = IF b = a THEN None ELSE Walk(m, b)
    <2>1. pt = To(m, To(m, KernelPDP, PDPindex(a)), PDindex(a)) /\ To(m, KernelPDP, PDPindex(a)) # None /\ pt # None
        BY <1>2, <1>3 DEF HasTable, TableAt
    <2> QED
        BY <2>1, <1>1, PageSet DEF tab, k
<1>12. n.free = m.free /\ n.large = m.large /\ n.tables = m.tables
    BY DEF Memory
<1> HIDE DEF n
<1>13. r.mem = n /\ r.stop = s /\ r.mmu = [win |-> Shut, tlb |-> tlb] /\ v.mmu = [win |-> Shut, tlb |-> tlb]
    <2>1. v = State(v.mem, Shut, tlb, v.stop)
        BY DEF Resting, tlb
    <2>2. v.mmu = [win |-> Shut, tlb |-> tlb]
        BY <2>1 DEF State
    <2> QED
        BY <1>10, <2>2 DEF State
<1>14. Resting(r)
    BY <1>1, <1>10, <1>11, <1>13 DEF Resting, tlb
<1> QED
    BY <1>11, <1>12, <1>13, <1>14 DEF m, tlb, s

\* createMapping2M of the screen's buffer, when nothing is mapped there: the pages of the large
\* page lead to its first frame.
LEMMA LargeCreated ==
    ASSUME FramesShape, NEW v, Resting(v), v.mem.large = {}, v.mem.free # {},
           To(v.mem, KernelPDP, 1) = None, NEW f \in Frame,
           NEW r, r = createMapping2M(v, f, BufferPage)
    PROVE  /\ Resting(r) /\ r.stop = v.stop /\ r.mmu.tlb = Drop(v.mmu.tlb, BufferPage)
           /\ r.mem.free \subseteq v.mem.free
           /\ r.mem.tables = v.mem.tables \cup (v.mem.free \ r.mem.free)
           /\ \E x : r.mem.large = {x} /\ r.mem.tab[x] = f
           /\ \A b \in Page : Walk(r.mem, b) = IF Small(b) THEN Walk(v.mem, b) ELSE f
<1> DEFINE a == BufferPage
           p == getPDphy(v, a)
           u == p.st
           pd == p.table
           on == act(u, tmpPD, pd)
           e == <<Seen(on, tmpPD), PDindex(a)>>
           W == Write(on, tmpPD, PDindex(a), f)
           win == [Shut EXCEPT ![tmpPD] = pd]
<1>1. PDPindex(a) = 1 /\ PDindex(a) = 0 /\ 0 \in Idx /\ 1 \in Idx /\ a \in Page
    BY Places DEF FramesShape, Idx
<1>2. tmpPDP \in Windows /\ tmpPD \in Windows /\ tmpPD # tmpPDP
    BY SizesAre DEF Windows
<1>3. r = IF Present(on, tmpPD, PDindex(a)) THEN [on EXCEPT !.stop = "already mapped"]
          ELSE invlpg(freeTmp([W EXCEPT !.mem.large = @ \cup {e}], tmpPD), a)
    BY Zenon DEF createMapping2M
<1> HIDE DEF a
<1>4. p = Descend(v, tmpPDP, KernelPDP, 1, tmpPD)
    BY <1>1 DEF getPDphy
<1> HIDE DEF p
<1>5. /\ Resting(u) /\ u.mmu = v.mmu /\ u.stop = v.stop
      /\ Took(v.mem, u.mem) /\ Extends(v.mem, u.mem)
      /\ pd = To(u.mem, KernelPDP, 1) /\ pd # None
      /\ \A j : To(u.mem, pd, j) = None
    <2>1. Inner(v.mem, KernelPDP, 1)
        BY DEF Inner
    <2> QED
        BY <2>1, <1>1, <1>2, <1>4, Descended
<1> HIDE DEF pd, u, on, W, e
<1> DEFINE m == u.mem
           tlb == u.mmu.tlb
           s == u.stop
           fr == m.free
           tb == m.tab
           ts == m.tables
<1>6. /\ Tables(m) /\ m = Memory(fr, tb, {}, ts) /\ m.large = {} /\ Quiet(tlb)
      /\ u = State(m, Shut, tlb, s)
    <2>1. Tables(m) /\ m = Memory(m.free, m.tab, m.large, m.tables) /\ Quiet(tlb) /\ u = State(m, Shut, tlb, s)
        BY <1>5 DEF Resting, Tables
    <2>2. m.large = {}
        BY <1>5 DEF Took
    <2> QED
        BY <2>1, <2>2
<1>7. Shut[tmpPD] = None /\ win[tmpPD] = pd /\ [win EXCEPT ![tmpPD] = None] = Shut
    BY <1>2 DEF Shut
<1>8. tmpPD \notin DOMAIN tlb
    BY <1>2, <1>6 DEF Quiet
<1>9. pd = IF tmpPD \in DOMAIN tlb THEN tlb[tmpPD] ELSE win[tmpPD]
    BY <1>7, <1>8
<1> HIDE DEF m, tlb, s
<1>10. on = State(m, win, tlb, s)
    <2>1. act(State(m, Shut, tlb, s), tmpPD, pd) = State(m, win, Drop(tlb, tmpPD), s)
        BY ONLY <1>7, Opens
    <2> QED
        BY <2>1, <1>2, <1>6, ClosedAgain DEF on
<1> HIDE DEF win
<1>11. ~Present(on, tmpPD, 0) /\ Seen(on, tmpPD) = pd
    <2>1. Present(State(m, win, tlb, s), tmpPD, 0) <=> <<pd, 0>> \in DOMAIN m.tab
        BY ONLY <1>9, Finds
    <2>2. Seen(State(m, win, tlb, s), tmpPD) = pd
        BY ONLY <1>9, Looks
    <2>3. <<pd, 0>> \notin DOMAIN m.tab
        <3>1. To(m, pd, 0) = None /\ \A x \in DOMAIN m.tab : m.tab[x] \in Frame
            BY <1>5, <1>6 DEF Tables, m
        <3> QED
            BY <3>1, SizesAre DEF To
    <2> QED
        BY <2>1, <2>2, <2>3, <1>10
<1> HIDE DEF fr, tb, ts
<1> DEFINE tab == With(tb, <<pd, 0>>, f)
           n == Memory(fr, tab, {<<pd, 0>>}, ts)
           c == With(tlb, tmpPD, pd)
<1>12. W = State(Memory(fr, tab, {}, ts), win, c, s)
    <2>1. on = State(Memory(fr, tb, {}, ts), win, tlb, s)
        BY <1>6, <1>10
    <2>2. Write(State(Memory(fr, tb, {}, ts), win, tlb, s), tmpPD, 0, f) = State(Memory(fr, tab, {}, ts), win, c, s)
        BY ONLY <1>9, Writes
    <2> QED
        BY <2>1, <2>2, <1>1 DEF W
<1>13. e = <<pd, 0>>
    BY <1>1, <1>11 DEF e
<1> HIDE DEF tab, c
<1>14. [W EXCEPT !.mem.large = @ \cup {e}] = State(n, win, c, s)
    <2> DEFINE y == State(Memory(fr, tab, {}, ts), win, c, s)
               B == {<<pd, 0>>}
    <2>1. y.mem.large = {}
        BY DEF State, Memory
    <2>2. [y EXCEPT !.mem.large = B] = State(Memory(fr, tab, B, ts), win, c, s)
        <3> HIDE DEF B
        <3> QED
            BY DEF State, Memory
    <2> HIDE DEF y
    <2>3. W = y /\ y.mem.large \cup {e} = B
        BY <2>1, <1>12, <1>13 DEF y
    <2> HIDE DEF B
    <2>4. [W EXCEPT !.mem.large = @ \cup {e}] = [y EXCEPT !.mem.large = B]
        BY <2>3, Zenon
    <2> QED
        BY <2>2, <2>4 DEF B
<1> DEFINE X == [W EXCEPT !.mem.large = @ \cup {e}]
<1>15. r = invlpg(freeTmp(X, tmpPD), a)
    BY <1>1, <1>3, <1>11
<1>16. X = State(n, win, c, s)
    BY <1>14
<1> HIDE DEF X, n
<1>17. freeTmp(X, tmpPD) = State(n, Shut, tlb, s)
    <2>1. Drop(c, tmpPD) = tlb
        BY <1>2, <1>6, ClosedAgain DEF c
    <2>2. freeTmp(State(n, win, c, s), tmpPD) = State(n, [win EXCEPT ![tmpPD] = None], Drop(c, tmpPD), s)
        BY ONLY Closes
    <2> QED
        BY <2>1, <2>2, <1>7, <1>16 DEF win
<1>18. r = State(n, Shut, Drop(tlb, a), s)
    BY <1>15, <1>17, Invlpg
<1>19. /\ Tables(n)
       /\ \A b \in Page : Walk(n, b) = IF Small(b) THEN Walk(m, b) ELSE f
    <2>1. n = Memory(m.free, With(m.tab, <<pd, 0>>, f), Single(<<pd, 0>>), m.tables)
        BY DEF n, tab, fr, tb, ts, Single
    <2>2. pd = To(m, KernelPDP, 1) /\ To(m, pd, 0) = None
        BY <1>5 DEF m
    <2>3. Tables(m) /\ m.large = {} /\ pd # None
        BY <1>5, <1>6
    <2> QED
        BY ONLY FramesShape, f \in Frame, <2>1, <2>2, <2>3, LargeSet
<1>20. n.free = m.free /\ n.large = {<<pd, 0>>} /\ n.tables = m.tables /\ n.tab[<<pd, 0>>] = f
    <2>1. n.free = fr /\ n.large = {<<pd, 0>>} /\ n.tables = ts /\ n.tab = With(tb, <<pd, 0>>, f)
        BY DEF Memory, n, tab
    <2>2. With(tb, <<pd, 0>>, f)[<<pd, 0>>] = f
        BY DEF With
    <2> QED
        BY <2>1, <2>2 DEF fr, ts
<1>21. r.mem = n /\ r.stop = s /\ r.mmu.tlb = Drop(tlb, a)
    BY <1>18 DEF State
<1>22. Resting(r)
    BY <1>6, <1>18, <1>19, <1>21, QuietDrop DEF Resting
<1>23. s = v.stop /\ tlb = v.mmu.tlb
    BY <1>5 DEF s, tlb
<1>24. n.free \subseteq v.mem.free /\ n.tables = v.mem.tables \cup (v.mem.free \ n.free)
    BY <1>5, <1>20 DEF Took, m
<1>25. \A b \in Page : Walk(n, b) = IF Small(b) THEN Walk(v.mem, b) ELSE f
    BY <1>5, <1>19 DEF Extends, m
<1> QED
    BY <1>20, <1>21, <1>22, <1>23, <1>24, <1>25 DEF a

-----------------------------------------------------------------------------
(* The inductive invariant *)

\* The pages: no window is open, the walk and the processor's cache agree with what was mapped,
\* and a slot that can be handed out leads nowhere.
PagesInv ==
    /\ Resting(St) /\ stop = "no"
    /\ flat \in [Page -> Frame \cup {None}]
    /\ \A a \in Page : Walk(mem, a) = flat[a]
    /\ \A a \in DOMAIN mmu.tlb : a \in Page /\ (flat[a] # None => mmu.tlb[a] = flat[a])
    /\ slots \subseteq 2..NbSlots - 1
    /\ \A s \in slots : flat[SlotPage(s)] = None

\* The stages of the boot.  The slots of the font are not those the bitset says.
BootInv ==
    /\ mem.large = {} => Init
    /\ mem.large # {} => flat[BufferPage] # None
    /\ ~Booted => slots = {} /\ \A a \in Page : Small(a) => flat[a] = None
    /\ flat[SlotPage(0)] \in BootFrames \cup {None}
    /\ flat[SlotPage(1)] \in BootFrames \cup {None}

\* Uses U of frames when those of F are free: the screen's apart, they exclude each other, and
\* those of the screen exclude the others outside of S.
Exclusive(U, F, S) ==
    /\ \A x \in U : x[1] # "screen" => x[2] \notin F
    /\ \A x, y \in U : x[1] # "screen" /\ y[1] # "screen" /\ x[2] = y[2] => x = y
    /\ \A x \in U : x[1] = "screen" =>
          x[2] \in S \/ (x[2] \notin F /\ \A y \in U : y[2] = x[2] => y = x)

\* The frames, and the kernel's pages, each of which has a frame of its own.
UsesInv ==
    /\ Exclusive(Uses, mem.free, Tail(flat[BufferPage]))
    /\ \A x \in use : x[2] \in Frame
    /\ \A x \in use : x[1] # "table"
    /\ \A a \in KernelPages : flat[a] # None => <<"kernel", flat[a]>> \in use
    /\ \A a, b \in KernelPages : flat[a] # None /\ flat[a] = flat[b] => a = b

KernelInv == PagesInv /\ BootInv /\ UsesInv

\* The state is that of a call.
LEMMA Becoming ==
    ASSUME NEW r, Resting(r), Becomes(r)
    PROVE  St' = r /\ Resting(St') /\ mem' = r.mem /\ mmu' = r.mmu /\ stop' = r.stop
<1>1. r = State(r.mem, Shut, r.mmu.tlb, r.stop)
    BY DEF Resting
<1>2. r.mmu = [win |-> Shut, tlb |-> r.mmu.tlb]
    BY <1>1 DEF State
<1>3. r = [mem |-> r.mem, mmu |-> r.mmu, stop |-> r.stop]
    BY <1>1, <1>2 DEF State
<1>4. mem' = r.mem /\ mmu' = r.mmu /\ stop' = r.stop
    BY DEF Becomes
<1>5. St' = r
    BY <1>3, <1>4 DEF St
<1> QED
    BY <1>4, <1>5

\* Free frames are put to use.
LEMMA Gained ==
    ASSUME NEW U, NEW F, NEW S, Exclusive(U, F, S), NEW V, NEW G, G \subseteq F,
           \A x \in V : x \in U \/ (x[1] # "screen" /\ x[2] \in F /\ x[2] \notin G),
           \A x, y \in V : x \notin U /\ y \notin U /\ x[2] = y[2] => x = y
    PROVE  Exclusive(V, G, S)
<1>1. \A x \in U : x[1] # "screen" => x[2] \notin F
    BY DEF Exclusive
<1>2. \A x, y \in U : x[1] # "screen" /\ y[1] # "screen" /\ x[2] = y[2] => x = y
    BY DEF Exclusive
<1>3. \A x \in U : x[1] = "screen" => x[2] \in S \/ (x[2] \notin F /\ \A y \in U : y[2] = x[2] => y = x)
    BY DEF Exclusive
<1>4. \A x \in V : x[1] # "screen" => x[2] \notin G
    BY <1>1
<1>5. \A x, y \in V : x[1] # "screen" /\ y[1] # "screen" /\ x[2] = y[2] => x = y
    BY <1>1, <1>2
<1>6. \A x \in V : x[1] = "screen" => x[2] \in S \/ (x[2] \notin G /\ \A y \in V : y[2] = x[2] => y = x)
    BY <1>3
<1> QED
    BY <1>4, <1>5, <1>6 DEF Exclusive

\* A use ends, and its frame may be free.
LEMMA Lost ==
    ASSUME NEW U, NEW F, NEW S, Exclusive(U, F, S), NEW u \in U, u[1] # "screen",
           NEW V, \A x \in V : x \in U /\ x # u, NEW G, \A f \in G : f \in F \/ f = u[2]
    PROVE  Exclusive(V, G, S)
<1>1. \A x \in U : x[1] # "screen" => x[2] \notin F
    BY DEF Exclusive
<1>2. \A x, y \in U : x[1] # "screen" /\ y[1] # "screen" /\ x[2] = y[2] => x = y
    BY DEF Exclusive
<1>3. \A x \in U : x[1] = "screen" => x[2] \in S \/ (x[2] \notin F /\ \A y \in U : y[2] = x[2] => y = x)
    BY DEF Exclusive
<1>4. \A x \in V : x[1] # "screen" => x[2] \notin G
    BY <1>1, <1>2
<1>5. \A x, y \in V : x[1] # "screen" /\ y[1] # "screen" /\ x[2] = y[2] => x = y
    BY <1>2
<1>6. \A x \in V : x[1] = "screen" => x[2] \in S \/ (x[2] \notin G /\ \A y \in V : y[2] = x[2] => y = x)
    BY <1>3
<1> QED
    BY <1>4, <1>5, <1>6 DEF Exclusive

\* What the invariant says of the state as a whole.
LEMMA Now ==
    ASSUME FramesShape, PagesInv
    PROVE  /\ St.mem = mem /\ St.mmu = mmu /\ St.stop = "no" /\ Resting(St)
           /\ St = State(mem, Shut, mmu.tlb, "no")
           /\ mmu = [win |-> Shut, tlb |-> mmu.tlb] /\ Quiet(mmu.tlb)
           /\ Tables(mem) /\ mem.free \subseteq Frame /\ mem.tables \subseteq Frame
           /\ mem = Memory(mem.free, mem.tab, mem.large, mem.tables)
<1>1. St.mem = mem /\ St.mmu = mmu /\ St.stop = stop /\ stop = "no" /\ Resting(St)
    BY DEF PagesInv, St
<1>2. St = State(mem, Shut, mmu.tlb, "no") /\ Quiet(mmu.tlb) /\ Tables(mem)
    BY <1>1 DEF Resting
<1>3. mmu = [win |-> Shut, tlb |-> mmu.tlb]
    BY <1>1, <1>2 DEF State
<1>4. mem.free \subseteq Frame /\ mem.tables \subseteq Frame /\ mem = Memory(mem.free, mem.tab, mem.large, mem.tables)
    BY <1>2 DEF Tables
<1> QED
    BY <1>1, <1>2, <1>3, <1>4

\* What alloc2M left free is the end of the screen's large page.
LEMMA ScreenTail ==
    ASSUME FramesShape, PagesInv, mem.large # {}
    PROVE  LeftByAlloc2M = Tail(flat[BufferPage])
<1> DEFINE pd == To(mem, KernelPDP, 1)
           e == <<pd, 0>>
<1>1. Tables(mem)
    BY Now
<1>2. mem.large = {e} /\ e \in DOMAIN mem.tab /\ pd # None /\ To(mem, pd, 0) # None
    <2>1. PICK x \in mem.large : TRUE
        OBVIOUS
    <2>2. \A y \in mem.large : y = e /\ y \in DOMAIN mem.tab
        BY <1>1 DEF Tables
    <2> QED
        BY <1>1, <2>1, <2>2, LargeHangs
<1>3. Walk(mem, BufferPage) = Through(mem, pd, To(mem, pd, 0), 0, PTindex(BufferPage))
    BY <1>1, WalkIs, Places
<1>4. Walk(mem, BufferPage) = mem.tab[e]
    BY <1>2, <1>3 DEF Through, To
<1>5. mem.tab[e] = flat[BufferPage]
    BY <1>4, Places DEF PagesInv
<1> HIDE DEF e
<1>6. LeftByAlloc2M = UNION {Tail(mem.tab[x]) : x \in {e}}
    BY <1>2 DEF LeftByAlloc2M
<1> QED
    BY <1>5, <1>6

\* The invariant has what the properties say.
LEMMA KernelInvImplies ==
    ASSUME FramesShape, KernelInv
    PROVE  MapExact /\ FramesExclusive
<1>1. MapExact
    <2>1. TypeOK
        <3>1. \A x \in DOMAIN mem.tab : mem.tab[x] \in Frame
            BY Now DEF KernelInv, Tables
        <3>2. slots \subseteq 0..NbSlots - 1
            BY DEF KernelInv, PagesInv, FramesShape
        <3> QED
            BY <3>1, <3>2, Now DEF TypeOK, KernelInv, PagesInv
    <2>2. \A w \in Windows : mmu.win[w] = None /\ w \notin DOMAIN mmu.tlb
        <3>1. mmu = [win |-> Shut, tlb |-> mmu.tlb] /\ Quiet(mmu.tlb)
            BY Now DEF KernelInv
        <3>2. mmu.win = Shut
            BY <3>1
        <3> QED
            BY <3>1, <3>2 DEF Shut, Quiet
    <2> QED
        BY <2>1, <2>2 DEF MapExact, KernelInv, PagesInv
<1>2. FramesExclusive
    <2> DEFINE S == Tail(flat[BufferPage])
               E == Frame \ LeftByAlloc2M
    <2>1. Exclusive(Uses, mem.free, S)
        BY DEF KernelInv, UsesInv
    <2>2. \A x \in Uses : x[1] = "screen" => mem.large # {}
        <3>1. ASSUME mem.large = {} PROVE \A x \in Uses : x[1] # "screen"
            <4>1. use = {<<"boot", f>> : f \in BootFrames} /\ mem.tables = {}
                BY <3>1 DEF KernelInv, BootInv, Init
            <4> QED
                BY <4>1 DEF Uses
        <3> QED
            BY <3>1
    <2>3. \A x \in Uses : x[1] = "screen" /\ x[2] \in E => x[2] \notin S
        <3>1. mem.large # {} => LeftByAlloc2M = S
            BY ScreenTail DEF KernelInv
        <3> QED
            BY <2>2, <3>1
    <2> HIDE DEF S, E
    <2>4. UsedOnce(E)
        BY <2>1, <2>3 DEF Exclusive, UsedOnce
    <2> QED
        BY <2>4 DEF FramesExclusive, E
<1> QED
    BY <1>1, <1>2

\* The invariant holds when the kernel starts.
LEMMA InitKernel ==
    ASSUME FramesShape, Init
    PROVE  KernelInv
<1>1. /\ mem = [free |-> Frame \ BootFrames, tab |-> <<>>, large |-> {}, tables |-> {}]
      /\ mmu = [win |-> [w \in Windows |-> None], tlb |-> <<>>] /\ slots = {}
      /\ use = {<<"boot", f>> : f \in BootFrames} /\ flat = [a \in Page |-> None] /\ stop = "no"
    BY DEF Init
<1>2. DOMAIN mem.tab = {} /\ mem.large = {} /\ mem.tables = {} /\ DOMAIN mmu.tlb = {}
      /\ mem.free = Frame \ BootFrames /\ mmu.tlb = <<>>
    BY <1>1
<1>3. \A t, i : To(mem, t, i) = None /\ ~Link(mem, t, i)
    BY <1>2 DEF To, Link
<1>4. mem = Memory(mem.free, mem.tab, mem.large, mem.tables)
    BY <1>1 DEF Memory
<1>5. Tables(mem)
    BY <1>2, <1>3, <1>4 DEF Tables
<1>6. Quiet(mmu.tlb)
    <2>1. <<>> = [x \in DOMAIN <<>> |-> <<>>[x]]
        OBVIOUS
    <2> QED
        BY <2>1, <1>2, Zenon DEF Quiet
<1>7. Resting(St)
    <2>1. St.mem = mem /\ St.mmu = mmu /\ St.stop = "no"
        BY <1>1 DEF St
    <2>2. St = State(mem, Shut, mmu.tlb, "no")
        BY <1>1 DEF St, State, Shut
    <2> QED
        BY <2>1, <2>2, <1>5, <1>6 DEF Resting
<1>8. \A a \in Page : Walk(mem, a) = None
    BY <1>2 DEF Walk
<1>9. SlotPage(0) \in Page /\ SlotPage(1) \in Page
    BY Places DEF FramesShape
<1>10. PagesInv
    <2>1. slots = {} /\ stop = "no" /\ flat \in [Page -> Frame \cup {None}] /\ \A a \in Page : flat[a] = None
        BY <1>1
    <2> QED
        BY <1>2, <1>7, <1>8, <2>1 DEF PagesInv
<1>11. BootInv
    BY <1>1, <1>2, <1>9 DEF BootInv
<1>12. UsesInv
    <2>1. \A x \in Uses : x[1] = "boot" /\ x = <<"boot", x[2]>> /\ x[2] \in BootFrames
        BY <1>1, <1>2 DEF Uses
    <2>2. Exclusive(Uses, mem.free, Tail(flat[BufferPage]))
        BY <2>1, <1>2 DEF Exclusive
    <2>3. \A x \in use : x \in Uses
        BY DEF Uses
    <2>4. \A a \in KernelPages : flat[a] = None
        BY <1>1, Places
    <2> QED
        BY <2>1, <2>2, <2>3, <2>4 DEF UsesInv, FramesShape
<1> QED
    BY <1>10, <1>11, <1>12 DEF KernelInv

-----------------------------------------------------------------------------
(* The steps *)

\* Frames are taken or given back between two calls: the pages lead where they did.
LEMMA FreeChanged ==
    ASSUME FramesShape, NEW m, Tables(m), NEW F, F \subseteq Frame, \A t \in m.tables : t \notin F,
           NEW n, n = [m EXCEPT !.free = F]
    PROVE  /\ Tables(n) /\ n.free = F /\ n.tab = m.tab /\ n.large = m.large /\ n.tables = m.tables
           /\ \A a : Walk(n, a) = Walk(m, a)
           /\ \A a : HasTable(m, a) => HasTable(n, a)
<1>1. m = Memory(m.free, m.tab, m.large, m.tables)
    BY DEF Tables
<1>2. n = Memory(F, m.tab, m.large, m.tables)
    BY <1>1 DEF Memory
<1>3. n.free = F /\ n.tab = m.tab /\ n.large = m.large /\ n.tables = m.tables
    BY <1>2 DEF Memory
<1>4. n = Memory(n.free, n.tab, n.large, n.tables)
    BY <1>2, <1>3
<1>5. \A t, i : To(n, t, i) = To(m, t, i)
    BY <1>3 DEF To
<1>6. \A t, i : Link(n, t, i) <=> Link(m, t, i)
    BY <1>3, <1>5 DEF Link, PD
<1>7. Tables(n)
    BY <1>3, <1>4, <1>5, <1>6 DEF Tables
<1>8. \A a : Walk(n, a) = Walk(m, a)
    BY <1>3 DEF Walk
<1>9. \A a : HasTable(m, a) => HasTable(n, a)
    BY <1>5 DEF HasTable, TableAt
<1> QED
    BY <1>3, <1>7, <1>8, <1>9

\* The memory changes, the processor does not.
LEMMA StillResting ==
    ASSUME FramesShape, PagesInv, Tables(mem'), mmu' = mmu, stop' = stop
    PROVE  Resting(St')
<1>1. mmu = [win |-> Shut, tlb |-> mmu.tlb] /\ Quiet(mmu.tlb) /\ stop = "no"
    BY Now DEF PagesInv
<1> DEFINE s == St'
           tlb == mmu.tlb
<1>2. s = [mem |-> mem', mmu |-> mmu, stop |-> "no"]
    BY <1>1 DEF St
<1>3. s.mem = mem' /\ s.mmu = mmu /\ s.stop = "no"
    BY <1>2
<1>4. s = State(mem', Shut, tlb, "no")
    BY <1>1, <1>2 DEF State
<1> HIDE DEF s
<1>5. Resting(s)
    BY <1>1, <1>3, <1>4 DEF Resting
<1> QED
    BY <1>5 DEF s

\* The processor caches a page.
LEMMA TranslateStep ==
    ASSUME FramesShape, KernelInv, NEW a \in Touched, Translate(a)
    PROVE  KernelInv'
<1> DEFINE tlb == mmu.tlb
           f == Walk(mem, a)
<1>1. /\ f # None /\ mmu' = [mmu EXCEPT !.tlb = With(tlb, a, f)]
      /\ mem' = mem /\ slots' = slots /\ use' = use /\ flat' = flat /\ stop' = stop
    BY DEF Translate, With
<1>2. /\ mmu = [win |-> Shut, tlb |-> tlb] /\ Quiet(tlb) /\ Tables(mem) /\ stop = "no"
      /\ a \in Page /\ a \notin Windows /\ flat[a] = f /\ flat[a] # None
    <2>1. a \in Page
        BY DEF FramesShape
    <2> QED
        BY <2>1, <1>1, Now, SizesAre DEF KernelInv, PagesInv
<1> HIDE DEF tlb, f
<1>3. DOMAIN With(tlb, a, f) = DOMAIN tlb \cup {a}
      /\ \A x \in DOMAIN tlb \cup {a} : With(tlb, a, f)[x] = IF x = a THEN f ELSE tlb[x]
    BY DEF With
<1>4. Quiet(With(tlb, a, f))
    <2>1. With(tlb, a, f) = [x \in DOMAIN With(tlb, a, f) |-> With(tlb, a, f)[x]]
        BY DEF With
    <2> QED
        BY <2>1, <1>2, <1>3 DEF Quiet
<1>5. mmu' = [win |-> Shut, tlb |-> With(tlb, a, f)]
    BY <1>1, <1>2
<1>6. Resting(St')
    <2> DEFINE s == St'
    <2>1. s = [mem |-> mem, mmu |-> mmu', stop |-> "no"]
        BY <1>1, <1>2 DEF St
    <2>2. s.mem = mem /\ s.mmu.tlb = With(tlb, a, f) /\ s.stop = "no"
        BY <2>1, <1>5
    <2>3. s = State(mem, Shut, With(tlb, a, f), "no")
        BY <2>1, <1>5 DEF State
    <2> HIDE DEF s
    <2>4. Resting(s)
        BY <2>2, <2>3, <1>2, <1>4 DEF Resting
    <2> QED
        BY <2>4 DEF s
<1>7. mmu'.tlb = With(tlb, a, f)
    BY <1>5
<1>8. PagesInv'
    <2>1. \A b \in DOMAIN tlb : b \in Page /\ (flat[b] # None => tlb[b] = flat[b])
        BY DEF KernelInv, PagesInv, tlb
    <2>2. \A b \in DOMAIN mmu'.tlb : b \in Page /\ (flat'[b] # None => mmu'.tlb[b] = flat'[b])
        BY <2>1, <1>1, <1>2, <1>3, <1>7
    <2> QED
        BY <2>2, <1>1, <1>2, <1>6 DEF KernelInv, PagesInv
<1>9. mem.large # {}
    <2>1. ASSUME mem.large = {} PROVE flat[a] = None
        BY <2>1, <1>2 DEF KernelInv, BootInv, Init
    <2> QED
        BY <2>1, <1>2
<1>10. BootInv'
    BY <1>1, <1>9 DEF KernelInv, BootInv, Booted
<1>11. UsesInv'
    BY <1>1 DEF KernelInv, UsesInv, Uses
<1> QED
    BY <1>8, <1>10, <1>11 DEF KernelInv

\* A frame for a user memory.
LEMMA UserAllocStep ==
    ASSUME FramesShape, KernelInv, UserAlloc
    PROVE  KernelInv'
<1> DEFINE f == bsf(mem.free)
           F == mem.free \ {f}
<1>1. /\ Booted /\ mem.free # {} /\ mem' = [mem EXCEPT !.free = F]
      /\ use' = use \cup {<<"user", f>>}
      /\ mmu' = mmu /\ slots' = slots /\ flat' = flat /\ stop' = stop
    <2>1. Cardinality(mem.free) >= 1
        BY DEF UserAlloc, Left
    <2> QED
        BY <2>1, FS_EmptySet DEF UserAlloc, alloc
<1>2. Tables(mem) /\ mem.free \subseteq Frame /\ mem.tables \subseteq Frame /\ \A t \in mem.tables : t \notin mem.free
    BY Now DEF KernelInv, Tables
<1>3. f \in mem.free
    BY <1>1, <1>2, Lowest
<1> HIDE DEF f
<1>4. /\ Tables(mem') /\ mem'.free = F /\ mem'.large = mem.large /\ mem'.tables = mem.tables
      /\ \A a : Walk(mem', a) = Walk(mem, a)
    <2>1. mem' = [mem EXCEPT !.free = F] /\ Tables(mem) /\ F \subseteq Frame /\ \A t \in mem.tables : t \notin F
        BY <1>1, <1>2
    <2> HIDE DEF F
    <2> QED
        BY ONLY FramesShape, <2>1, FreeChanged
<1>5. PagesInv'
    <2>1. Resting(St')
        BY <1>1, <1>4, StillResting DEF KernelInv
    <2> QED
        BY <2>1, <1>1, <1>4 DEF KernelInv, PagesInv
<1>6. BootInv'
    <2>1. mem.large # {}
        <3>1. SlotPage(0) \in Page
            BY FontSlots
        <3>2. mem.large = {} => flat = [b \in Page |-> None]
            BY DEF KernelInv, BootInv, Init
        <3> QED
            BY <3>1, <3>2, <1>1 DEF Booted
    <2> QED
        BY <2>1, <1>1, <1>4 DEF KernelInv, BootInv, Booted
<1>7. UsesInv'
    <2> DEFINE S == Tail(flat[BufferPage])
    <2>1. Exclusive(Uses, mem.free, S)
        BY DEF KernelInv, UsesInv
    <2>2. \A x \in Uses' : x \in Uses \/ x = <<"user", f>>
        BY <1>1, <1>4 DEF Uses
    <2> HIDE DEF S
    <2>3. Exclusive(Uses', F, S)
        <3>1. F \subseteq mem.free /\ f \notin F
            OBVIOUS
        <3>2. \A x \in Uses' : x \in Uses \/ (x[1] # "screen" /\ x[2] \in mem.free /\ x[2] \notin F)
            BY <2>2, <3>1, <1>3
        <3>3. \A x, y \in Uses' : x \notin Uses /\ y \notin Uses /\ x[2] = y[2] => x = y
            BY <2>2
        <3> HIDE DEF F
        <3> QED
            BY ONLY <2>1, <3>1, <3>2, <3>3, Gained
    <2>4. \A x \in use' : x \in use \/ x = <<"user", f>>
        BY <1>1
    <2> QED
        BY <2>3, <2>4, <1>1, <1>2, <1>3, <1>4 DEF KernelInv, UsesInv, S
<1> QED
    BY <1>5, <1>6, <1>7 DEF KernelInv

\* The frame of a user memory is free again.
LEMMA UserFreeStep ==
    ASSUME FramesShape, KernelInv, NEW f \in Frame, UserFree(f)
    PROVE  KernelInv'
<1> DEFINE F == mem.free \cup {f}
           u == <<"user", f>>
<1>1. /\ u \in use /\ mem' = [mem EXCEPT !.free = F]
      /\ use' = use \ {u}
      /\ mmu' = mmu /\ slots' = slots /\ flat' = flat /\ stop' = stop
    BY DEF UserFree, free
<1>2. Tables(mem) /\ mem.free \subseteq Frame /\ \A t \in mem.tables : t \notin mem.free
    BY Now DEF KernelInv, Tables
<1>3. /\ Exclusive(Uses, mem.free, Tail(flat[BufferPage]))
      /\ u \in Uses /\ u[1] # "screen" /\ u[2] = f
      /\ \A t \in mem.tables : <<"table", t>> \in Uses
    BY <1>1 DEF KernelInv, UsesInv, Uses
<1>4. \A t \in mem.tables : t # f
    <2>1. \A t \in mem.tables : <<"table", t>> # u /\ <<"table", t>>[1] # "screen" /\ <<"table", t>>[2] = t
        OBVIOUS
    <2> HIDE DEF u
    <2> QED
        BY <2>1, <1>3 DEF Exclusive
<1>5. /\ Tables(mem') /\ mem'.free = F /\ mem'.large = mem.large /\ mem'.tables = mem.tables
      /\ \A a : Walk(mem', a) = Walk(mem, a)
    <2>1. F \subseteq Frame /\ \A t \in mem.tables : t \notin F
        BY <1>2, <1>4
    <2>2. mem' = [mem EXCEPT !.free = F] /\ Tables(mem)
        BY <1>1, <1>2
    <2> HIDE DEF F
    <2> QED
        BY ONLY FramesShape, <2>1, <2>2, FreeChanged
<1>6. PagesInv'
    <2>1. Resting(St')
        BY <1>1, <1>5, StillResting DEF KernelInv
    <2> QED
        BY <2>1, <1>1, <1>5 DEF KernelInv, PagesInv
<1>7. BootInv'
    <2>1. mem.large # {}
        <3>1. ASSUME mem.large = {} PROVE u \notin use
            BY <3>1 DEF KernelInv, BootInv, Init
        <3> QED
            BY <3>1, <1>1
    <2> QED
        BY <2>1, <1>1, <1>5 DEF KernelInv, BootInv, Booted
<1>8. UsesInv'
    <2> DEFINE S == Tail(flat[BufferPage])
    <2>1. \A x \in Uses' : x \in Uses /\ x # u
        BY <1>1, <1>5 DEF Uses
    <2> HIDE DEF S
    <2>2. \A g \in F : g \in mem.free \/ g = u[2]
        OBVIOUS
    <2>3. Exclusive(Uses', F, S)
        <3> HIDE DEF F, u
        <3> QED
            BY <1>3, <2>1, <2>2, Lost DEF S
    <2>4. \A x \in use : x # u => x \in use'
        BY <1>1
    <2>5. \A x \in use' : x \in use
        BY <1>1
    <2>6. \A a \in KernelPages : <<"kernel", flat[a]>> # u
        OBVIOUS
    <2> HIDE DEF u
    <2> QED
        BY <2>3, <2>4, <2>5, <2>6, <1>1, <1>5 DEF KernelInv, UsesInv, S
<1> QED
    BY <1>6, <1>7, <1>8 DEF KernelInv

\* A page that leads nowhere is mapped.
LEMMA MapStep ==
    ASSUME FramesShape, PagesInv, NEW a \in Page, Small(a), flat[a] = None, NEW f \in Frame,
           NEW v, Resting(v), v.mmu = mmu, v.stop = "no", \A b \in Page : Walk(v.mem, b) = Walk(mem, b),
           HasTable(v.mem, a) \/ Cardinality(v.mem.free) >= 2, Becomes(createMapping(v, f, a)),
           flat' = [flat EXCEPT ![a] = f], slots' \subseteq slots, \A s \in slots' : SlotPage(s) # a
    PROVE  PagesInv' /\ Took(v.mem, mem')
<1> DEFINE r == createMapping(v, f, a)
<1>1. flat \in [Page -> Frame \cup {None}] /\ \A b \in Page : Walk(mem, b) = flat[b]
    BY DEF PagesInv
<1>2. Walk(v.mem, a) = None
    BY <1>1
<1>3. /\ Resting(r) /\ r.stop = "no" /\ r.mmu.tlb = Drop(mmu.tlb, a) /\ Took(v.mem, r.mem)
      /\ \A b \in Page : Walk(r.mem, b) = IF b = a THEN f ELSE Walk(v.mem, b)
    BY <1>2, MappingCreated
<1> HIDE DEF r
<1>4. Becomes(r)
    BY DEF r
<1>5. Resting(St') /\ mem' = r.mem /\ mmu' = r.mmu /\ stop' = "no"
    BY <1>3, <1>4, Becoming
<1>6. flat' \in [Page -> Frame \cup {None}] /\ \A b \in Page : flat'[b] = IF b = a THEN f ELSE flat[b]
    BY <1>1
<1>7. \A b \in Page : Walk(mem', b) = flat'[b]
    BY <1>1, <1>3, <1>5, <1>6
<1>8. DOMAIN mmu'.tlb = DOMAIN mmu.tlb \ {a} /\ \A b \in DOMAIN mmu'.tlb : mmu'.tlb[b] = mmu.tlb[b]
    <2>1. mmu'.tlb = Drop(mmu.tlb, a)
        BY <1>3, <1>5
    <2> QED
        BY <2>1 DEF Drop
<1>9. \A b \in DOMAIN mmu'.tlb : b \in Page /\ (flat'[b] # None => mmu'.tlb[b] = flat'[b])
    BY <1>6, <1>8 DEF PagesInv
<1>10. slots' \subseteq 2..NbSlots - 1
    BY DEF PagesInv
<1>11. \A s \in slots' : flat'[SlotPage(s)] = None
    <2>1. \A s \in slots' : SlotPage(s) \in Page
        BY <1>10, Places
    <2> QED
        BY <2>1, <1>6 DEF PagesInv
<1> QED
    BY <1>3, <1>5, <1>6, <1>7, <1>9, <1>10, <1>11 DEF PagesInv

\* A page is unmapped, and its slot may be handed out.
LEMMA UnmapStep ==
    ASSUME FramesShape, PagesInv, NEW a \in Page, Small(a), flat[a] # None,
           NEW v, Resting(v), v.mmu = mmu, v.stop = "no", \A b \in Page : Walk(v.mem, b) = Walk(mem, b),
           Becomes(freeMapping(v, a)),
           flat' = [flat EXCEPT ![a] = None],
           \A s \in slots' : s \in slots \/ (s \in 2..NbSlots - 1 /\ SlotPage(s) = a)
    PROVE  /\ PagesInv'
           /\ mem'.free = v.mem.free /\ mem'.tables = v.mem.tables /\ mem'.large = v.mem.large
<1> DEFINE r == freeMapping(v, a)
<1>1. flat \in [Page -> Frame \cup {None}] /\ \A b \in Page : Walk(mem, b) = flat[b]
    BY DEF PagesInv
<1>2. Walk(v.mem, a) # None
    BY <1>1
<1>3. /\ Resting(r) /\ r.stop = "no" /\ r.mmu = mmu
      /\ r.mem.free = v.mem.free /\ r.mem.tables = v.mem.tables /\ r.mem.large = v.mem.large
      /\ \A b \in Page : Walk(r.mem, b) = IF b = a THEN None ELSE Walk(v.mem, b)
    BY <1>2, MappingFreed
<1> HIDE DEF r
<1>4. Becomes(r)
    BY DEF r
<1>5. Resting(St') /\ mem' = r.mem /\ mmu' = mmu /\ stop' = "no"
    BY <1>3, <1>4, Becoming
<1>6. flat' \in [Page -> Frame \cup {None}] /\ \A b \in Page : flat'[b] = IF b = a THEN None ELSE flat[b]
    BY <1>1
<1>7. \A b \in Page : Walk(mem', b) = flat'[b]
    BY <1>1, <1>3, <1>5, <1>6
<1>8. \A b \in DOMAIN mmu'.tlb : b \in Page /\ (flat'[b] # None => mmu'.tlb[b] = flat'[b])
    BY <1>5, <1>6 DEF PagesInv
<1>9. slots' \subseteq 2..NbSlots - 1
    BY DEF PagesInv
<1>10. \A s \in slots' : flat'[SlotPage(s)] = None
    <2>1. \A s \in slots' : SlotPage(s) \in Page
        BY <1>9, Places
    <2> QED
        BY <2>1, <1>6 DEF PagesInv
<1> QED
    BY <1>3, <1>5, <1>6, <1>7, <1>8, <1>9, <1>10 DEF PagesInv

\* The least of a set of numbers.
LEMMA LeastOf ==
    ASSUME NEW T \in SUBSET Nat, T # {}
    PROVE  Min(T) \in T
BY Least DEF Min

\* The tables that were made are used, and the rest of the memory has its uses.
LEMMA UsesOfTables ==
    ASSUME FramesShape, NEW S, NEW m, NEW n, Took(m, n), NEW U, Exclusive(U, m.free, S),
           NEW V, \A x \in V : x \in U \/ \E t \in n.tables : x = <<"table", t>>,
           \A t \in m.tables : <<"table", t>> \in U
    PROVE  Exclusive(V, n.free, S)
<1>1. n.free \subseteq m.free /\ n.tables = m.tables \cup (m.free \ n.free)
    BY DEF Took
<1>2. \A x \in V : x \in U \/ \E t \in m.free \ n.free : x = <<"table", t>>
    BY <1>1
<1>3. \A x \in V : x \in U \/ (x[1] # "screen" /\ x[2] \in m.free /\ x[2] \notin n.free)
    BY <1>2
<1>4. \A x, y \in V : x \notin U /\ y \notin U /\ x[2] = y[2] => x = y
    BY <1>2
<1> DEFINE F == m.free
           G == n.free
<1> HIDE DEF F, G
<1>5. Exclusive(V, G, S)
    BY <1>1, <1>3, <1>4, Gained DEF F, G
<1> QED
    BY <1>5 DEF G

\* A slot leads to a frame.
LEMMA PageHeapAllocStep ==
    ASSUME FramesShape, KernelInv, NEW f \in Frame, PageHeapAlloc(f)
    PROVE  KernelInv'
<1> DEFINE s == bsf(slots)
           a == SlotPage(s)
<1>1. /\ slots # {} /\ Cardinality(mem.free) >= 2 /\ slots' = slots \ {s}
      /\ Becomes(createMapping(St, f, a)) /\ flat' = [flat EXCEPT ![a] = f] /\ use' = use
    BY DEF PageHeapAlloc, Left
<1>2. s \in slots /\ s \in 2..NbSlots - 1 /\ s \in 0..NbSlots - 1 /\ 0 \in 0..NbSlots - 1 /\ 1 \in 0..NbSlots - 1
    <2>1. slots \subseteq 2..NbSlots - 1 /\ NbSlots \in Nat /\ NbSlots >= 3
        BY DEF KernelInv, PagesInv, FramesShape
    <2>2. slots \subseteq Nat
        BY <2>1
    <2>3. s \in slots
        BY <2>2, <1>1, LeastOf DEF bsf
    <2> HIDE DEF s
    <2>4. s \in 2..NbSlots - 1
        BY <2>1, <2>3
    <2>5. s \in 0..NbSlots - 1 /\ 0 \in 0..NbSlots - 1 /\ 1 \in 0..NbSlots - 1
        BY <2>1, <2>4
    <2> QED
        BY <2>3, <2>4, <2>5
<1> HIDE DEF s
<1>3. /\ a \in Page /\ Small(a) /\ flat[a] = None /\ a # BufferPage
      /\ SlotPage(0) \in Page /\ SlotPage(1) \in Page /\ SlotPage(0) # a /\ SlotPage(1) # a
    BY <1>2, Places, SizesAre DEF KernelInv, PagesInv
<1>4. \A t \in slots' : SlotPage(t) # a
    <2>1. \A t \in slots' : t \in 0..NbSlots - 1 /\ t # s
        BY <1>1 DEF KernelInv, PagesInv
    <2> QED
        BY <2>1, <1>2, Places
<1>5. \A b \in KernelPages : b \in Page /\ b # a
    BY <1>2, Places, SizesAre DEF BufferPage, FramesShape
<1> HIDE DEF a
<1>6. PagesInv' /\ Took(mem, mem')
    <2>1. St.mem = mem /\ St.mmu = mmu /\ St.stop = "no" /\ Resting(St)
        BY Now DEF KernelInv
    <2>2. slots' \subseteq slots
        BY <1>1
    <2> QED
        BY <2>1, <2>2, <1>1, <1>3, <1>4, MapStep DEF KernelInv
<1>7. BufferPage \in Page /\ \A b \in Page : b # a => flat'[b] = flat[b]
    BY <1>1, Places DEF KernelInv, PagesInv
<1>8. Booted /\ mem.large # {}
    BY <1>1 DEF KernelInv, BootInv, Init
<1>9. BootInv'
    <2>1. mem'.large = mem.large
        BY <1>6 DEF Took
    <2> QED
        BY <2>1, <1>3, <1>7, <1>8 DEF KernelInv, BootInv, Booted
<1>10. UsesInv'
    <2> DEFINE S == Tail(flat[BufferPage])
    <2>1. Exclusive(Uses, mem.free, S) /\ \A t \in mem.tables : <<"table", t>> \in Uses
        BY DEF KernelInv, UsesInv, Uses
    <2>2. \A x \in Uses' : x \in Uses \/ \E t \in mem'.tables : x = <<"table", t>>
        BY <1>1 DEF Uses
    <2> HIDE DEF S
    <2>3. Exclusive(Uses', mem'.free, S)
        BY <2>1, <2>2, <1>6, UsesOfTables
    <2>4. flat'[BufferPage] = flat[BufferPage] /\ \A b \in KernelPages : flat'[b] = flat[b]
        BY <1>3, <1>5, <1>7
    <2> QED
        BY <2>3, <2>4, <1>1 DEF KernelInv, UsesInv, S
<1> QED
    BY <1>6, <1>9, <1>10 DEF KernelInv

\* A slot leads nowhere again.
LEMMA PageHeapFreeStep ==
    ASSUME FramesShape, KernelInv, NEW s \in 0..NbSlots - 1, PageHeapFree(s)
    PROVE  KernelInv'
<1> DEFINE a == SlotPage(s)
<1>1. /\ flat[a] # None /\ flat[a] \notin BootFrames /\ Becomes(freeMapping(St, a))
      /\ slots' = slots \cup {s} /\ flat' = [flat EXCEPT ![a] = None] /\ use' = use
    BY DEF PageHeapFree
<1>2. s # 0 /\ s # 1 /\ s \in 2..NbSlots - 1 /\ 0 \in 0..NbSlots - 1 /\ 1 \in 0..NbSlots - 1
    <2>1. s # 0 /\ s # 1
        BY <1>1 DEF KernelInv, BootInv
    <2> QED
        BY <2>1 DEF FramesShape
<1>3. /\ a \in Page /\ Small(a) /\ a # BufferPage
      /\ SlotPage(0) \in Page /\ SlotPage(1) \in Page /\ SlotPage(0) # a /\ SlotPage(1) # a
    BY <1>2, Places, SizesAre
<1>4. \A b \in KernelPages : b \in Page /\ b # a
    BY Places, SizesAre DEF BufferPage, FramesShape
<1>5. \A t \in slots' : t \in slots \/ (t \in 2..NbSlots - 1 /\ SlotPage(t) = a)
    BY <1>1, <1>2
<1> HIDE DEF a
<1>6. PagesInv' /\ mem'.free = mem.free /\ mem'.tables = mem.tables /\ mem'.large = mem.large
    <2>1. St.mem = mem /\ St.mmu = mmu /\ St.stop = "no" /\ Resting(St)
        BY Now DEF KernelInv
    <2> QED
        BY <2>1, <1>1, <1>3, <1>5, UnmapStep DEF KernelInv
<1>7. BufferPage \in Page /\ \A b \in Page : b # a => flat'[b] = flat[b]
    BY <1>1, Places DEF KernelInv, PagesInv
<1>8. Booted /\ mem.large # {}
    <2>1. Booted
        BY <1>1, <1>3 DEF KernelInv, BootInv
    <2> QED
        BY <2>1, <1>3 DEF KernelInv, BootInv, Init, Booted
<1>9. BootInv'
    BY <1>3, <1>6, <1>7, <1>8 DEF KernelInv, BootInv, Booted
<1>10. UsesInv'
    <2>1. flat'[BufferPage] = flat[BufferPage] /\ \A b \in KernelPages : flat'[b] = flat[b]
        BY <1>3, <1>4, <1>7
    <2>2. Uses' = Uses
        BY <1>1, <1>6 DEF Uses
    <2> QED
        BY <2>1, <2>2, <1>1, <1>6 DEF KernelInv, UsesInv
<1> QED
    BY <1>6, <1>9, <1>10 DEF KernelInv

\* The state of a call that was given other frames.
WithFree(F) == [St EXCEPT !.mem = [mem EXCEPT !.free = F]]

\* A call given other frames than the free ones starts where the kernel rests.
LEMMA Given ==
    ASSUME FramesShape, PagesInv, NEW F, F \subseteq Frame, \A t \in mem.tables : t \notin F,
           NEW v, v = WithFree(F)
    PROVE  /\ Resting(v) /\ v.mmu = mmu /\ v.stop = "no" /\ v.mem.free = F
           /\ v.mem.large = mem.large /\ v.mem.tables = mem.tables /\ v.mem.tab = mem.tab
           /\ \A b : Walk(v.mem, b) = Walk(mem, b)
<1> DEFINE n == [mem EXCEPT !.free = F]
           tlb == mmu.tlb
<1>1. /\ St = State(mem, Shut, tlb, "no") /\ Tables(mem) /\ Quiet(tlb)
      /\ mmu = [win |-> Shut, tlb |-> tlb]
    BY Now
<1>2. /\ Tables(n) /\ n.free = F /\ n.large = mem.large /\ n.tables = mem.tables /\ n.tab = mem.tab
      /\ \A b : Walk(n, b) = Walk(mem, b)
    BY <1>1, FreeChanged
<1> HIDE DEF n, tlb
<1>3. v = State(n, Shut, tlb, "no")
    BY <1>1 DEF State, n, WithFree
<1>4. v.mem = n /\ v.mmu = mmu /\ v.mmu.tlb = tlb /\ v.stop = "no"
    BY <1>1, <1>3 DEF State
<1>5. Resting(v)
    BY <1>1, <1>2, <1>3, <1>4 DEF Resting
<1> QED
    BY <1>2, <1>4, <1>5

\* A page of the kernel gets a frame of its own.
LEMMA KernelMapStep ==
    ASSUME FramesShape, KernelInv, NEW a \in KernelPages, KernelMap(a)
    PROVE  KernelInv'
<1> DEFINE f == bsf(mem.free)
           F == mem.free \ {f}
           v == WithFree(F)
           k == <<"kernel", f>>
<1>1. /\ Booted /\ flat[a] = None /\ Cardinality(mem.free) >= 3
      /\ Becomes(createMapping(v, f, a)) /\ use' = use \cup {k}
      /\ flat' = [flat EXCEPT ![a] = f] /\ slots' = slots
    <2>1. [St EXCEPT !.mem = alloc(@)] = v
        BY DEF St, alloc, WithFree
    <2> QED
        BY <2>1 DEF KernelMap, Left
<1>2. Tables(mem) /\ mem.free \subseteq Frame /\ \A t \in mem.tables : t \notin mem.free
    BY Now DEF KernelInv, Tables
<1>3. f \in mem.free /\ f \in Frame /\ Cardinality(F) >= 2
    <2> DEFINE A == mem.free
    <2>1. A \in SUBSET Frame /\ 3 \in Nat /\ Cardinality(A) >= 3
        BY <1>1, <1>2
    <2> HIDE DEF A
    <2>2. A # {} /\ \A g : Cardinality(A \ {g}) >= 2
        <3>1. (3 >= 1 => A # {}) /\ \A g : Cardinality(A \ {g}) >= 3 - 1
            BY ONLY FramesShape, <2>1, FreeLeft
        <3> QED
            BY <3>1
    <2> QED
        BY <2>2, <1>2, Lowest DEF A
<1> HIDE DEF f
<1>4. F \subseteq Frame /\ \A t \in mem.tables : t \notin F
    BY <1>2
<1>5. /\ Resting(v) /\ v.mmu = mmu /\ v.stop = "no" /\ v.mem.free = F
      /\ v.mem.large = mem.large /\ v.mem.tables = mem.tables
      /\ \A b : Walk(v.mem, b) = Walk(mem, b)
    BY <1>4, Given DEF KernelInv
<1>6. F \subseteq mem.free /\ f \notin F
    OBVIOUS
<1> HIDE DEF v, F
<1>7. /\ a \in Page /\ Small(a) /\ a # BufferPage /\ BufferPage \in Page
      /\ 0 \in 0..NbSlots - 1 /\ 1 \in 0..NbSlots - 1
      /\ \A s \in 0..NbSlots - 1 : SlotPage(s) # a /\ SlotPage(s) \in Page
    <2>1. a \in Page /\ Small(a) /\ a > BufferPage /\ BufferPage \in Page /\ BufferPage \in Nat
        BY Places, SizesAre
    <2>2. 0 \in 0..NbSlots - 1 /\ 1 \in 0..NbSlots - 1
        BY DEF FramesShape
    <2>3. \A s \in 0..NbSlots - 1 : SlotPage(s) \in Page /\ SlotPage(s) < BufferPage /\ SlotPage(s) \in Nat
        BY Places, SizesAre
    <2>4. a # BufferPage /\ \A s \in 0..NbSlots - 1 : SlotPage(s) # a
        BY <2>1, <2>3, SizesAre
    <2> QED
        BY <2>1, <2>2, <2>3, <2>4
<1>8. PagesInv' /\ Took(v.mem, mem')
    <2>1. \A s \in slots' : SlotPage(s) # a
        BY <1>1, <1>7 DEF KernelInv, PagesInv
    <2>2. HasTable(v.mem, a) \/ Cardinality(v.mem.free) >= 2
        BY <1>3, <1>5
    <2>3. slots' \subseteq slots
        BY <1>1
    <2> QED
        BY <2>1, <2>2, <2>3, <1>1, <1>3, <1>5, <1>7, MapStep DEF KernelInv
<1>9. flat \in [Page -> Frame \cup {None}] /\ \A b \in Page : flat'[b] = IF b = a THEN f ELSE flat[b]
    BY <1>1, <1>7 DEF KernelInv, PagesInv
<1>10. mem.large # {}
    BY <1>1, <1>7 DEF KernelInv, BootInv, Init, Booted
<1>11. BootInv'
    <2>1. mem'.large = mem.large
        BY <1>5, <1>8 DEF Took
    <2>2. flat'[BufferPage] = flat[BufferPage] /\ flat'[SlotPage(0)] = flat[SlotPage(0)] /\ flat'[SlotPage(1)] = flat[SlotPage(1)]
        BY <1>7, <1>9
    <2> QED
        BY <2>1, <2>2, <1>1, <1>10 DEF KernelInv, BootInv, Booted
<1>12. UsesInv'
    <2> DEFINE S == Tail(flat[BufferPage])
               U == Uses \cup {k}
    <2>1. Exclusive(Uses, mem.free, S) /\ \A t \in mem.tables : <<"table", t>> \in Uses
        BY DEF KernelInv, UsesInv, Uses
    <2> HIDE DEF S
    <2>2. Exclusive(U, F, S)
        <3>1. \A x \in U : x \in Uses \/ x = k
            OBVIOUS
        <3>2. k[1] # "screen" /\ k[2] = f
            OBVIOUS
        <3> HIDE DEF U, k
        <3>3. \A x \in U : x \in Uses \/ (x[1] # "screen" /\ x[2] \in mem.free /\ x[2] \notin F)
            BY <3>1, <3>2, <1>3, <1>6
        <3>4. \A x, y \in U : x \notin Uses /\ y \notin Uses /\ x[2] = y[2] => x = y
            BY <3>1
        <3> QED
            BY ONLY <2>1, <3>3, <3>4, <1>6, Gained
    <2>3. \A x \in Uses' : x \in U \/ \E t \in mem'.tables : x = <<"table", t>>
        BY <1>1 DEF Uses
    <2>4. \A t \in v.mem.tables : <<"table", t>> \in U
        <3>1. \A x \in Uses : x \in U
            OBVIOUS
        <3>2. v.mem.tables = mem.tables
            BY <1>5
        <3> HIDE DEF U
        <3> QED
            BY <3>1, <3>2, <2>1, Zenon
    <2> HIDE DEF U
    <2>5. Exclusive(Uses', mem'.free, S)
        <3>1. Exclusive(U, v.mem.free, S)
            BY <2>2, <1>5
        <3> QED
            BY <3>1, <2>3, <2>4, <1>8, UsesOfTables
    <2>6. flat'[BufferPage] = flat[BufferPage] /\ \A b \in KernelPages : b \in Page /\ flat'[b] = IF b = a THEN f ELSE flat[b]
        BY <1>7, <1>9, Places
    <2>7. \A x \in use' : x[2] \in Frame /\ x[1] # "table"
        <3>1. k[1] # "table" /\ k[2] = f
            OBVIOUS
        <3> HIDE DEF k
        <3> QED
            BY <3>1, <1>1, <1>3 DEF KernelInv, UsesInv
    <2>8. \A b \in KernelPages : flat[b] # None => flat[b] # f
        <3>1. ASSUME NEW b \in KernelPages, flat[b] = f, flat[b] # None PROVE FALSE
            <4>1. k \in Uses
                BY <3>1 DEF KernelInv, UsesInv, Uses
            <4> QED
                BY <4>1, <2>1, <1>3 DEF Exclusive
        <3> QED
            BY <3>1
    <2>9. \A b \in KernelPages : flat'[b] # None => <<"kernel", flat'[b]>> \in use'
        BY <2>6, <1>1 DEF KernelInv, UsesInv
    <2>10. \A b, c \in KernelPages : flat'[b] # None /\ flat'[b] = flat'[c] => b = c
        BY <2>6, <2>8 DEF KernelInv, UsesInv
    <2> QED
        BY <2>5, <2>6, <2>7, <2>9, <2>10 DEF UsesInv, S
<1> QED
    BY <1>8, <1>11, <1>12 DEF KernelInv

\* A page of the kernel leads nowhere again, and its frame is free.
LEMMA KernelUnmapStep ==
    ASSUME FramesShape, KernelInv, NEW a \in KernelPages, KernelUnmap(a)
    PROVE  KernelInv'
<1> DEFINE f == Walk(mem, a)
           F == mem.free \cup {f}
           v == WithFree(F)
           k == <<"kernel", f>>
<1>1. /\ flat[a] # None /\ Becomes(freeMapping(v, a)) /\ use' = use \ {k}
      /\ flat' = [flat EXCEPT ![a] = None] /\ slots' = slots
    <2>1. [St EXCEPT !.mem = free(@, f)] = v
        BY DEF St, free, WithFree
    <2> QED
        BY <2>1 DEF KernelUnmap
<1>2. Tables(mem) /\ mem.free \subseteq Frame /\ \A t \in mem.tables : t \notin mem.free
    BY Now DEF KernelInv, Tables
<1>3. /\ a \in Page /\ Small(a) /\ a # BufferPage /\ BufferPage \in Page
      /\ 0 \in 0..NbSlots - 1 /\ 1 \in 0..NbSlots - 1
      /\ \A s \in 0..NbSlots - 1 : SlotPage(s) # a /\ SlotPage(s) \in Page
    <2>1. a \in Page /\ Small(a) /\ a > BufferPage /\ BufferPage \in Page /\ BufferPage \in Nat
        BY Places, SizesAre
    <2>2. 0 \in 0..NbSlots - 1 /\ 1 \in 0..NbSlots - 1
        BY DEF FramesShape
    <2>3. \A s \in 0..NbSlots - 1 : SlotPage(s) \in Page /\ SlotPage(s) < BufferPage /\ SlotPage(s) \in Nat
        BY Places, SizesAre
    <2>4. a # BufferPage /\ \A s \in 0..NbSlots - 1 : SlotPage(s) # a
        BY <2>1, <2>3, SizesAre
    <2> QED
        BY <2>1, <2>2, <2>3, <2>4
<1>4. /\ f = flat[a] /\ f \in Frame /\ k \in use /\ k \in Uses
      /\ Exclusive(Uses, mem.free, Tail(flat[BufferPage]))
      /\ \A t \in mem.tables : <<"table", t>> \in Uses
    <2>1. f = flat[a] /\ f \in Frame
        BY <1>1, <1>3 DEF KernelInv, PagesInv
    <2> HIDE DEF f
    <2> QED
        BY <2>1, <1>1 DEF KernelInv, UsesInv, Uses
<1> HIDE DEF f
<1>5. k[1] # "screen" /\ k[2] = f /\ k[1] = "kernel"
    OBVIOUS
<1>6. \A t \in mem.tables : t # f
    <2>1. \A t \in mem.tables : <<"table", t>> # k /\ <<"table", t>>[1] # "screen" /\ <<"table", t>>[2] = t
        OBVIOUS
    <2> HIDE DEF k
    <2> QED
        BY <2>1, <1>4, <1>5 DEF Exclusive
<1>7. F \subseteq Frame /\ \A t \in mem.tables : t \notin F
    BY <1>2, <1>4, <1>6
<1>8. \A g \in F : g \in mem.free \/ g = f
    OBVIOUS
<1> HIDE DEF F
<1>9. /\ Resting(v) /\ v.mmu = mmu /\ v.stop = "no" /\ v.mem.free = F
      /\ v.mem.large = mem.large /\ v.mem.tables = mem.tables
      /\ \A b : Walk(v.mem, b) = Walk(mem, b)
    BY <1>7, Given DEF KernelInv
<1> HIDE DEF v
<1>10. PagesInv' /\ mem'.free = F /\ mem'.tables = mem.tables /\ mem'.large = mem.large
    BY <1>1, <1>3, <1>9, UnmapStep DEF KernelInv
<1>11. flat \in [Page -> Frame \cup {None}] /\ \A b \in Page : flat'[b] = IF b = a THEN None ELSE flat[b]
    BY <1>1, <1>3 DEF KernelInv, PagesInv
<1>12. Booted /\ mem.large # {}
    <2>1. Booted
        BY <1>1, <1>3 DEF KernelInv, BootInv
    <2> QED
        BY <2>1, <1>3 DEF KernelInv, BootInv, Init, Booted
<1>13. BootInv'
    <2>1. flat'[BufferPage] = flat[BufferPage] /\ flat'[SlotPage(0)] = flat[SlotPage(0)] /\ flat'[SlotPage(1)] = flat[SlotPage(1)]
        BY <1>3, <1>11
    <2> QED
        BY <2>1, <1>10, <1>12 DEF KernelInv, BootInv, Booted
<1>14. UsesInv'
    <2> DEFINE S == Tail(flat[BufferPage])
    <2>1. \A x \in Uses' : x \in Uses /\ x # k
        BY <1>1, <1>10 DEF Uses
    <2> HIDE DEF S
    <2>2. Exclusive(Uses', F, S)
        <3> HIDE DEF k
        <3> QED
            BY <1>4, <1>5, <1>8, <2>1, Lost DEF S
    <2>3. flat'[BufferPage] = flat[BufferPage] /\ \A b \in KernelPages : b \in Page /\ flat'[b] = IF b = a THEN None ELSE flat[b]
        BY <1>3, <1>11, Places
    <2>4. \A x \in use' : x \in use
        BY <1>1
    <2>5. \A b \in KernelPages : flat'[b] # None => <<"kernel", flat'[b]>> \in use'
        <3>1. \A b \in KernelPages : b # a /\ flat[b] # None => flat[b] # f
            BY <1>4 DEF KernelInv, UsesInv
        <3>2. \A b \in KernelPages : b # a /\ flat[b] # None => <<"kernel", flat[b]>> # k /\ <<"kernel", flat[b]>> \in use
            BY <3>1 DEF KernelInv, UsesInv
        <3> HIDE DEF k
        <3> QED
            BY <3>2, <2>3, <1>1
    <2>6. \A b, c \in KernelPages : flat'[b] # None /\ flat'[b] = flat'[c] => b = c
        BY <2>3 DEF KernelInv, UsesInv
    <2> QED
        BY <2>2, <2>3, <2>4, <2>5, <2>6, <1>10 DEF KernelInv, UsesInv, S
<1> QED
    BY <1>10, <1>13, <1>14 DEF KernelInv

\* PageHeap::init and Font::defInit.
LEMMA BootPageHeapStep ==
    ASSUME FramesShape, KernelInv, BootPageHeap
    PROVE  KernelInv'
<1> DEFINE p == SlotPage(1)
           q == SlotPage(0)
           g == FontFrame
           h == FontFrame + 1
           one == createMapping(St, g, p)
           two == createMapping(one, h, q)
<1>1. /\ mem.large # {} /\ flat[q] = None /\ Cardinality(mem.free) >= 2
      /\ Becomes(two) /\ use' = use /\ slots' = (1..NbSlots - 1) \ {1, 1 + 1}
      /\ flat' = [flat EXCEPT ![p] = g, ![q] = h]
    BY FontSlots DEF BootPageHeap, Left
<1>2. /\ p \in Page /\ q \in Page /\ p # q /\ Small(p) /\ Small(q) /\ p # BufferPage /\ q # BufferPage
      /\ PDPindex(q) = PDPindex(p) /\ PDindex(q) = PDindex(p)
      /\ g \in BootFrames /\ h \in BootFrames /\ g \in Frame /\ h \in Frame
      /\ \A a \in KernelPages : a \in Page /\ a # p /\ a # q
    BY FontSlots
<1>3. \A s \in slots' : s \in 2..NbSlots - 1 /\ s \in 0..NbSlots - 1 /\ SlotPage(s) \in Page
                        /\ SlotPage(s) # p /\ SlotPage(s) # q /\ Small(SlotPage(s))
    <2>1. \A s \in slots' : s \in 2..NbSlots - 1 /\ s \in 0..NbSlots - 1 /\ s # 0 /\ s # 1
        BY <1>1 DEF FramesShape
    <2>2. 0 \in 0..NbSlots - 1 /\ 1 \in 0..NbSlots - 1
        BY DEF FramesShape
    <2> QED
        BY <2>1, <2>2, Places
<1> HIDE DEF p, q, g, h
<1>4. /\ flat \in [Page -> Frame \cup {None}] /\ \A b \in Page : Walk(mem, b) = flat[b]
      /\ \A a \in Page : Small(a) => flat[a] = None
    BY <1>1 DEF KernelInv, PagesInv, BootInv, Booted, q
<1>5. /\ St.mem = mem /\ St.mmu = mmu /\ St.stop = "no" /\ Resting(St)
    BY Now DEF KernelInv
<1>6. /\ Resting(one) /\ one.stop = "no" /\ one.mmu.tlb = Drop(mmu.tlb, p) /\ Took(mem, one.mem)
      /\ \A b \in Page : Walk(one.mem, b) = IF b = p THEN g ELSE Walk(mem, b)
    BY <1>1, <1>2, <1>4, <1>5, MappingCreated
<1> HIDE DEF one
<1>7. HasTable(one.mem, q)
    <2>1. Walk(one.mem, p) # None
        BY <1>2, <1>6, SizesAre
    <2>2. HasTable(one.mem, p)
        BY <2>1, <1>2, <1>6, EntryOfPage DEF Resting
    <2> QED
        BY <2>2, <1>2 DEF HasTable, TableAt
<1>8. Walk(one.mem, q) = None
    BY <1>2, <1>4, <1>6
<1>9. /\ Resting(two) /\ two.stop = "no" /\ two.mmu.tlb = Drop(one.mmu.tlb, q) /\ Took(one.mem, two.mem)
      /\ \A b \in Page : Walk(two.mem, b) = IF b = q THEN h ELSE Walk(one.mem, b)
    BY <1>2, <1>6, <1>7, <1>8, MappingCreated
<1> HIDE DEF two
<1>10. Resting(St') /\ mem' = two.mem /\ mmu' = two.mmu /\ stop' = "no"
    BY <1>1, <1>9, Becoming
<1>11. /\ flat' \in [Page -> Frame \cup {None}]
       /\ \A b \in Page : flat'[b] = IF b = q THEN h ELSE IF b = p THEN g ELSE flat[b]
    BY <1>1, <1>2, <1>4
<1>12. \A b \in Page : Walk(mem', b) = flat'[b]
    BY <1>4, <1>6, <1>9, <1>10, <1>11
<1>13. \A b \in DOMAIN mmu'.tlb : b \in DOMAIN mmu.tlb /\ b # p /\ b # q /\ mmu'.tlb[b] = mmu.tlb[b]
    <2>1. DOMAIN one.mmu.tlb = DOMAIN mmu.tlb \ {p} /\ \A b \in DOMAIN one.mmu.tlb : one.mmu.tlb[b] = mmu.tlb[b]
        BY <1>6 DEF Drop
    <2>2. mmu'.tlb = Drop(one.mmu.tlb, q)
        BY <1>9, <1>10
    <2>3. DOMAIN mmu'.tlb = DOMAIN one.mmu.tlb \ {q} /\ \A b \in DOMAIN mmu'.tlb : mmu'.tlb[b] = one.mmu.tlb[b]
        BY <2>2 DEF Drop
    <2> QED
        BY <2>1, <2>3
<1>14. PagesInv'
    <2>1. \A b \in DOMAIN mmu'.tlb : b \in Page /\ (flat'[b] # None => mmu'.tlb[b] = flat'[b])
        BY <1>11, <1>13 DEF KernelInv, PagesInv
    <2>2. slots' \subseteq 2..NbSlots - 1 /\ \A s \in slots' : flat'[SlotPage(s)] = None
        BY <1>3, <1>4, <1>11
    <2> QED
        BY <2>1, <2>2, <1>10, <1>11, <1>12 DEF PagesInv
<1>15. mem'.large # {}
    BY <1>1, <1>6, <1>9, <1>10 DEF Took
<1>16. BufferPage \in Page /\ flat'[BufferPage] = flat[BufferPage] /\ flat'[q] = h /\ flat'[p] = g
    BY <1>2, <1>11, Places
<1>17. BootInv'
    <2>1. Booted'
        BY <1>2, <1>16, SizesAre DEF Booted, q
    <2> QED
        BY <2>1, <1>1, <1>2, <1>15, <1>16 DEF KernelInv, BootInv, p, q
<1>18. UsesInv'
    <2> DEFINE S == Tail(flat[BufferPage])
    <2>1. Exclusive(Uses, mem.free, S) /\ \A t \in mem.tables : <<"table", t>> \in Uses
        BY DEF KernelInv, UsesInv, Uses
    <2>2. Took(mem, mem')
        BY <1>6, <1>9, <1>10 DEF Took
    <2>3. \A x \in Uses' : x \in Uses \/ \E t \in mem'.tables : x = <<"table", t>>
        BY <1>1 DEF Uses
    <2> HIDE DEF S
    <2>4. Exclusive(Uses', mem'.free, S)
        BY <2>1, <2>2, <2>3, UsesOfTables
    <2>5. flat'[BufferPage] = flat[BufferPage] /\ \A b \in KernelPages : flat'[b] = flat[b]
        BY <1>2, <1>11, <1>16
    <2>6. \A x \in use' : x[2] \in Frame /\ x[1] # "table"
        BY <1>1 DEF KernelInv, UsesInv
    <2>7. /\ \A a \in KernelPages : flat'[a] # None => <<"kernel", flat'[a]>> \in use'
          /\ \A a, b \in KernelPages : flat'[a] # None /\ flat'[a] = flat'[b] => a = b
        <3>1. \A a \in KernelPages : flat[a] = None
            BY <1>4, Places
        <3> QED
            BY <3>1, <2>5
    <2> QED
        BY <2>4, <2>5, <2>6, <2>7 DEF UsesInv, S
<1> QED
    BY <1>14, <1>17, <1>18 DEF KernelInv

\* Where alloc2M puts the large page: above every frame of the boot, at a word of the bitset.
LEMMA LargePlace ==
    ASSUME FramesShape, NEW m, m.free = Frame \ BootFrames, NEW f, f = alloc2M(m)
    PROVE  f \in Nat /\ f % WordBits = 0 /\ \A b \in BootFrames : b < f
<1>1. /\ WordBits \in Nat /\ WordBits > 0 /\ Large \in Nat /\ Large > 0 /\ NbFrames \in Nat
      /\ Large % (2 * WordBits) = 0 /\ BootFrames \in SUBSET Frame /\ BootFrames # {}
    BY DEF FramesShape
<1> DEFINE top == Max(BootFrames)
<1>2. top \in Frame /\ \A b \in BootFrames : b <= top
    BY <1>1, Extremes
<1>3. usr(m.free) = top
    <2>1. Frame \ (Frame \ BootFrames) = BootFrames /\ ~(Frame \subseteq Frame \ BootFrames)
        BY <1>1
    <2> QED
        BY <2>1 DEF usr
<1> HIDE DEF top
<1>4. top \in Nat /\ \A b \in BootFrames : b \in Nat /\ b <= top
    BY <1>1, <1>2, SizesAre
<1> DEFINE c == Large \div (2 * WordBits)
           w == c * WordBits
<1>5. 2 * WordBits \in Nat /\ 2 * WordBits > 0
    BY <1>1
<1>6. c \in Nat /\ Large = c * (2 * WordBits)
    BY <1>1, <1>5, Divided
<1> HIDE DEF c
<1>7. w \in Nat /\ Large = w * 2 + 0
    <2>1. c * (2 * WordBits) = (c * WordBits) * 2 /\ c * WordBits \in Nat
        BY <1>1, <1>6
    <2> QED
        BY <2>1, <1>6
<1> HIDE DEF w
<1>8. Large \div 2 = w /\ w > 0
    <2>1. Large \div 2 = w
        BY <1>1, <1>7, Quotient
    <2> QED
        BY <2>1, <1>1, <1>7
<1> DEFINE n == top + 1 + w - 1
           d == n \div w
           up == AlignUp(top + 1, w)
<1>9. n \in Nat /\ n = top + w
    BY <1>4, <1>7
<1>10. d \in Nat /\ up = d * w /\ n % w \in 0..w - 1 /\ n = d * w + (n % w)
    BY <1>7, <1>8, <1>9, Divided DEF AlignUp
<1> HIDE DEF n, d, up
<1>11. up \in Nat /\ up > top
    <2>1. d * w \in Nat
        BY <1>7, <1>10
    <2> QED
        BY <2>1, <1>4, <1>7, <1>8, <1>9, <1>10
<1>12. f = IF up % Large = 0 THEN up + w ELSE up
    BY <1>3, <1>8 DEF alloc2M, up
<1>13. PICK e \in Nat : f = e * w
    <2>1. up + w = (d + 1) * w
        BY <1>7, <1>10
    <2> QED
        BY <2>1, <1>10, <1>12
<1>14. f = (e * c) * WordBits + 0 /\ e * c \in Nat
    <2>1. e * (c * WordBits) = (e * c) * WordBits /\ e * c \in Nat
        BY <1>1, <1>6
    <2> QED
        BY <2>1, <1>1, <1>6, <1>13 DEF w
<1>15. f \in Nat /\ f > top
    <2>1. up + w \in Nat /\ up + w > top
        BY <1>4, <1>7, <1>11
    <2>2. f = up \/ f = up + w
        BY <1>12, Zenon
    <2> QED
        BY <2>1, <2>2, <1>11
<1>16. f % WordBits = 0
    <2> DEFINE x == e * c
    <2>1. x \in Nat /\ f = x * WordBits + 0 /\ 0 \in 0..WordBits - 1
        BY <1>1, <1>14
    <2> HIDE DEF x
    <2> QED
        BY <2>1, <1>1, <1>15, Quotient
<1> QED
    BY <1>4, <1>15, <1>16

\* Screen::init.
LEMMA BootScreenStep ==
    ASSUME FramesShape, KernelInv, BootScreen
    PROVE  KernelInv'
<1> DEFINE f == alloc2M(mem)
           C == Covered(f, Large)
           L == f..f + Large - 1
           F == mem.free \ C
           v == WithFree(F)
           r == createMapping2M(v, f, BufferPage)
<1>1. /\ mem.large = {} /\ f + Large <= NbFrames /\ Becomes(r) /\ slots' = slots
      /\ use' = use \cup {"screen"} \X L
      /\ flat' = [a \in Page |-> IF a \in BufferPage..BufferPage + Fan - 1 THEN f ELSE flat[a]]
    <2>1. [St EXCEPT !.mem.free = @ \ C] = v
        BY DEF St, WithFree
    <2> HIDE DEF v, C, L
    <2>2. \A u : u = v => (Becomes(createMapping2M(u, f, BufferPage)) <=> Becomes(r))
        OBVIOUS
    <2> HIDE DEF f
    <2> QED
        BY <2>1 DEF BootScreen, f, C, L
<1>2. /\ mem.free = Frame \ BootFrames /\ mem.tables = {} /\ mem.tab = <<>> /\ mmu.tlb = <<>> /\ slots = {}
      /\ use = {<<"boot", b>> : b \in BootFrames} /\ flat = [a \in Page |-> None]
    <2>1. Init
        BY <1>1 DEF KernelInv, BootInv
    <2> QED
        BY <2>1 DEF Init
<1>3. f \in Nat /\ f % WordBits = 0 /\ \A b \in BootFrames : b < f
    BY <1>2, LargePlace
<1> HIDE DEF f
<1>4. /\ WordBits \in Nat /\ WordBits > 0 /\ Large \in Nat /\ Large > 0 /\ NbFrames \in Nat
      /\ BootFrames \subseteq Frame /\ Frame = 0..NbFrames - 1
    BY DEF FramesShape, Frame
<1>5. C = f..f + Large - WordBits - 1
    BY <1>3 DEF Covered
<1>6. L \subseteq Frame /\ f \in Frame /\ f # None
    BY <1>1, <1>3, <1>4, SizesAre
<1>7. f + Large - 1 \in F
    <2>1. f + Large - 1 \in Frame /\ f + Large - 1 \notin C
        BY <1>1, <1>3, <1>4, <1>5
    <2>2. f + Large - 1 \notin BootFrames
        <3>1. ASSUME f + Large - 1 \in BootFrames PROVE FALSE
            <4>1. f + Large - 1 < f
                BY <3>1, <1>3
            <4> QED
                BY <4>1, <1>3, <1>4
        <3> QED
            BY <3>1
    <2> QED
        BY <2>1, <2>2, <1>2
<1>8. \A g \in L : g \notin BootFrames /\ (g \in Tail(f) \/ g \notin F)
    <2>1. \A g \in L : g \in Tail(f) \/ g \in C
        BY DEF Tail
    <2>2. \A g \in C : g \notin F
        OBVIOUS
    <2>3. ASSUME NEW g \in L PROVE g \notin BootFrames
        <3>1. g \in Int /\ g >= f
            BY <1>3, <1>4
        <3>2. g \in BootFrames => g < f
            BY <1>3
        <3> QED
            BY <3>1, <3>2, <1>3
    <2> HIDE DEF L, C, F
    <2> QED
        BY <2>1, <2>2, <2>3
<1>9. F \subseteq Frame /\ (\A t \in mem.tables : t \notin F) /\ \A b \in BootFrames : b \notin F
    BY <1>2
<1> HIDE DEF F, C, L
<1>10. /\ Resting(v) /\ v.mmu = mmu /\ v.stop = "no" /\ v.mem.free = F
       /\ v.mem.large = mem.large /\ v.mem.tables = mem.tables /\ v.mem.tab = mem.tab
       /\ \A b : Walk(v.mem, b) = Walk(mem, b)
    BY <1>9, Given DEF KernelInv
<1> HIDE DEF v
<1>11. /\ Resting(r) /\ r.stop = "no" /\ r.mmu.tlb = Drop(mmu.tlb, BufferPage) /\ r.mem.free \subseteq F
       /\ r.mem.tables = F \ r.mem.free /\ r.mem.large # {}
       /\ \A b \in Page : Walk(r.mem, b) = IF Small(b) THEN Walk(mem, b) ELSE f
    <2>1. v.mem.large = {} /\ v.mem.free # {}
        BY <1>1, <1>7, <1>10
    <2>2. To(v.mem, KernelPDP, 1) = None
        BY <1>2, <1>10 DEF To
    <2>3. /\ Resting(r) /\ r.stop = v.stop /\ r.mmu.tlb = Drop(v.mmu.tlb, BufferPage)
          /\ r.mem.free \subseteq v.mem.free /\ r.mem.tables = v.mem.tables \cup (v.mem.free \ r.mem.free)
          /\ \E x : r.mem.large = {x} /\ r.mem.tab[x] = f
          /\ \A b \in Page : Walk(r.mem, b) = IF Small(b) THEN Walk(v.mem, b) ELSE f
        BY <2>1, <2>2, <1>6, <1>10, LargeCreated
    <2> HIDE DEF r
    <2> QED
        BY <2>3, <1>2, <1>10
<1> HIDE DEF r
<1>12. Resting(St') /\ mem' = r.mem /\ mmu' = r.mmu /\ stop' = "no"
    BY <1>1, <1>11, Becoming
<1>13. \A b \in Page : flat'[b] = IF Small(b) THEN None ELSE f
    BY <1>1, <1>2, Places
<1>14. flat' \in [Page -> Frame \cup {None}]
    <2>1. \A b \in Page : flat[b] \in Frame \cup {None} /\ f \in Frame \cup {None}
        BY <1>2, <1>6
    <2> QED
        BY <2>1, <1>1
<1>15. \A b \in Page : Walk(mem', b) = flat'[b]
    BY <1>2, <1>11, <1>12, <1>13 DEF KernelInv, PagesInv
<1>16. DOMAIN mmu'.tlb = {}
    <2>1. mmu'.tlb = Drop(mmu.tlb, BufferPage) /\ DOMAIN mmu.tlb = {}
        BY <1>2, <1>11, <1>12
    <2> QED
        BY <2>1 DEF Drop
<1>17. slots' = {}
    BY <1>1, <1>2
<1>18. PagesInv'
    BY <1>12, <1>14, <1>15, <1>16, <1>17 DEF PagesInv
<1>19. BufferPage \in Page /\ flat'[BufferPage] = f
    BY <1>13, Places DEF Small
<1>20. flat'[SlotPage(0)] = None /\ flat'[SlotPage(1)] = None
    BY <1>13, FontSlots
<1>21. BootInv'
    BY <1>6, <1>11, <1>12, <1>13, <1>17, <1>19, <1>20 DEF BootInv
<1>22. UsesInv'
    <2>1. \A x \in Uses' : \/ x[1] = "boot" /\ x = <<"boot", x[2]>> /\ x[2] \in BootFrames
                           \/ x[1] = "screen" /\ x = <<"screen", x[2]>> /\ x[2] \in L
                           \/ x[1] = "table" /\ x = <<"table", x[2]>> /\ x[2] \in F /\ x[2] \notin mem'.free
        BY <1>1, <1>2, <1>11, <1>12 DEF Uses
    <2>2. mem'.free \subseteq F
        BY <1>11, <1>12
    <2>3. \A x \in Uses' : x[1] # "screen" => x[2] \notin mem'.free
        BY <2>1, <2>2, <1>9
    <2>4. \A x, y \in Uses' : x[1] # "screen" /\ y[1] # "screen" /\ x[2] = y[2] => x = y
        BY <2>1, <1>9
    <2>5. \A x \in Uses' : x[1] = "screen" =>
             x[2] \in Tail(f) \/ (x[2] \notin mem'.free /\ \A y \in Uses' : y[2] = x[2] => y = x)
        <3> SUFFICES ASSUME NEW x \in Uses', x[1] = "screen", x[2] \notin Tail(f)
                     PROVE  x[2] \notin mem'.free /\ \A y \in Uses' : y[2] = x[2] => y = x
            OBVIOUS
        <3>1. x = <<"screen", x[2]>> /\ x[2] \in L
            BY <2>1
        <3>2. x[2] \notin BootFrames /\ x[2] \notin F
            BY <3>1, <1>8
        <3> QED
            BY <2>1, <2>2, <3>1, <3>2
    <2>6. Exclusive(Uses', mem'.free, Tail(f))
        BY <2>3, <2>4, <2>5 DEF Exclusive
    <2>7. \A x \in use' : x[2] \in Frame /\ x[1] # "table"
        <3>1. \A x \in use' : (x[1] = "boot" /\ x[2] \in BootFrames) \/ (x[1] = "screen" /\ x[2] \in L)
            BY <1>1, <1>2
        <3>2. BootFrames \subseteq Frame /\ L \subseteq Frame
            BY <1>4, <1>6
        <3> QED
            BY <3>1, <3>2
    <2>8. \A a \in KernelPages : flat'[a] = None
        BY <1>13, Places
    <2> QED
        BY <2>6, <2>7, <2>8, <1>19 DEF UsesInv
<1> QED
    BY <1>18, <1>21, <1>22 DEF KernelInv

\* Every step keeps the invariant.
LEMMA KernelStep ==
    ASSUME FramesShape, KernelInv, [Next]_vars
    PROVE  KernelInv'
<1>1. CASE Next
    BY <1>1, BootScreenStep, BootPageHeapStep, UserAllocStep, UserFreeStep, PageHeapAllocStep,
       PageHeapFreeStep, KernelMapStep, KernelUnmapStep, TranslateStep DEF Next
<1>2. CASE UNCHANGED vars
    <2>1. /\ mem' = mem /\ mmu' = mmu /\ slots' = slots /\ use' = use /\ flat' = flat /\ stop' = stop
        BY <1>2 DEF vars
    <2>2. PagesInv'
        BY <2>1 DEF KernelInv, PagesInv, St
    <2>3. BootInv'
        BY <2>1 DEF KernelInv, BootInv, Init, Booted
    <2>4. UsesInv'
        BY <2>1 DEF KernelInv, UsesInv, Uses
    <2> QED
        BY <2>2, <2>3, <2>4 DEF KernelInv
<1> QED
    BY <1>1, <1>2
=============================================================================
