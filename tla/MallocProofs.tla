----------------------------- MODULE MallocProofs -----------------------------
(***************************************************************************)
(* Theorems about Malloc, for heaps of any size and any clients that ask   *)
(* for any sizes but 0.                                                    *)
(***************************************************************************)
EXTENDS Malloc, FiniteSetTheorems, TLAPS

-----------------------------------------------------------------------------
(* The inductive invariant.  C is the set of the headers of memory m, whose  *)
(* break is b.                                                               *)

\* The headers tile the heap, and the last one ends the list.
Tiled(m, C, b) ==
  /\ C \in SUBSET (0 .. b - 1) /\ 0 \in C /\ b - 1 \in C
  /\ \A h \in C : m[h].owner = "header" /\ (m[h].size = 0 <=> h = b - 1)
  /\ \A h \in C \ {b - 1} : /\ h + m[h].size + 1 \in C
                            /\ \A g \in C : g <= h \/ g >= h + m[h].size + 1

\* A header tells whether the block before it is free.
Flagged(m, C, b) ==
  /\ ~m[0].prevFree
  /\ \A h \in C \ {b - 1} : m[h + m[h].size + 1].prevFree <=> m[h].free

\* Free blocks have their tag, and a block in use after them.
Tagged(m, C, b) == \A h \in C \ {b - 1} : m[h].free => m[h + m[h].size] = m[h]
Apart(m, C, b) ==
  \A h \in C \ {b - 1} : m[h].free => h + m[h].size + 1 # b - 1 /\ ~m[h + m[h].size + 1].free

Heap(m, C, b) ==
  /\ m \in [Addr -> Word] /\ b \in 1 .. MaxWords
  /\ Tiled(m, C, b) /\ Flagged(m, C, b) /\ Tagged(m, C, b) /\ Apart(m, C, b)

Used(m, C, b) == {h \in C \ {b - 1} : ~m[h].free}

\* The blocks in use are those of the clients, one each.
Held(C) ==
  /\ \A c \in Live : ptr[c] - 1 \in Used(mem, C, Brk)
  /\ \A c, d \in Live : ptr[c] = ptr[d] => c = d
  /\ \A h \in Used(mem, C, Brk) : \E c \in Live : ptr[c] = h + 1

\* They have the size that was asked for and hold what the client has written.
Filled ==
  \A c \in Live : /\ asked[c] <= mem[ptr[c] - 1].size
                  /\ \A i \in 0 .. asked[c] - 1 : mem[ptr[c] + i] = Data(c, i)

IInv == TypeOK /\ (\E C \in SUBSET Addr : Heap(mem, C, Brk) /\ Held(C)) /\ Filled

-----------------------------------------------------------------------------
(* The chain of headers.                                                     *)

\* A set of naturals has a least element.
LEMMA Least ==
  ASSUME NEW T \in SUBSET Nat, T # {}
  PROVE  \E n \in T : \A m \in T : n <= m
<1> DEFINE Upto(n) == 0 .. n
           C == {Upto(n) : n \in T}
<1>1. IsWellFoundedOn(StrictSubsetOrdering(Nat), FiniteSubsetsOf(Nat))
  BY FS_StrictSubsetOrderingWellFounded
<1>2. \A n \in T : Upto(n) \in FiniteSubsetsOf(Nat)
  <2> TAKE n \in T
  <2>1. IsFiniteSet(0 .. n)
    BY FS_Interval
  <2>2. QED BY <2>1 DEF FiniteSubsetsOf
<1>3. \A n \in T, m \in T : m < n => <<Upto(m), Upto(n)>> \in StrictSubsetOrdering(Nat)
  <2> TAKE n \in T, m \in T
  <2>1. m < n => /\ Upto(m) \in SUBSET Nat /\ Upto(n) \in SUBSET Nat
                 /\ Upto(m) \subseteq Upto(n) /\ n \in Upto(n) /\ n \notin Upto(m)
    OBVIOUS
  <2> HIDE DEF Upto
  <2>2. QED BY <2>1 DEF StrictSubsetOrdering
<1> HIDE DEF Upto
<1>4. C # {} /\ C \subseteq FiniteSubsetsOf(Nat)
  BY <1>2
<1> HIDE DEF C
<1>5. \E x \in C : \A y \in C : ~(<<y, x>> \in StrictSubsetOrdering(Nat))
  BY <1>1, <1>4, WFMin
<1>6. PICK n \in T : \A m \in T : ~(<<Upto(m), Upto(n)>> \in StrictSubsetOrdering(Nat))
  BY <1>5 DEF C
<1>7. \A m \in T : ~(m < n)
  BY <1>3, <1>6
<1>8. QED BY <1>7

\* A set of addresses has a greatest element.
LEMMA Greatest ==
  ASSUME NEW T \in SUBSET Addr, T # {}
  PROVE  \E n \in T : \A m \in T : m <= n
<1> DEFINE D == {MaxWords - n : n \in T}
<1>1. D \in SUBSET Nat /\ D # {}
  <2>1. \A n \in T : MaxWords - n \in Nat
    BY SizesAssumption DEF Addr
  <2> QED BY <2>1
<1>2. PICK d \in D : \A e \in D : d <= e
  BY <1>1, Least
<1>3. PICK n \in T : d = MaxWords - n
  BY <1>2
<1>4. \A m \in T : MaxWords - n <= MaxWords - m
  BY <1>2, <1>3
<1>5. QED BY <1>4, SizesAssumption DEF Addr

\* What walk[h] is, given walk above h.
Onward(m, h, w) ==
  {h} \cup IF m[h].size = 0 \/ nextHeader(m, h) \notin Addr THEN {} ELSE w[nextHeader(m, h)]

\* There is such a function walk.
LEMMA WalkExists ==
  ASSUME NEW m \in [Addr -> Word]
  PROVE  \E w : w = [h \in Addr |-> Onward(m, h, w)]
<1> DEFINE From(n) == {h \in Addr : n <= h}
           Walks(n) == \E w \in [Addr -> SUBSET Int] :
                         \A h \in From(n) : w[h] = Onward(m, h, w)
           T == {n \in Nat : Walks(n)}
<1>1. MaxWords \in Nat /\ Addr = 0 .. MaxWords - 1
  BY SizesAssumption DEF Addr
<1>2. \A h \in Addr : nextHeader(m, h) \in Nat /\ nextHeader(m, h) > h
  <2> TAKE h \in Addr
  <2>1. m[h].size \in 0 .. MaxWords
    BY DEF Word
  <2> QED BY <2>1, <1>1 DEF nextHeader
<1>3. MaxWords \in T
  <2>1. [h \in Addr |-> {}] \in [Addr -> SUBSET Int] /\ From(MaxWords) = {}
    BY <1>1
  <2>2. Walks(MaxWords)
    BY <2>1
  <2> QED BY <1>1, <2>2
<1> HIDE DEF T
<1>4. PICK n \in T : \A k \in T : n <= k
  BY <1>3, Least DEF T
<1>5. n = 0
  <2> SUFFICES ASSUME n # 0 PROVE FALSE
    OBVIOUS
  <2>1. n \in Nat /\ n <= MaxWords /\ n - 1 \in Addr
    BY <1>1, <1>3, <1>4 DEF T
  <2>2. PICK w \in [Addr -> SUBSET Int] : \A h \in From(n) : w[h] = Onward(m, h, w)
    BY <1>4 DEF T
  <2> DEFINE u == [w EXCEPT ![n - 1] = Onward(m, n - 1, w)]
  <2>3. Onward(m, n - 1, w) \in SUBSET Int
    BY <2>1, <1>1 DEF Onward
  <2>4. u \in [Addr -> SUBSET Int]
    BY <2>3
  <2>5. \A h \in Addr : n - 1 <= h => Onward(m, h, u) = Onward(m, h, w)
    <3> TAKE h \in Addr
    <3>1. n - 1 <= h /\ nextHeader(m, h) \in Addr => u[nextHeader(m, h)] = w[nextHeader(m, h)]
      BY <1>1, <1>2, <2>1
    <3> QED BY <3>1 DEF Onward
  <2>6. \A h \in From(n - 1) : u[h] = Onward(m, h, u)
    <3> TAKE h \in From(n - 1)
    <3>1. CASE h = n - 1
      BY <2>1, <2>5, <3>1
    <3>2. CASE h # n - 1
      <4>1. h \in From(n) /\ u[h] = w[h]
        BY <1>1, <2>1, <3>2
      <4> QED BY <4>1, <2>2, <2>5, <2>1
    <3> QED BY <3>1, <3>2
  <2>7. Walks(n - 1)
    BY <2>4, <2>6
  <2> HIDE DEF Walks
  <2>8. n - 1 \in T
    BY <2>1, <2>7, <1>1 DEF T
  <2> QED BY <2>1, <2>8, <1>4
<1>6. PICK w \in [Addr -> SUBSET Int] : \A h \in From(0) : w[h] = Onward(m, h, w)
  BY <1>4, <1>5 DEF T
<1>7. w = [h \in Addr |-> Onward(m, h, w)]
  BY <1>1, <1>6
<1>8. QED BY <1>7


\* The headers that the loop of malloc visits are those that tile the heap.
LEMMA ChainIs ==
  ASSUME NEW m \in [Addr -> Word], NEW b \in 1 .. MaxWords, NEW C, Tiled(m, C, b)
  PROVE  Chain(m) = C
<1> DEFINE w == CHOOSE w : w = [h \in Addr |-> Onward(m, h, w)]
<1>1. w = [h \in Addr |-> Onward(m, h, w)]
  BY WalkExists
<1>2. Chain(m) = w[0]
  BY DEF Chain, Onward, firstHeader
<1> HIDE DEF w
<1>3. /\ C \in SUBSET Addr /\ 0 \in C /\ b - 1 \in C
      /\ MaxWords \in Nat /\ Addr = 0 .. MaxWords - 1
  BY SizesAssumption DEF Addr, Tiled
<1>8. \A g \in C : g \in Nat /\ g <= b - 1
  BY DEF Tiled
<1>4. \A h \in C : /\ m[h].size \in Nat /\ (m[h].size = 0 <=> h = b - 1)
                   /\ h # b - 1 => /\ h + m[h].size + 1 \in C
                                   /\ \A g \in C : g <= h \/ g >= h + m[h].size + 1
  <2> TAKE h \in C
  <2>1. m[h].size \in 0 .. MaxWords
    BY <1>3 DEF Word
  <2> QED BY <1>3, <2>1 DEF Tiled
<1>5. \A h \in C : w[h] = {h} \cup IF h = b - 1 THEN {} ELSE w[h + m[h].size + 1]
  BY <1>1, <1>3, <1>4 DEF Onward, nextHeader
<1>6. \A h \in C : w[h] = {g \in C : g >= h}
  <2> DEFINE Bad == {h \in C : w[h] # {g \in C : g >= h}}
  <2> SUFFICES ASSUME Bad # {} PROVE FALSE
    OBVIOUS
  <2>1. PICK h \in Bad : \A g \in Bad : g <= h
    BY <1>3, Greatest
  <2>2. CASE h = b - 1
    <3>1. \A g \in C : g >= h <=> g = h
      BY <1>3, <1>8, <2>2, <2>1
    <3>2. {g \in C : g >= h} = {h}
      BY <2>1, <3>1
    <3> QED BY <1>5, <2>1, <2>2, <3>2
  <2>3. CASE h # b - 1
    <3> DEFINE n == h + m[h].size + 1
    <3>1. n \in C /\ n > h /\ \A g \in C : g <= h \/ g >= n
      BY <1>3, <1>4, <2>3
    <3>2. n \notin Bad
      BY <1>3, <2>1, <3>1
    <3>3. w[n] = {g \in C : g >= n}
      BY <3>1, <3>2
    <3>4. w[h] = {h} \cup w[n]
      BY <1>5, <2>3
    <3>5. \A g \in C : g >= h <=> g = h \/ g >= n
      BY <1>8, <3>1, <2>1
    <3>6. {g \in C : g >= h} = {h} \cup {g \in C : g >= n}
      BY <3>5, <2>1
    <3> HIDE DEF n
    <3> QED BY <3>3, <3>4, <3>6, <2>1
  <2> QED BY <2>2, <2>3
<1>7. {g \in C : g >= 0} = C
  BY <1>8
<1> QED BY <1>2, <1>3, <1>6, <1>7

\* What is known of the headers.
LEMMA Places ==
  ASSUME NEW m, NEW b, NEW C, m \in [Addr -> Word], b \in 1 .. MaxWords, Tiled(m, C, b),
         NEW h \in C
  PROVE  /\ h \in Addr /\ h \in Nat /\ h <= b - 1 /\ b - 1 \in C /\ b - 1 \in Addr
         /\ m[h].size \in 0 .. MaxWords /\ m[h].size \in Nat
         /\ h # b - 1 => /\ m[h].size > 0
                         /\ h + m[h].size + 1 \in C /\ h + m[h].size + 1 <= b - 1
                         /\ h + m[h].size \in Addr
                         /\ \A g \in C : g <= h \/ g >= h + m[h].size + 1
<1>1. h \in Addr /\ h \in Nat /\ h <= b - 1 /\ b - 1 \in C /\ b - 1 \in Addr
  BY SizesAssumption DEF Tiled, Addr
<1>2. m[h].size \in 0 .. MaxWords
  BY <1>1 DEF Word
<1>3. m[h].size \in Nat /\ MaxWords \in Nat
  BY <1>2, SizesAssumption
<1>4. h # b - 1 => /\ m[h].size > 0
                   /\ h + m[h].size + 1 \in C
                   /\ \A g \in C : g <= h \/ g >= h + m[h].size + 1
  BY <1>3 DEF Tiled
<1>5. \A g \in C : g \in Nat /\ g <= b - 1
  BY DEF Tiled
<1>6. h # b - 1 => h + m[h].size + 1 <= b - 1 /\ h + m[h].size \in Addr
  BY <1>1, <1>3, <1>4, <1>5 DEF Addr
<1> QED BY <1>1, <1>2, <1>3, <1>4, <1>6

\* The loop of malloc stops at a block with enough space or at the end.
LEMMA FitFound ==
  ASSUME NEW m, NEW b, NEW C, Heap(m, C, b), NEW n \in Nat
  PROVE  FirstFit(m, n) \in C /\ Fits(m, FirstFit(m, n), n)
<1> DEFINE fit == {h \in C : Fits(m, h, n)}
<1>1. Chain(m) = C
  BY ChainIs DEF Heap
<1>2. b - 1 \in fit
  BY DEF Heap, Tiled, Fits
<1>3. fit \in SUBSET Nat
  <2>1. C \in SUBSET (0 .. b - 1) /\ b \in 1 .. MaxWords
    BY DEF Heap, Tiled
  <2>2. C \in SUBSET Nat
    BY <2>1, SizesAssumption
  <2> QED BY <2>2
<1>4. \E h \in fit : \A g \in fit : h <= g
  BY <1>2, <1>3, Least
<1>5. FirstFit(m, n) = CHOOSE h \in fit : \A g \in fit : h <= g
  BY <1>1 DEF FirstFit
<1>6. FirstFit(m, n) \in fit
  BY <1>4, <1>5
<1> QED BY <1>6


-----------------------------------------------------------------------------
(* malloc: the heap after a block is taken.                                  *)

\* The blocks U keep their sizes and what is in them.
Keeps(m, w, U) ==
  \A g \in U : /\ w[g].size = m[g].size
               /\ \A a \in g + 1 .. g + m[g].size : w[a] = m[a]

\* The end of the list becomes a block of n words.
LEMMA Extended ==
  ASSUME NEW m, NEW b, NEW C, Heap(m, C, b),
         NEW n \in Nat, n > 0, b + n + 1 <= MaxWords
  PROVE  LET w == extend(m, b - 1, n)
             D == C \cup {b + n}
         IN  /\ Heap(w, D, b + n + 1) /\ w[b - 1].size = n
             /\ Used(w, D, b + n + 1) = Used(m, C, b) \cup {b - 1}
             /\ Keeps(m, w, Used(m, C, b))
<1> DEFINE w == extend(m, b - 1, n)
           D == C \cup {b + n}
           e == b + n + 1
<1>1. /\ m \in [Addr -> Word] /\ b \in 1 .. MaxWords
      /\ Tiled(m, C, b) /\ Flagged(m, C, b) /\ Tagged(m, C, b) /\ Apart(m, C, b)
  BY DEF Heap
<1>2. MaxWords \in Nat /\ Addr = 0 .. MaxWords - 1 /\ e \in 1 .. MaxWords /\ e - 1 = b + n
  BY <1>1, SizesAssumption DEF Addr
<1>3. /\ w[b - 1] = Header(n, m[b - 1].prevFree, FALSE)
      /\ w[b + n] = Header(0, FALSE, FALSE)
      /\ \A a \in Addr : a < b - 1 => w[a] = m[a]
  <2>1. b - 1 \in Addr /\ b + n \in Addr /\ b + n = (b - 1) + n + 1 /\ b + n # b - 1
    BY <1>1, <1>2
  <2>2. \A a \in Addr : a < b - 1 => a # b - 1 /\ a # (b - 1) + n + 1 /\ ~(a > b - 1)
    BY <1>1, <1>2
  <2> QED BY <2>1, <2>2 DEF extend
<1>4. w \in [Addr -> Word]
  <2>1. m[b - 1].prevFree \in BOOLEAN
    BY <1>1, <1>2 DEF Word
  <2>2. Header(n, m[b - 1].prevFree, FALSE) \in Word /\ Header(0, FALSE, FALSE) \in Word
    BY <1>1, <1>2, <2>1 DEF Word, Header, Cell
  <2>3. Junk \in Word /\ \A a \in Addr : m[a] \in Word
    BY <1>1, <1>2 DEF Junk, Cell, Word
  <2> QED BY <2>2, <2>3 DEF extend
<1>5. /\ w[b - 1].size = n /\ ~w[b - 1].free /\ w[b - 1].owner = "header"
      /\ w[b - 1].prevFree = m[b - 1].prevFree
      /\ w[b + n].size = 0 /\ ~w[b + n].free /\ w[b + n].owner = "header" /\ ~w[b + n].prevFree
  BY <1>3 DEF Header, Cell
<1>6. \A h \in C : /\ h \in Addr /\ h \in Nat /\ h <= b - 1 /\ m[h].size \in Nat
                   /\ h # b - 1 => /\ m[h].size > 0 /\ h + m[h].size + 1 \in C
                                   /\ h + m[h].size + 1 <= b - 1 /\ h + m[h].size \in Addr
                                   /\ \A g \in C : g <= h \/ g >= h + m[h].size + 1
  BY <1>1, Places
<1>7. \A h \in C : h # b - 1 => w[h] = m[h] /\ w[h + m[h].size] = m[h + m[h].size]
  BY <1>1, <1>2, <1>3, <1>6
<1>8. 0 \in C /\ b - 1 \in C /\ b \in Nat /\ b + n \notin C
  BY <1>1, <1>2, <1>6 DEF Tiled
<1> HIDE DEF w, e
<1>9. D \in SUBSET (0 .. e - 1) /\ 0 \in D /\ e - 1 \in D
  BY <1>2, <1>6, <1>8
<1>10. \A h \in D : w[h].owner = "header" /\ (w[h].size = 0 <=> h = e - 1)
  <2> TAKE h \in D
  <2>1. CASE h = b + n
    BY <2>1, <1>2, <1>5
  <2>2. CASE h = b - 1
    BY <2>2, <1>2, <1>5, <1>8
  <2>3. CASE h \in C \ {b - 1}
    <3>1. h # e - 1 /\ w[h] = m[h] /\ m[h].size > 0 /\ m[h].owner = "header"
      BY <2>3, <1>1, <1>2, <1>6, <1>7, <1>8 DEF Tiled
    <3> QED BY <3>1, <2>3, <1>6
  <2> QED BY <2>1, <2>2, <2>3
<1>11. \A h \in D \ {e - 1} : /\ h + w[h].size + 1 \in D
                              /\ \A g \in D : g <= h \/ g >= h + w[h].size + 1
  <2> TAKE h \in D \ {e - 1}
  <2>1. CASE h = b - 1
    BY <2>1, <1>2, <1>5, <1>6, <1>8
  <2>2. CASE h # b - 1
    <3>1. h \in C /\ w[h] = m[h]
      BY <2>2, <1>2, <1>7
    <3>2. h + m[h].size + 1 \in C /\ h + m[h].size + 1 <= b - 1 /\ m[h].size \in Nat
      BY <2>2, <3>1, <1>6
    <3>3. \A g \in C : g <= h \/ g >= h + m[h].size + 1
      BY <2>2, <3>1, <1>6
    <3>4. b + n >= h + m[h].size + 1
      BY <3>1, <3>2, <1>6, <1>8
    <3> QED BY <3>1, <3>2, <3>3, <3>4
  <2> QED BY <2>1, <2>2
<1>12. Tiled(w, D, e)
  BY <1>9, <1>10, <1>11 DEF Tiled
<1>13. \A h \in C \ {b - 1} :
          /\ h \in D \ {e - 1} /\ h + m[h].size + 1 \in C
          /\ w[h + m[h].size + 1].prevFree = m[h + m[h].size + 1].prevFree
  BY <1>2, <1>5, <1>6, <1>7, <1>8
<1>14. Flagged(w, D, e)
  <2>1. ~w[0].prevFree
    BY <1>1, <1>5, <1>7, <1>8 DEF Flagged
  <2>2. ASSUME NEW h \in D \ {e - 1}
        PROVE  w[h + w[h].size + 1].prevFree <=> w[h].free
    <3>1. CASE h = b - 1
      BY <3>1, <1>2, <1>5, <1>8
    <3>2. CASE h # b - 1
      <4>1. h \in C \ {b - 1} /\ w[h] = m[h]
        BY <3>2, <1>2, <1>7
      <4>2. m[h + m[h].size + 1].prevFree <=> m[h].free
        BY <4>1, <1>1 DEF Flagged
      <4> QED BY <4>1, <4>2, <1>13
    <3> QED BY <3>1, <3>2
  <2> QED BY <2>1, <2>2 DEF Flagged
<1>15. \A h \in D \ {e - 1} : w[h].free => h \in C \ {b - 1} /\ w[h] = m[h]
  BY <1>2, <1>5, <1>7
<1>16. Tagged(w, D, e) /\ Apart(w, D, e)
  <2> SUFFICES ASSUME NEW h \in D \ {e - 1}, w[h].free
               PROVE  /\ w[h + w[h].size] = w[h]
                      /\ h + w[h].size + 1 # e - 1 /\ ~w[h + w[h].size + 1].free
    BY DEF Tagged, Apart
  <2>1. h \in C \ {b - 1} /\ w[h] = m[h]
    BY <1>15
  <2>2. m[h + m[h].size] = m[h] /\ h + m[h].size + 1 # b - 1 /\ ~m[h + m[h].size + 1].free
    BY <2>1, <1>1 DEF Tagged, Apart
  <2>3. h + m[h].size + 1 \in C
    BY <2>1, <1>6
  <2>4. w[h + m[h].size + 1] = m[h + m[h].size + 1]
    BY <2>2, <2>3, <1>7
  <2> QED BY <2>1, <2>2, <2>3, <2>4, <1>2, <1>7, <1>8
<1>17. Heap(w, D, e)
  BY <1>2, <1>4, <1>12, <1>14, <1>16 DEF Heap
<1>18. Used(w, D, e) = Used(m, C, b) \cup {b - 1}
  <2>1. \A h \in D \ {e - 1} : ~w[h].free <=> h = b - 1 \/ h \in Used(m, C, b)
    BY <1>2, <1>5, <1>7, <1>8 DEF Used
  <2>2. \A h \in Used(m, C, b) \cup {b - 1} : h \in D \ {e - 1}
    BY <1>2, <1>8 DEF Used
  <2> QED BY <2>1, <2>2 DEF Used
<1>19. Keeps(m, w, Used(m, C, b))
  <2> SUFFICES ASSUME NEW g \in C \ {b - 1}
               PROVE  w[g].size = m[g].size /\ \A a \in g + 1 .. g + m[g].size : w[a] = m[a]
    BY DEF Keeps, Used
  <2>1. \A a \in g + 1 .. g + m[g].size : a \in Addr /\ a < b - 1
    BY <1>2, <1>6, <1>8
  <2> QED BY <2>1, <1>3, <1>7
<1> QED BY <1>5, <1>17, <1>18, <1>19 DEF w, e


\* The flags of the block h and of the header after it are set.
LEMMA FlagsSet ==
  ASSUME NEW m, NEW b, NEW C, m \in [Addr -> Word], b \in 1 .. MaxWords,
         Tiled(m, C, b), Flagged(m, C, b), NEW h \in C \ {b - 1},
         NEW x, x = h + m[h].size + 1, NEW w,
         \A a \in Addr : /\ w[a].size = m[a].size /\ w[a].owner = m[a].owner
                         /\ a # x => w[a].prevFree = m[a].prevFree
                         /\ a # h => w[a].free = m[a].free,
         w[x].prevFree <=> w[h].free
  PROVE  Tiled(w, C, b) /\ Flagged(w, C, b)
<1>1. h \in C /\ h # b - 1 /\ x \in C /\ x # h
  BY Places
<1>2. \A g \in C : g \in Addr
  BY Places
<1>3. Tiled(w, C, b)
  BY <1>2 DEF Tiled
<1>4. ~w[0].prevFree
  <2>1. 0 \in C /\ 0 # x
    <3>1. h \in Nat /\ m[h].size \in Nat
      BY <1>1, Places
    <3> QED BY <3>1 DEF Tiled
  <2> QED BY <2>1, <1>2 DEF Flagged
<1>5. ASSUME NEW g \in C \ {b - 1}
      PROVE  w[g + w[g].size + 1].prevFree <=> w[g].free
  <2>1. w[g].size = m[g].size /\ g + m[g].size + 1 \in C /\ g \in Addr
    BY <1>2, Places
  <2>2. CASE g = h
    BY <2>1, <2>2
  <2>3. CASE g # h
    <3>1. g + m[g].size + 1 # x
      <4>1. g >= x \/ g <= h
        BY <1>1, Places
      <4>2. h >= g + m[g].size + 1 \/ h <= g
        BY <1>1, Places
      <4>3. g \in Nat /\ h \in Nat /\ m[g].size \in Nat /\ m[h].size \in Nat
        BY <1>1, Places
      <4> QED BY <4>1, <4>2, <4>3, <2>3
    <3>2. m[g + m[g].size + 1].prevFree <=> m[g].free
      BY DEF Flagged
    <3> QED BY <2>1, <2>3, <3>1, <3>2, <1>2
  <2> QED BY <2>2, <2>3
<1> QED BY <1>3, <1>4, <1>5 DEF Flagged

\* A free block is taken as it is.
LEMMA TakenWhole ==
  ASSUME NEW m, NEW b, NEW C, Heap(m, C, b), NEW h \in C \ {b - 1}, m[h].free,
         NEW n \in Nat, ~splits(m, h, n)
  PROVE  LET w == take(m, h, n)
         IN  /\ Heap(w, C, b) /\ w[h].size = m[h].size
             /\ Used(w, C, b) = Used(m, C, b) \cup {h}
             /\ Keeps(m, w, Used(m, C, b))
<1> DEFINE x == h + m[h].size + 1
           w == setPFree([m EXCEPT ![h].free = FALSE], x, FALSE)
<1>1. /\ m \in [Addr -> Word] /\ b \in 1 .. MaxWords
      /\ Tiled(m, C, b) /\ Flagged(m, C, b) /\ Tagged(m, C, b) /\ Apart(m, C, b)
  BY DEF Heap
<1>2. h \in Addr /\ h \in C
  BY <1>1, Places
<1>3. take(m, h, n) = w
  <2>1. [m EXCEPT ![h].free = FALSE][h].size = m[h].size
    BY <1>1, <1>2 DEF Word
  <2> QED BY <2>1 DEF take, nextHeader
<1>12. x \in C /\ x # h /\ x \in Addr
  BY <1>1, Places
<1>13. m[h] \in Word /\ m[x] \in Word /\ DOMAIN m = Addr
  BY <1>1, <1>2, <1>12
<1>14. /\ w[h] = [m[h] EXCEPT !.free = FALSE] /\ w[x] = [m[x] EXCEPT !.prevFree = FALSE]
       /\ \A a \in Addr : a # h /\ a # x => w[a] = m[a]
       /\ DOMAIN w = Addr /\ w = [a \in Addr |-> w[a]]
  BY <1>2, <1>12, <1>13 DEF setPFree
<1> HIDE DEF w, x
<1>15. /\ w[h] \in Word /\ ~w[h].free /\ w[h].size = m[h].size
       /\ w[h].prevFree = m[h].prevFree /\ w[h].owner = m[h].owner
  <2>1. w[h] = [m[h] EXCEPT !.free = FALSE] /\ m[h] \in Word
    BY <1>13, <1>14
  <2>2. w[h] \in Word
    BY <2>1 DEF Word
  <2>3. ~w[h].free
    BY <2>1 DEF Word
  <2> QED BY <2>1, <2>2, <2>3 DEF Word
<1>16. /\ w[x] \in Word /\ ~w[x].prevFree /\ w[x].size = m[x].size
       /\ w[x].free = m[x].free /\ w[x].owner = m[x].owner
  BY <1>13, <1>14 DEF Word
<1>17. \A a \in Addr : /\ w[a] \in Word
                       /\ w[a].size = m[a].size /\ w[a].owner = m[a].owner
                       /\ a # x => w[a].prevFree = m[a].prevFree
                       /\ a # h => w[a].free = m[a].free
  <2> TAKE a \in Addr
  <2>1. CASE a = h
    BY <2>1, <1>15
  <2>2. CASE a = x
    BY <2>2, <1>16
  <2>3. CASE a # h /\ a # x
    BY <2>3, <1>1, <1>14
  <2> QED BY <2>1, <2>2, <2>3
<1>18. w \in [Addr -> Word]
  BY <1>14, <1>17
<1>19. Tiled(w, C, b) /\ Flagged(w, C, b)
  BY <1>1, <1>15, <1>16, <1>17, FlagsSet DEF x
<1>4. /\ w \in [Addr -> Word] /\ Tiled(w, C, b) /\ Flagged(w, C, b)
      /\ x \in C /\ x # h /\ ~w[h].free
      /\ \A a \in Addr : /\ w[a].size = m[a].size
                         /\ a # h => w[a].free = m[a].free
                         /\ a # h /\ a # x => w[a] = m[a]
  BY <1>12, <1>14, <1>15, <1>17, <1>18, <1>19
<1>5. x # b - 1 /\ ~m[x].free
  BY <1>1 DEF Apart, x
<1>6. \A g \in C \ {b - 1} :
         /\ g \in Addr /\ g \in Nat /\ m[g].size \in Nat /\ g + m[g].size \in Addr
         /\ g + m[g].size + 1 \in C /\ m[g].size > 0
         /\ h <= g \/ h >= g + m[g].size + 1
         /\ x <= g \/ x >= g + m[g].size + 1
  BY <1>1, <1>2, <1>4, Places
<1>7. \A g \in C \ {b - 1} : \A a \in g + 1 .. g + m[g].size : a \in Addr /\ w[a] = m[a]
  <2> TAKE g \in C \ {b - 1}
  <2> TAKE a \in g + 1 .. g + m[g].size
  <2>1. a # h /\ a # x
    BY <1>2, <1>4, <1>6
  <2>2. a \in Addr
    BY <1>6, SizesAssumption DEF Addr
  <2> QED BY <2>1, <2>2, <1>4
<1>8. Tagged(w, C, b) /\ Apart(w, C, b)
  <2> SUFFICES ASSUME NEW g \in C \ {b - 1}, w[g].free
               PROVE  /\ w[g + w[g].size] = w[g]
                      /\ g + w[g].size + 1 # b - 1 /\ ~w[g + w[g].size + 1].free
    BY DEF Tagged, Apart
  <2>1. g # h /\ g # x /\ w[g] = m[g] /\ m[g].free
    BY <1>4, <1>5, <1>6
  <2>2. m[g + m[g].size] = m[g] /\ g + m[g].size + 1 # b - 1 /\ ~m[g + m[g].size + 1].free
    BY <2>1, <1>1 DEF Tagged, Apart
  <2>3. w[g + m[g].size] = m[g + m[g].size]
    BY <1>6, <1>7
  <2>4. g + m[g].size + 1 \in Addr
    BY <1>1, <1>6, Places
  <2>5. ~w[g + m[g].size + 1].free
    BY <2>2, <2>4, <1>4
  <2> QED BY <2>1, <2>2, <2>3, <2>5
<1>9. Heap(w, C, b)
  BY <1>1, <1>4, <1>8 DEF Heap
<1>10. Used(w, C, b) = Used(m, C, b) \cup {h}
  <2>1. \A g \in C \ {b - 1} : ~w[g].free <=> g = h \/ ~m[g].free
    BY <1>4, <1>6
  <2> QED BY <2>1 DEF Used
<1>11. Keeps(m, w, Used(m, C, b))
  BY <1>4, <1>6, <1>7 DEF Keeps, Used
<1> QED BY <1>2, <1>3, <1>4, <1>9, <1>10, <1>11


\* A free block is split: the rest becomes a free block.
LEMMA TakenSplit ==
  ASSUME NEW m, NEW b, NEW C, Heap(m, C, b), NEW h \in C \ {b - 1}, m[h].free,
         NEW n \in Nat, n > 0, splits(m, h, n)
  PROVE  LET w == take(m, h, n)
             D == C \cup {h + n + 1}
         IN  /\ Heap(w, D, b) /\ w[h].size = n
             /\ Used(w, D, b) = Used(m, C, b) \cup {h}
             /\ Keeps(m, w, Used(m, C, b))
<1> DEFINE s == m[h].size
           x == h + s + 1
           y == h + n + 1
           t == h + s
           rest == Header(s - n - 1, FALSE, TRUE)
           D == C \cup {y}
           cut == [m EXCEPT ![h] = Header(n, m[h].prevFree, FALSE), ![y] = rest,
                            ![y + rest.size] = rest]
           w == setPFree(cut, y, FALSE)
<1>1. /\ m \in [Addr -> Word] /\ b \in 1 .. MaxWords
      /\ Tiled(m, C, b) /\ Flagged(m, C, b) /\ Tagged(m, C, b) /\ Apart(m, C, b)
  BY DEF Heap
<1>2. /\ h \in Addr /\ h \in C /\ h # b - 1 /\ h \in Nat /\ s \in 0 .. MaxWords /\ s \in Nat
      /\ x \in C /\ x <= b - 1 /\ t \in Addr
      /\ \A g \in C : g <= h \/ g >= x
  BY <1>1, Places
<1>3. n + 2 <= s
  BY <1>2 DEF splits
<1>4. MaxWords \in Nat /\ Addr = 0 .. MaxWords - 1 /\ b \in Nat /\ b <= MaxWords
  BY <1>1, SizesAssumption DEF Addr
<1>5. /\ y \in Addr /\ h < y /\ y < t /\ t < x /\ x \in Addr /\ y \in Nat /\ t \in Nat /\ x \in Nat
      /\ y + (s - n - 1) = t /\ y + (s - n - 1) + 1 = x /\ s - n - 1 \in 1 .. MaxWords
  <2> HIDE DEF s
  <2>1. h < y /\ y < t /\ t < x /\ y \in Nat /\ t \in Nat /\ x \in Nat
    BY <1>2, <1>3
  <2>2. y + (s - n - 1) = t /\ y + (s - n - 1) + 1 = x /\ s - n - 1 \in 1 .. MaxWords
    BY <1>2, <1>3, <1>4
  <2>3. x < MaxWords
    BY <1>2, <1>4
  <2> HIDE DEF x, y, t
  <2>4. y \in Addr /\ x \in Addr
    BY <2>1, <2>3, <1>2, <1>4
  <2> QED BY <2>1, <2>2, <2>4
<1>6. /\ rest.size = s - n - 1 /\ rest.owner = "header" /\ ~rest.prevFree /\ rest.free
      /\ rest \in Word /\ rest = [rest EXCEPT !.prevFree = FALSE]
  <2> HIDE DEF s
  <2>1. rest = [owner |-> "header", size |-> s - n - 1, prevFree |-> FALSE, free |-> TRUE]
    BY DEF Header, Cell
  <2> HIDE DEF rest
  <2>2. rest \in Word
    BY <2>1, <1>5 DEF Word
  <2>3. rest.size = s - n - 1 /\ rest.owner = "header" /\ ~rest.prevFree /\ rest.free
    BY <2>1
  <2>4. rest.prevFree = FALSE
    BY <2>1
  <2>5. [rest EXCEPT !.prevFree = FALSE] = rest
    BY <2>2, <2>4 DEF Word
  <2> QED BY <2>2, <2>3, <2>5
<1>7. take(m, h, n) = w
  <2>1. cut[h].size = n
    <3>1. cut[h] = Header(n, m[h].prevFree, FALSE)
      <4>1. y + rest.size # h /\ y # h
        <5>1. rest.size = s - n - 1
          BY <1>6
        <5> HIDE DEF rest, y, s, t
        <5> QED BY <5>1, <1>2, <1>5
      <4> HIDE DEF rest, y
      <4> QED BY <4>1, <1>1, <1>2
    <3> QED BY <3>1 DEF Header, Cell
  <2> QED BY <2>1, <1>3 DEF take, nextHeader, splits
<1> HIDE DEF rest
<1>8. /\ w[h] = Header(n, m[h].prevFree, FALSE) /\ w[y] = rest /\ w[t] = rest
      /\ \A a \in Addr : a # h /\ a # y /\ a # t => w[a] = m[a]
      /\ DOMAIN w = Addr /\ w = [a \in Addr |-> w[a]]
  <2>1. rest.size = s - n - 1 /\ y + rest.size = t
    BY <1>5, <1>6
  <2>2. /\ cut[h] = Header(n, m[h].prevFree, FALSE) /\ cut[y] = rest /\ cut[t] = rest
        /\ \A a \in Addr : a # h /\ a # y /\ a # t => cut[a] = m[a]
        /\ DOMAIN cut = Addr /\ cut = [a \in Addr |-> cut[a]]
    <3>1. h # y /\ h # t /\ y # t
      BY <1>2, <1>5
    <3> HIDE DEF y, t
    <3> QED BY <1>1, <1>2, <1>5, <2>1, <3>1
  <2> HIDE DEF cut, y, t
  <2>3. w[y] = [rest EXCEPT !.prevFree = FALSE] /\ \A a \in Addr : a # y => w[a] = cut[a]
    BY <2>2, <1>5 DEF setPFree
  <2>4. DOMAIN w = Addr /\ w = [a \in Addr |-> w[a]]
    BY <2>2 DEF setPFree
  <2> HIDE DEF w
  <2>5. w[y] = rest
    BY <2>3, <1>6
  <2> QED BY <2>2, <2>3, <2>4, <2>5, <1>2, <1>5
<1> HIDE DEF w
<1>9. /\ w[h].size = n /\ w[h].owner = "header" /\ w[h].prevFree = m[h].prevFree /\ ~w[h].free
      /\ w[h] \in Word
  <2>1. w[h] = Header(n, m[h].prevFree, FALSE)
    BY <1>8
  <2>2. m[h].prevFree \in BOOLEAN /\ n \in 0 .. MaxWords
    BY <1>1, <1>2, <1>3, <1>4 DEF Word
  <2> QED BY <2>1, <2>2 DEF Header, Cell, Word
<1>10. w \in [Addr -> Word]
  <2>1. \A a \in Addr : w[a] \in Word
    BY <1>1, <1>6, <1>8, <1>9
  <2> QED BY <2>1, <1>8
<1>11. \A g \in C : /\ g \in Addr /\ g \in Nat /\ g # y /\ g # t /\ m[g].size \in Nat
                    /\ g # h => w[g] = m[g]
                    /\ g <= b - 1
  <2> TAKE g \in C
  <2>1. g \in Addr /\ g \in Nat /\ m[g].size \in Nat /\ g <= b - 1
    BY <1>1, Places
  <2>2. g # y /\ g # t
    BY <2>1, <1>2, <1>5
  <2> QED BY <2>1, <2>2, <1>8
<1>12. \A g \in C \ {b - 1} :
         /\ g + m[g].size \in Addr /\ m[g].size > 0 /\ g + m[g].size + 1 \in C
         /\ \A k \in C : k <= g \/ k >= g + m[g].size + 1
         /\ g # h => g + m[g].size < h \/ g >= x
  <2> TAKE g \in C \ {b - 1}
  <2>1. /\ g + m[g].size \in Addr /\ m[g].size > 0 /\ g + m[g].size + 1 \in C
        /\ \A k \in C : k <= g \/ k >= g + m[g].size + 1
    BY <1>1, Places
  <2>2. g # h => g + m[g].size < h \/ g >= x
    BY <2>1, <1>2, <1>5, <1>11
  <2> QED BY <2>1, <2>2
<1>13. \A g \in C \ {h, b - 1} : \A a \in g + 1 .. g + m[g].size : a \in Addr /\ w[a] = m[a]
  <2> TAKE g \in C \ {h, b - 1}
  <2> TAKE a \in g + 1 .. g + m[g].size
  <2>1. g \in Nat /\ m[g].size \in Nat /\ g + m[g].size \in Addr /\ (g + m[g].size < h \/ g >= x)
    BY <1>11, <1>12
  <2>2. a \in Nat /\ a > g /\ a <= g + m[g].size
    BY <2>1
  <2>3. a \in Addr
    <3> DEFINE e == g + m[g].size
    <3>1. e <= MaxWords - 1 /\ e \in Int /\ a <= e
      BY <2>1, <2>2, <1>4
    <3> HIDE DEF e
    <3> QED BY <3>1, <2>2, <1>4
  <2>4. a < h \/ a > x
    BY <2>1, <2>2, <1>2, <1>5
  <2>5. a # h /\ a # y /\ a # t
    <3> HIDE DEF x, y, t
    <3> QED BY <2>2, <2>4, <1>2, <1>5
  <2> QED BY <2>3, <2>5, <1>8
<1>14. w[y].size = s - n - 1 /\ w[y].owner = "header" /\ ~w[y].prevFree /\ w[y].free
  BY <1>6, <1>8
<1> HIDE DEF s, x, y, t, D
<1>15. D \in SUBSET (0 .. b - 1) /\ 0 \in D /\ b - 1 \in D /\ y # b - 1 /\ y \in D /\ y \notin C
  BY <1>1, <1>2, <1>5, <1>11 DEF Tiled, D
<1>16. \A g \in D : w[g].owner = "header" /\ (w[g].size = 0 <=> g = b - 1)
  <2> TAKE g \in D
  <2>1. CASE g = y
    BY <2>1, <1>5, <1>14, <1>15
  <2>2. CASE g = h
    BY <2>2, <1>2, <1>9
  <2>3. CASE g \in C \ {h}
    BY <2>3, <1>1, <1>11 DEF Tiled
  <2> QED BY <2>1, <2>2, <2>3 DEF D
<1>17. \A g \in D \ {b - 1} : /\ g + w[g].size + 1 \in D
                              /\ \A k \in D : k <= g \/ k >= g + w[g].size + 1
  <2> TAKE g \in D \ {b - 1}
  <2>1. CASE g = y
    <3>1. g + w[g].size + 1 = x
      BY <2>1, <1>5, <1>14
    <3>2. \A k \in C : k <= y \/ k >= x
      BY <1>2, <1>5, <1>11
    <3> QED BY <2>1, <3>1, <3>2, <1>2, <1>5 DEF D
  <2>2. CASE g = h
    <3>1. g + w[g].size + 1 = y
      BY <2>2, <1>9 DEF y
    <3>2. \A k \in C : k <= h \/ k >= y
      BY <1>2, <1>5, <1>11
    <3> QED BY <2>2, <3>1, <3>2, <1>5 DEF D
  <2>3. CASE g \in C \ {h}
    <3>1. w[g] = m[g] /\ g + m[g].size + 1 \in C
      BY <2>3, <1>11, <1>12
    <3>2. \A k \in C : k <= g \/ k >= g + m[g].size + 1
      BY <2>3, <1>12
    <3>3. y <= g \/ y >= g + m[g].size + 1
      BY <2>3, <1>2, <1>5, <1>11, <1>12
    <3> QED BY <3>1, <3>2, <3>3 DEF D
  <2> QED BY <2>1, <2>2, <2>3 DEF D
<1>18. Tiled(w, D, b)
  BY <1>15, <1>16, <1>17 DEF Tiled
<1>19. /\ h + w[h].size + 1 = y /\ y + w[y].size + 1 = x /\ y + w[y].size = t
       /\ w[x] = m[x] /\ x # b - 1 /\ ~m[x].free /\ m[x].prevFree
  <2>1. w[x] = m[x]
    BY <1>2, <1>5, <1>11
  <2>2. x # b - 1 /\ ~m[x].free
    BY <1>1 DEF Apart, x, s
  <2>3. m[x].prevFree
    BY <1>1 DEF Flagged, x, s
  <2>4. h + w[h].size + 1 = y
    BY <1>9 DEF y
  <2> QED BY <2>1, <2>2, <2>3, <2>4, <1>5, <1>14
<1>20. Flagged(w, D, b)
  <2>1. ~w[0].prevFree
    BY <1>1, <1>9, <1>11 DEF Flagged, Tiled
  <2>2. ASSUME NEW g \in D \ {b - 1}
        PROVE  w[g + w[g].size + 1].prevFree <=> w[g].free
    <3>1. CASE g = y
      BY <3>1, <1>14, <1>19
    <3>2. CASE g = h
      BY <3>2, <1>9, <1>14, <1>19
    <3>3. CASE g \in C \ {h}
      <4>1. w[g] = m[g] /\ g + m[g].size + 1 \in C
        BY <3>3, <1>11, <1>12
      <4>2. w[g + m[g].size + 1].prevFree = m[g + m[g].size + 1].prevFree
        BY <4>1, <1>9, <1>11
      <4>3. m[g + m[g].size + 1].prevFree <=> m[g].free
        BY <3>3, <1>1 DEF Flagged
      <4> QED BY <4>1, <4>2, <4>3
    <3> QED BY <3>1, <3>2, <3>3 DEF D
  <2> QED BY <2>1, <2>2 DEF Flagged
<1>21. Tagged(w, D, b) /\ Apart(w, D, b)
  <2> SUFFICES ASSUME NEW g \in D \ {b - 1}, w[g].free
               PROVE  /\ w[g + w[g].size] = w[g]
                      /\ g + w[g].size + 1 # b - 1 /\ ~w[g + w[g].size + 1].free
    BY DEF Tagged, Apart
  <2>1. CASE g = y
    BY <2>1, <1>8, <1>19
  <2>2. CASE g \in C \ {h}
    <3>1. w[g] = m[g] /\ g + m[g].size + 1 \in C
      BY <2>2, <1>11, <1>12
    <3>2. m[g + m[g].size] = m[g] /\ g + m[g].size + 1 # b - 1 /\ ~m[g + m[g].size + 1].free
      BY <3>1, <2>2, <1>1 DEF Tagged, Apart
    <3>3. w[g + m[g].size] = m[g + m[g].size]
      <4>1. g + m[g].size \in g + 1 .. g + m[g].size
        BY <2>2, <1>11, <1>12
      <4> QED BY <4>1, <2>2, <1>13
    <3>4. ~w[g + m[g].size + 1].free
      BY <3>1, <3>2, <1>9, <1>11
    <3> QED BY <3>1, <3>2, <3>3, <3>4
  <2> QED BY <2>1, <2>2, <1>9 DEF D
<1>22. Heap(w, D, b)
  BY <1>1, <1>10, <1>18, <1>20, <1>21 DEF Heap
<1>23. Used(w, D, b) = Used(m, C, b) \cup {h}
  <2>1. \A g \in D \ {b - 1} : ~w[g].free <=> g = h \/ g \in Used(m, C, b)
    BY <1>9, <1>11, <1>14, <1>15 DEF Used, D
  <2>2. \A g \in Used(m, C, b) \cup {h} : g \in D \ {b - 1}
    BY <1>2 DEF Used, D
  <2> QED BY <2>1, <2>2 DEF Used
<1>24. Keeps(m, w, Used(m, C, b))
  <2>1. \A g \in Used(m, C, b) : g \in C \ {h, b - 1}
    BY DEF Used
  <2> QED BY <2>1, <1>11, <1>13 DEF Keeps
<1> QED BY <1>7, <1>9, <1>22, <1>23, <1>24 DEF y, D

\* The addresses of the headers and blocks of a heap.
LEMMA HeapPlaces ==
  ASSUME NEW m, NEW b, NEW C, Heap(m, C, b)
  PROVE  /\ m \in [Addr -> Word] /\ b \in 1 .. MaxWords /\ b \in Nat
         /\ C \in SUBSET Addr /\ C \in SUBSET Nat /\ \A h \in C : h <= b - 1
<1>1. /\ m \in [Addr -> Word] /\ b \in 1 .. MaxWords /\ C \in SUBSET (0 .. b - 1)
  BY DEF Heap, Tiled
<1>2. b \in Nat /\ b <= MaxWords /\ MaxWords \in Nat
  BY <1>1, SizesAssumption
<1>3. \A h \in 0 .. b - 1 : h \in Addr /\ h \in Nat /\ h <= b - 1
  BY <1>2 DEF Addr
<1> QED BY <1>1, <1>2, <1>3

\* malloc finds or makes a block with enough space and leaves the others alone; when it
\* extends the heap, what sbrk gives follows the end of the list.
LEMMA BlockFound ==
  ASSUME NEW m, NEW b, NEW C, Heap(m, C, b), NEW n \in Nat, n > 0,
         NEW r, r = Malloced(m, b, n)
  PROVE  /\ r.ok
         /\ r.Brk <= MaxWords =>
              \E D : /\ Heap(r.mem, D, r.Brk) /\ r.head \notin Used(m, C, b)
                     /\ Used(r.mem, D, r.Brk) = Used(m, C, b) \cup {r.head}
                     /\ r.mem[r.head].size >= n
                     /\ Keeps(m, r.mem, Used(m, C, b))
<1> DEFINE h == FirstFit(m, n)
<1>1. h \in C /\ Fits(m, h, n)
  BY FitFound
<1> HIDE DEF h
<1>2. /\ h \in Nat /\ m[h].size \in Nat /\ (m[h].size = 0 <=> h = b - 1) /\ b \in Nat
  <2>1. /\ m \in [Addr -> Word] /\ b \in 1 .. MaxWords /\ Tiled(m, C, b)
    BY DEF Heap
  <2>2. b \in Nat
    BY HeapPlaces
  <2> QED BY <2>1, <2>2, <1>1, Places DEF Tiled
<1>3. CASE m[h].size = 0
  <2>1. h = b - 1 /\ headerToPtr(h) = b
    BY <1>2, <1>3 DEF headerToPtr
  <2>2. r.mem = extend(m, b - 1, n) /\ r.Brk = b + n + 1 /\ r.head = b - 1 /\ r.ok
    BY <1>3, <2>1 DEF Malloced, h
  <2>3. ASSUME r.Brk <= MaxWords
        PROVE  \E D : /\ Heap(r.mem, D, r.Brk) /\ r.mem[r.head].size >= n
                      /\ Used(r.mem, D, r.Brk) = Used(m, C, b) \cup {r.head}
                      /\ Keeps(m, r.mem, Used(m, C, b))
    <3> DEFINE D == C \cup {b + n}
    <3>1. LET w == extend(m, b - 1, n)
          IN  /\ Heap(w, D, b + n + 1) /\ w[b - 1].size = n
              /\ Used(w, D, b + n + 1) = Used(m, C, b) \cup {b - 1}
              /\ Keeps(m, w, Used(m, C, b))
      BY <2>2, <2>3, Extended
    <3> HIDE DEF D
    <3> QED BY <2>2, <3>1
  <2>4. r.head \notin Used(m, C, b)
    BY <2>2 DEF Used
  <2> QED BY <2>2, <2>3, <2>4
<1>4. CASE m[h].size # 0
  <2>1. /\ r.mem = take(m, h, n) /\ r.Brk = b /\ r.head = h /\ r.ok
    BY <1>4 DEF Malloced, h
  <2>2. h \in C \ {b - 1} /\ m[h].free /\ m[h].size >= n
    BY <1>1, <1>2, <1>4 DEF Fits
  <2>3. r.head \notin Used(m, C, b)
    BY <2>1, <2>2 DEF Used
  <2>4. \E D : /\ Heap(r.mem, D, b) /\ Used(r.mem, D, b) = Used(m, C, b) \cup {h}
               /\ r.mem[h].size >= n /\ Keeps(m, r.mem, Used(m, C, b))
    <3>1. CASE splits(m, h, n)
      <4> DEFINE D == C \cup {h + n + 1}
      <4>1. /\ Heap(r.mem, D, b) /\ Used(r.mem, D, b) = Used(m, C, b) \cup {h}
            /\ r.mem[h].size = n /\ Keeps(m, r.mem, Used(m, C, b))
        <5>1. LET w == take(m, h, n)
              IN  /\ Heap(w, D, b) /\ w[h].size = n
                  /\ Used(w, D, b) = Used(m, C, b) \cup {h}
                  /\ Keeps(m, w, Used(m, C, b))
          BY <1>1, <2>2, <3>1, TakenSplit
        <5> QED BY <5>1, <2>1
      <4> HIDE DEF D
      <4> QED BY <4>1
    <3>2. CASE ~splits(m, h, n)
      BY <2>1, <2>2, <3>2, TakenWhole
    <3> QED BY <3>1, <3>2
  <2> QED BY <2>1, <2>3, <2>4
<1> QED BY <1>3, <1>4

\* The words of a block lie between its header and the next one.
LEMMA Inside ==
  ASSUME NEW m, NEW b, NEW C, m \in [Addr -> Word], b \in 1 .. MaxWords, Tiled(m, C, b),
         NEW g \in C \ {b - 1}, NEW a \in g + 1 .. g + m[g].size
  PROVE  a \in Addr /\ a \in Nat /\ a > g /\ a <= g + m[g].size /\ \A k \in C : k <= g \/ k > a
<1> DEFINE s == m[g].size
<1>1. /\ g \in Nat /\ s \in Nat /\ g + s \in Addr
      /\ \A k \in C : k <= g \/ k >= g + s + 1
  BY Places
<1>2. \A k \in C : k \in Nat
  BY Places
<1> HIDE DEF s
<1>3. a \in g + 1 .. g + s
  BY DEF s
<1>4. a \in Nat /\ a > g /\ a <= g + s
  BY <1>1, <1>3
<1>5. a \in Addr
  <2> DEFINE e == g + s
  <2>1. e \in Addr /\ a <= e
    BY <1>1, <1>4
  <2> HIDE DEF e
  <2> QED BY <2>1, <1>4, SizesAssumption DEF Addr
<1>6. \A k \in C : k <= g \/ k > a
  BY <1>1, <1>2, <1>4
<1> QED BY <1>4, <1>5, <1>6 DEF s

\* Memory w is m but for what is in the block h.
WritesIn(m, C, b, h, w) ==
  /\ m \in [Addr -> Word] /\ b \in 1 .. MaxWords /\ Tiled(m, C, b) /\ Flagged(m, C, b)
  /\ h \in C \ {b - 1} /\ \A a \in Addr : a <= h \/ a > h + m[h].size => w[a] = m[a]

\* The headers and the other blocks are kept.
KeepsAll(m, C, b, h, w) ==
  /\ Tiled(w, C, b) /\ Flagged(w, C, b) /\ \A g \in C : w[g] = m[g]
  /\ \A g \in C \ {h, b - 1} : \A a \in g + 1 .. g + m[g].size : w[a] = m[a]

\* Writing inside the block h keeps them.
LEMMA Rewritten ==
  ASSUME NEW m, NEW b, NEW C, NEW h, NEW w, WritesIn(m, C, b, h, w)
  PROVE  KeepsAll(m, C, b, h, w)
<1>0. /\ m \in [Addr -> Word] /\ b \in 1 .. MaxWords /\ Tiled(m, C, b) /\ Flagged(m, C, b)
      /\ h \in C \ {b - 1} /\ \A a \in Addr : a <= h \/ a > h + m[h].size => w[a] = m[a]
  BY DEF WritesIn
<1>1. /\ h \in Nat /\ m[h].size \in Nat /\ h \in C
      /\ \A k \in C : k \in Addr /\ k \in Nat /\ (k <= h \/ k >= h + m[h].size + 1)
  BY <1>0, Places
<1>2. \A g \in C : w[g] = m[g]
  BY <1>0, <1>1
<1>3. Tiled(w, C, b)
  BY <1>0, <1>2 DEF Tiled
<1>4. Flagged(w, C, b)
  <2>1. ~w[0].prevFree
    BY <1>0, <1>2 DEF Flagged, Tiled
  <2>2. ASSUME NEW g \in C \ {b - 1}
        PROVE  w[g + w[g].size + 1].prevFree <=> w[g].free
    <3>1. g + m[g].size + 1 \in C
      BY <1>0, Places
    <3>2. w[g] = m[g] /\ w[g + m[g].size + 1] = m[g + m[g].size + 1]
      BY <1>2, <3>1
    <3>3. m[g + m[g].size + 1].prevFree <=> m[g].free
      BY <1>0 DEF Flagged
    <3> QED BY <3>2, <3>3
  <2> QED BY <2>1, <2>2 DEF Flagged
<1>5. ASSUME NEW g \in C \ {h, b - 1}, NEW a \in g + 1 .. g + m[g].size
      PROVE  w[a] = m[a]
  <2>1. a \in Addr /\ a \in Nat /\ a > g /\ (h <= g \/ h > a) /\ g # h
    BY <1>0, <1>1, Inside
  <2>2. g <= h \/ g >= h + m[h].size + 1
    BY <1>1
  <2>3. g \in Nat
    BY <1>1
  <2>4. a <= h \/ a > h + m[h].size
    BY <1>1, <2>1, <2>2, <2>3
  <2> QED BY <1>0, <2>1, <2>4
<1> QED BY <1>2, <1>3, <1>4, <1>5 DEF KeepsAll

-----------------------------------------------------------------------------
(* free: the heap after a block is released.                                 *)

\* The block before a header that says that there is a free one.
LEMMA Before ==
  ASSUME NEW m, NEW b, NEW C, m \in [Addr -> Word], b \in 1 .. MaxWords,
         Tiled(m, C, b), Flagged(m, C, b), NEW h \in C, m[h].prevFree
  PROVE  \E g \in C \ {b - 1} : g + m[g].size + 1 = h /\ m[g].free
<1> DEFINE T == {g \in C : g < h}
<1>1. /\ C \in SUBSET Addr
      /\ \A k \in C : k \in Nat /\ k <= b - 1 /\ m[k].size \in Nat
  BY Places
<1>2. h # 0 /\ 0 \in C
  BY DEF Flagged, Tiled
<1>3. 0 \in T
  BY <1>1, <1>2
<1>4. PICK g \in T : \A k \in T : k <= g
  BY <1>1, <1>3, Greatest
<1>5. g \in C \ {b - 1}
  BY <1>1, <1>4
<1>6. g + m[g].size + 1 \in C /\ h >= g + m[g].size + 1
  BY <1>1, <1>4, <1>5, Places
<1>7. g + m[g].size + 1 = h
  <2> DEFINE x == g + m[g].size + 1
  <2>1. x > g /\ x \in C /\ h >= x /\ x \in Nat /\ h \in Nat /\ g \in Nat
    BY <1>1, <1>4, <1>6
  <2> HIDE DEF x
  <2>2. x \notin T
    BY <1>4, <2>1
  <2>3. x = h
    BY <2>1, <2>2
  <2> QED BY <2>3 DEF x
<1>8. m[g].free
  BY <1>5, <1>7 DEF Flagged
<1> QED BY <1>5, <1>7, <1>8

\* The block h takes the words of its neighbour x.
Join(m, h, x) == [m EXCEPT ![h].size = @ + m[x].size + 1]

\* The blocks h and x are free neighbours.
Joinable(m, C, b, h, x) ==
  /\ m \in [Addr -> Word] /\ b \in 1 .. MaxWords /\ Tiled(m, C, b) /\ Flagged(m, C, b)
  /\ h \in C \ {b - 1} /\ m[h].free /\ x = h + m[h].size + 1 /\ x # b - 1 /\ m[x].free

\* The memory w when x has been joined to h.
JoinOf(m, C, b, h, x, w) ==
  /\ w \in [Addr -> Word] /\ Tiled(w, C \ {x}, b) /\ Flagged(w, C \ {x}, b)
  /\ h # x /\ x \in C /\ h + w[h].size + 1 = x + m[x].size + 1
  /\ w[h].prevFree = m[h].prevFree /\ w[h].free
  /\ \A a \in Addr : a # h => w[a] = m[a]
  /\ \A g \in C \ {h, b - 1} : g + m[g].size + 1 # x

\* Two free neighbours become one block.
LEMMA Joined ==
  ASSUME NEW m, NEW b, NEW C, NEW h, NEW x, Joinable(m, C, b, h, x),
         NEW w, w = Join(m, h, x)
  PROVE  JoinOf(m, C, b, h, x, w)
<1> DEFINE D == C \ {x}
           y == x + m[x].size + 1
<1>0. /\ m \in [Addr -> Word] /\ b \in 1 .. MaxWords /\ Tiled(m, C, b) /\ Flagged(m, C, b)
      /\ h \in C \ {b - 1} /\ m[h].free /\ x = h + m[h].size + 1 /\ x # b - 1 /\ m[x].free
  BY DEF Joinable
<1>1. \A g \in C : /\ g \in Addr /\ g \in Nat /\ m[g].size \in Nat /\ g <= b - 1
                   /\ g # b - 1 => /\ m[g].size > 0 /\ g + m[g].size + 1 \in C
                                   /\ g + m[g].size + 1 <= b - 1
                                   /\ \A k \in C : k <= g \/ k >= g + m[g].size + 1
  BY <1>0, Places
<1>2. x \in C /\ x > h /\ x \in Nat /\ \A k \in C : k <= h \/ k >= x
  BY <1>0, <1>1
<1>3. y \in C /\ y > x /\ y \in Nat /\ \A k \in C : k <= x \/ k >= y
  BY <1>0, <1>1, <1>2
<1>4. y <= b - 1 /\ b \in Nat /\ b <= MaxWords /\ MaxWords \in Nat
  BY <1>0, <1>1, <1>2, SizesAssumption
<1>5. h + (m[h].size + m[x].size + 1) + 1 = y
  BY <1>0, <1>1, <1>2
<1>6. m[h].size + m[x].size + 1 \in 0 .. MaxWords
  BY <1>0, <1>1, <1>2, <1>4, <1>5
<1>7. /\ w[h] = [m[h] EXCEPT !.size = m[h].size + m[x].size + 1]
      /\ \A a \in Addr : a # h => w[a] = m[a]
      /\ DOMAIN w = Addr /\ w = [a \in Addr |-> w[a]]
  BY <1>0, <1>1 DEF Join
<1>8. m[h] \in Word
  BY <1>0, <1>1
<1> HIDE DEF y
<1>9. /\ w[h] \in Word /\ w[h].size = m[h].size + m[x].size + 1 /\ w[h].owner = m[h].owner
      /\ w[h].prevFree = m[h].prevFree /\ w[h].free
  BY <1>0, <1>6, <1>7, <1>8 DEF Word
<1>10. w \in [Addr -> Word]
  <2>1. \A a \in Addr : w[a] \in Word
    BY <1>0, <1>7, <1>9
  <2> QED BY <2>1, <1>7
<1>11. h + w[h].size + 1 = y
  BY <1>5, <1>9
<1>12. \A g \in C \ {h} : w[g] = m[g]
  BY <1>0, <1>1, <1>7
<1>13. \A g \in C \ {h, b - 1} : g + m[g].size + 1 # x
  <2> TAKE g \in C \ {h, b - 1}
  <2>1. g \in Nat /\ h \in Nat /\ m[g].size \in Nat /\ g # h
    BY <1>0, <1>1
  <2>2. h <= g \/ h >= g + m[g].size + 1
    BY <1>0, <1>1
  <2>3. g <= h \/ g >= x
    BY <1>2
  <2> QED BY <2>1, <2>2, <2>3, <1>2
<1>14. D \in SUBSET (0 .. b - 1) /\ 0 \in D /\ b - 1 \in D
  <2>1. C \in SUBSET (0 .. b - 1) /\ 0 \in C /\ b - 1 \in C
    BY <1>0 DEF Tiled
  <2>2. x # 0 /\ x # b - 1
    BY <1>0, <1>1, <1>2
  <2> QED BY <2>1, <2>2
<1>15. \A g \in D : w[g].owner = "header" /\ (w[g].size = 0 <=> g = b - 1)
  <2> TAKE g \in D
  <2>1. CASE g = h
    <3>1. w[h].size = m[h].size + m[x].size + 1 /\ w[h].owner = m[h].owner
      BY <1>9
    <3>2. m[h].size \in Nat /\ m[x].size \in Nat /\ h # b - 1
      BY <1>0, <1>1, <1>2
    <3>3. m[h].owner = "header"
      BY <1>0 DEF Tiled
    <3> QED BY <2>1, <3>1, <3>2, <3>3
  <2>2. CASE g # h
    BY <2>2, <1>0, <1>12 DEF Tiled
  <2> QED BY <2>1, <2>2
<1>16. \A g \in D \ {b - 1} : /\ g + w[g].size + 1 \in D
                              /\ \A k \in D : k <= g \/ k >= g + w[g].size + 1
  <2> TAKE g \in D \ {b - 1}
  <2>1. CASE g = h
    <3>1. \A k \in D : k <= h \/ k >= y
      <4> TAKE k \in D
      <4>1. k \in C /\ k # x /\ k \in Nat
        BY <1>0, <1>1
      <4>2. (k <= h \/ k >= x) /\ (k <= x \/ k >= y)
        BY <4>1, <1>2, <1>3
      <4> QED BY <4>1, <4>2, <1>2
    <3> QED BY <2>1, <3>1, <1>3, <1>11
  <2>2. CASE g # h
    <3>1. w[g] = m[g] /\ g + m[g].size + 1 \in C /\ g + m[g].size + 1 # x
      BY <2>2, <1>1, <1>12, <1>13
    <3>2. \A k \in C : k <= g \/ k >= g + m[g].size + 1
      BY <1>0, <1>1
    <3> QED BY <3>1, <3>2
  <2> QED BY <2>1, <2>2
<1>17. Tiled(w, D, b)
  BY <1>14, <1>15, <1>16 DEF Tiled
<1>18. Flagged(w, D, b)
  <2>1. ~w[0].prevFree
    <3>1. ~m[0].prevFree /\ 0 \in C
      BY <1>0 DEF Flagged, Tiled
    <3> QED BY <3>1, <1>9, <1>12
  <2>2. ASSUME NEW g \in D \ {b - 1}
        PROVE  w[g + w[g].size + 1].prevFree <=> w[g].free
    <3>1. CASE g = h
      <4>1. m[y].prevFree <=> m[x].free
        BY <1>0, <1>2 DEF Flagged, y
      <4>2. w[y] = m[y]
        BY <1>2, <1>3, <1>1, <1>12
      <4> QED BY <3>1, <4>1, <4>2, <1>0, <1>9, <1>11
    <3>2. CASE g # h
      <4>1. w[g] = m[g] /\ g + m[g].size + 1 \in C
        BY <3>2, <1>1, <1>12
      <4>2. m[g + m[g].size + 1].prevFree <=> m[g].free
        BY <1>0 DEF Flagged
      <4>3. w[g + m[g].size + 1].prevFree = m[g + m[g].size + 1].prevFree
        BY <4>1, <1>9, <1>12
      <4> QED BY <4>1, <4>2, <4>3
    <3> QED BY <3>1, <3>2
  <2> QED BY <2>1, <2>2 DEF Flagged
<1> QED BY <1>0, <1>2, <1>7, <1>9, <1>10, <1>11, <1>13, <1>17, <1>18 DEF y, JoinOf

\* The block h is being freed: it may have a free block before it, and lacks its tag.
Freeing(m, C, b, h) ==
  /\ m \in [Addr -> Word] /\ b \in 1 .. MaxWords /\ Tiled(m, C, b) /\ Flagged(m, C, b)
  /\ h \in C \ {b - 1} /\ m[h].free
  /\ \A g \in C \ {h, b - 1} : m[g].free =>
       LET x == g + m[g].size + 1
       IN  m[g + m[g].size] = m[g] /\ x # b - 1 /\ (x = h \/ ~m[x].free)

\* There is no free block after it.
LastFree(m, b, h) == LET x == h + m[h].size + 1 IN x = b - 1 \/ ~m[x].free

\* free marks the block and tells the next one.
LEMMA Marked ==
  ASSUME NEW m, NEW b, NEW C, Heap(m, C, b), NEW h \in Used(m, C, b),
         NEW x, x = h + m[h].size + 1, NEW w, w = mark(m, h)
  PROVE  /\ w \in [Addr -> Word] /\ Tiled(w, C, b) /\ Flagged(w, C, b) /\ w[h].free
         /\ x \in C /\ x # h
         /\ \A a \in Addr : /\ w[a].size = m[a].size
                            /\ a # h => w[a].free = m[a].free
                            /\ a # h /\ a # x => w[a] = m[a]
<1>1. /\ m \in [Addr -> Word] /\ b \in 1 .. MaxWords /\ Tiled(m, C, b) /\ Flagged(m, C, b)
      /\ h \in C \ {b - 1}
  BY DEF Heap, Used
<1>2. h \in Addr /\ x \in C /\ x \in Addr /\ x # h
  BY <1>1, Places
<1>3. m[h] \in Word /\ m[x] \in Word /\ DOMAIN m = Addr
  BY <1>1, <1>2
<1>4. w = setPFree([m EXCEPT ![h].free = TRUE], x, TRUE)
  BY DEF mark, nextHeader
<1>5. /\ w[h] = [m[h] EXCEPT !.free = TRUE] /\ w[x] = [m[x] EXCEPT !.prevFree = TRUE]
      /\ \A a \in Addr : a # h /\ a # x => w[a] = m[a]
      /\ DOMAIN w = Addr /\ w = [a \in Addr |-> w[a]]
  BY <1>2, <1>3, <1>4 DEF setPFree
<1>6. /\ w[h] \in Word /\ w[h].free /\ w[h].size = m[h].size
      /\ w[h].prevFree = m[h].prevFree /\ w[h].owner = m[h].owner
  BY <1>3, <1>5 DEF Word
<1>7. /\ w[x] \in Word /\ w[x].prevFree /\ w[x].size = m[x].size
      /\ w[x].free = m[x].free /\ w[x].owner = m[x].owner
  BY <1>3, <1>5 DEF Word
<1>8. \A a \in Addr : /\ w[a] \in Word
                      /\ w[a].size = m[a].size /\ w[a].owner = m[a].owner
                      /\ a # x => w[a].prevFree = m[a].prevFree
                      /\ a # h => w[a].free = m[a].free
  <2> TAKE a \in Addr
  <2>1. CASE a = h
    BY <2>1, <1>6
  <2>2. CASE a = x
    BY <2>2, <1>7
  <2>3. CASE a # h /\ a # x
    BY <2>3, <1>1, <1>5
  <2> QED BY <2>1, <2>2, <2>3
<1>9. w \in [Addr -> Word]
  BY <1>5, <1>8
<1>10. Tiled(w, C, b) /\ Flagged(w, C, b)
  BY <1>1, <1>6, <1>7, <1>8, FlagsSet
<1> QED BY <1>2, <1>5, <1>6, <1>8, <1>9, <1>10

\* free merges the block with the next one.
LEMMA NextMerged ==
  ASSUME NEW m, NEW b, NEW C, Heap(m, C, b), NEW h \in Used(m, C, b),
         NEW v, v = mergeNext(mark(m, h), h)
  PROVE  \E D : /\ Freeing(v, D, b, h) /\ LastFree(v, b, h)
                /\ Used(v, D, b) = Used(m, C, b) \ {h}
                /\ Keeps(m, v, Used(m, C, b) \ {h})
<1> DEFINE w == mark(m, h)
           x == h + m[h].size + 1
<1>1. /\ m \in [Addr -> Word] /\ b \in 1 .. MaxWords /\ h \in C \ {b - 1} /\ ~m[h].free
      /\ Tiled(m, C, b) /\ Flagged(m, C, b) /\ Tagged(m, C, b) /\ Apart(m, C, b)
  BY DEF Heap, Used
<1>2. /\ w \in [Addr -> Word] /\ Tiled(w, C, b) /\ Flagged(w, C, b) /\ w[h].free
      /\ x \in C /\ x # h
      /\ \A a \in Addr : /\ w[a].size = m[a].size
                         /\ a # h => w[a].free = m[a].free
                         /\ a # h /\ a # x => w[a] = m[a]
  BY Marked
<1> HIDE DEF w
<1>3. \A g \in C : /\ g \in Addr /\ g \in Nat /\ (m[g].size = 0 <=> g = b - 1)
                   /\ g # b - 1 => /\ m[g].size \in Nat /\ m[g].size > 0
                                   /\ g + m[g].size + 1 \in C
  <2>1. \A g \in C : m[g].size = 0 <=> g = b - 1
    BY <1>1 DEF Tiled
  <2> QED BY <2>1, <1>1, Places
<1>4. x = h + w[h].size + 1 /\ v = mergeNext(w, h) /\ x = nextHeader(w, h) /\ x > h /\ h \in Nat
  BY <1>1, <1>2, <1>3 DEF w, nextHeader
<1> HIDE DEF x
<1>5. \A g \in C \ {h, b - 1} : \A a \in g + 1 .. g + m[g].size :
         a \in Addr /\ a # h /\ w[a] = m[a]
  <2> TAKE g \in C \ {h, b - 1}
  <2> TAKE a \in g + 1 .. g + m[g].size
  <2>1. a \in Addr /\ a \in Nat /\ a > g /\ (h <= g \/ h > a) /\ (x <= g \/ x > a)
    BY <1>1, <1>2, Inside
  <2>2. g \in Nat /\ h \in Nat /\ x \in Nat
    BY <1>1, <1>2, <1>3
  <2>3. a # h /\ a # x
    BY <2>1, <2>2
  <2> QED BY <2>1, <2>3, <1>2
<1>6. ASSUME NEW g \in C \ {h, x, b - 1}, w[g].free
      PROVE  LET y == g + m[g].size + 1
             IN  /\ w[g] = m[g] /\ w[g + m[g].size] = m[g]
                 /\ y \in C /\ y # b - 1 /\ (y = h \/ ~w[y].free)
  <2>1. w[g] = m[g] /\ m[g].free
    BY <1>2, <1>3, <1>6
  <2>2. m[g + m[g].size] = m[g] /\ g + m[g].size + 1 # b - 1 /\ ~m[g + m[g].size + 1].free
    BY <1>1, <2>1 DEF Tagged, Apart
  <2>3. g + m[g].size \in g + 1 .. g + m[g].size
    BY <1>3
  <2>4. w[g + m[g].size] = m[g]
    BY <1>5, <2>2, <2>3
  <2>5. g + m[g].size + 1 \in C
    BY <1>3
  <2>6. g + m[g].size + 1 = h \/ ~w[g + m[g].size + 1].free
    BY <1>2, <1>3, <2>2, <2>5
  <2> QED BY <2>1, <2>2, <2>4, <2>5, <2>6
<1>7. \A g \in C : g # b - 1 => (~w[g].free <=> g # h /\ ~m[g].free)
  BY <1>2, <1>3
<1>8. \A g \in C : w[g].size = m[g].size
  BY <1>2, <1>3
<1>9. CASE x = b - 1 \/ ~m[x].free
  <2>1. v = w
    <3>1. w[x].size = m[x].size /\ w[x].free = m[x].free /\ (m[x].size = 0 <=> x = b - 1)
      BY <1>2, <1>3
    <3> QED BY <3>1, <1>4, <1>9 DEF mergeNext
  <2>2. ASSUME NEW g \in C \ {h, b - 1}, w[g].free
        PROVE  LET y == g + w[g].size + 1
               IN  w[g + w[g].size] = w[g] /\ y # b - 1 /\ (y = h \/ ~w[y].free)
    <3>1. g # x
      BY <1>9, <1>2, <1>3, <2>2
    <3> QED BY <3>1, <1>6, <2>2
  <2>3. Freeing(w, C, b, h)
    BY <1>1, <1>2, <2>2 DEF Freeing
  <2>4. LastFree(w, b, h)
    BY <1>2, <1>3, <1>4, <1>9 DEF LastFree
  <2>5. Used(w, C, b) = Used(m, C, b) \ {h}
    BY <1>7 DEF Used
  <2>6. Keeps(m, w, Used(m, C, b) \ {h})
    BY <1>5, <1>8 DEF Keeps, Used
  <2> QED BY <2>1, <2>3, <2>4, <2>5, <2>6
<1>10. CASE x # b - 1 /\ m[x].free
  <2> DEFINE D == C \ {x}
             y == x + m[x].size + 1
  <2>1. v = Join(w, h, x) /\ w[x].free /\ w[x].size = m[x].size
    <3>1. w[x].size = m[x].size /\ w[x].free = m[x].free /\ m[x].size # 0
      BY <1>2, <1>3, <1>10
    <3>2. v = Join(w, h, x)
      BY <3>1, <1>4, <1>10 DEF mergeNext, Join
    <3> QED BY <3>1, <3>2, <1>10
  <2>2. /\ v \in [Addr -> Word] /\ Tiled(v, D, b) /\ Flagged(v, D, b)
        /\ h + v[h].size + 1 = y /\ v[h].free
        /\ \A a \in Addr : a # h => v[a] = w[a]
        /\ \A g \in C \ {h, b - 1} : g + w[g].size + 1 # x
    <3>1. Joinable(w, C, b, h, x)
      BY <1>1, <1>2, <1>4, <1>10, <2>1 DEF Joinable
    <3>2. v = Join(w, h, x)
      BY <2>1
    <3>3. JoinOf(w, C, b, h, x, v)
      BY <3>1, <3>2, Joined
    <3> QED BY <3>3, <2>1 DEF JoinOf
  <2>3. \A g \in D \ {h} : v[g] = w[g]
    BY <1>3, <2>2
  <2>4. ASSUME NEW g \in D \ {h, b - 1}, v[g].free
        PROVE  LET z == g + v[g].size + 1
               IN  v[g + v[g].size] = v[g] /\ z # b - 1 /\ (z = h \/ ~v[z].free)
    <3>1. v[g] = w[g] /\ w[g].free
      BY <2>3, <2>4
    <3>2. /\ w[g] = m[g] /\ w[g + m[g].size] = m[g]
          /\ g + m[g].size + 1 \in C /\ g + m[g].size + 1 # b - 1
          /\ (g + m[g].size + 1 = h \/ ~w[g + m[g].size + 1].free)
      BY <3>1, <1>6
    <3>3. v[g + m[g].size] = w[g + m[g].size]
      <4>1. g + m[g].size \in g + 1 .. g + m[g].size
        BY <1>3
      <4> QED BY <4>1, <1>5, <2>2
    <3>4. g + m[g].size + 1 # h => v[g + m[g].size + 1] = w[g + m[g].size + 1]
      BY <1>3, <2>2, <3>2
    <3> QED BY <3>1, <3>2, <3>3, <3>4
  <2>5. Freeing(v, D, b, h)
    BY <1>1, <1>2, <2>2, <2>4 DEF Freeing
  <2>6. LastFree(v, b, h)
    <3>1. y \in C /\ y > x
      BY <1>2, <1>3, <1>10
    <3>2. ~m[y].free
      BY <1>1, <1>2, <1>10 DEF Apart
    <3>3. y # h
      <4> HIDE DEF y
      <4> QED BY <3>1, <1>2, <1>3, <1>4
    <3> HIDE DEF y
    <3>4. v[y] = w[y] /\ w[y].free = m[y].free
      BY <3>1, <3>3, <1>2, <1>3, <2>2
    <3> QED BY <3>2, <3>4, <2>2 DEF LastFree
  <2>7. Used(v, D, b) = Used(m, C, b) \ {h}
    <3>1. \A g \in D \ {b - 1} : ~v[g].free <=> g # h /\ ~m[g].free
      BY <1>7, <2>2, <2>3
    <3> QED BY <3>1, <1>10 DEF Used
  <2>8. Keeps(m, v, Used(m, C, b) \ {h})
    <3> SUFFICES ASSUME NEW g \in C \ {h, b - 1}, ~m[g].free
                 PROVE  v[g].size = m[g].size /\ \A a \in g + 1 .. g + m[g].size : v[a] = m[a]
      BY DEF Keeps, Used
    <3>1. g \in D \ {h}
      BY <1>10
    <3>2. \A a \in g + 1 .. g + m[g].size : v[a] = m[a]
      BY <1>5, <2>2
    <3> QED BY <3>1, <3>2, <1>8, <2>3
  <2> HIDE DEF D
  <2> QED BY <2>5, <2>6, <2>7, <2>8
<1> QED BY <1>9, <1>10

\* The block k is free and merged with its neighbours, but lacks its tag.
Untagged(m, C, b, k) ==
  /\ m \in [Addr -> Word] /\ b \in 1 .. MaxWords /\ Tiled(m, C, b) /\ Flagged(m, C, b)
  /\ k \in C \ {b - 1} /\ m[k].free /\ ~m[k].prevFree /\ LastFree(m, b, k)
  /\ \A g \in C \ {k, b - 1} : m[g].free =>
       LET x == g + m[g].size + 1
       IN  m[g + m[g].size] = m[g] /\ x # b - 1 /\ ~m[x].free

\* The block k is free and merged with its neighbours, but may be the last one.
Freed(m, C, b, k) ==
  /\ m \in [Addr -> Word] /\ b \in 1 .. MaxWords /\ Tiled(m, C, b) /\ Flagged(m, C, b)
  /\ Tagged(m, C, b) /\ k \in C \ {b - 1} /\ m[k].free /\ ~m[k].prevFree /\ LastFree(m, b, k)
  /\ \A g \in C \ {k, b - 1} : m[g].free =>
       LET x == g + m[g].size + 1 IN x # b - 1 /\ ~m[x].free

\* free writes the tag.
LEMMA TagWritten ==
  ASSUME NEW m, NEW b, NEW C, NEW k, Untagged(m, C, b, k),
         NEW w, w = [m EXCEPT ![k + m[k].size] = m[k]]
  PROVE  /\ Freed(w, C, b, k) /\ Used(w, C, b) = Used(m, C, b) /\ Keeps(m, w, Used(m, C, b))
<1> DEFINE t == k + m[k].size
<1>1. /\ m \in [Addr -> Word] /\ b \in 1 .. MaxWords /\ Tiled(m, C, b) /\ Flagged(m, C, b)
      /\ k \in C \ {b - 1} /\ m[k].free /\ ~m[k].prevFree /\ LastFree(m, b, k)
  BY DEF Untagged
<1>2. \A g \in C : /\ g \in Addr /\ g \in Nat
                   /\ g # b - 1 => /\ m[g].size \in Nat /\ m[g].size > 0
                                   /\ g + m[g].size \in Addr /\ g + m[g].size + 1 \in C
  BY <1>1, Places
<1>3. t \in Addr /\ t > k /\ w = [m EXCEPT ![t] = m[k]]
  BY <1>1, <1>2
<1>4. w \in [Addr -> Word] /\ w[t] = m[k] /\ \A a \in Addr : a # t => w[a] = m[a]
  BY <1>1, <1>2, <1>3
<1>5. \A a \in Addr : a <= k \/ a > k + m[k].size => w[a] = m[a]
  BY <1>1, <1>2, <1>3, <1>4, SizesAssumption DEF Addr
<1>6. /\ Tiled(w, C, b) /\ Flagged(w, C, b) /\ \A g \in C : w[g] = m[g]
      /\ \A g \in C \ {k, b - 1} : \A a \in g + 1 .. g + m[g].size : w[a] = m[a]
  <2>1. WritesIn(m, C, b, k, w)
    BY <1>1, <1>5 DEF WritesIn
  <2>2. KeepsAll(m, C, b, k, w)
    BY <2>1, Rewritten
  <2> QED BY <2>2 DEF KeepsAll
<1>7. \A g \in C \ {b - 1} : w[g + m[g].size + 1] = m[g + m[g].size + 1]
  BY <1>2, <1>6
<1>8. Tagged(w, C, b)
  <2> SUFFICES ASSUME NEW g \in C \ {b - 1}, w[g].free
               PROVE  w[g + w[g].size] = w[g]
    BY DEF Tagged
  <2>1. CASE g = k
    BY <2>1, <1>4, <1>6
  <2>2. CASE g # k
    <3>1. m[g + m[g].size] = m[g]
      BY <2>2, <1>6 DEF Untagged
    <3>2. g + m[g].size \in g + 1 .. g + m[g].size
      BY <1>2
    <3> QED BY <2>2, <3>1, <3>2, <1>6
  <2> QED BY <2>1, <2>2
<1>9. LastFree(w, b, k)
  BY <1>1, <1>6, <1>7 DEF LastFree
<1>10. \A g \in C \ {k, b - 1} : w[g].free =>
          g + w[g].size + 1 # b - 1 /\ ~w[g + w[g].size + 1].free
  BY <1>6, <1>7 DEF Untagged
<1>11. Freed(w, C, b, k)
  BY <1>1, <1>4, <1>6, <1>8, <1>9, <1>10 DEF Freed
<1>12. Used(w, C, b) = Used(m, C, b)
  BY <1>6 DEF Used
<1>13. Keeps(m, w, Used(m, C, b))
  BY <1>1, <1>6 DEF Keeps, Used
<1> QED BY <1>11, <1>12, <1>13

\* free merges the block with the previous one.
LEMMA PrevMerged ==
  ASSUME NEW m, NEW b, NEW C, NEW h, Freeing(m, C, b, h), LastFree(m, b, h),
         NEW r, r = mergePrev(m, h)
  PROVE  \E D : /\ Freed(r.mem, D, b, r.head) /\ Used(r.mem, D, b) = Used(m, C, b)
                /\ Keeps(m, r.mem, Used(m, C, b))
<1>1. /\ m \in [Addr -> Word] /\ b \in 1 .. MaxWords /\ Tiled(m, C, b) /\ Flagged(m, C, b)
      /\ h \in C \ {b - 1} /\ m[h].free
  BY DEF Freeing
<1>2. \A g \in C : /\ g \in Addr /\ g \in Nat /\ m[g].size \in Nat
                   /\ g # b - 1 => m[g].size > 0 /\ g + m[g].size + 1 \in C
  BY <1>1, Places
<1>3. \A g \in C \ {h, b - 1} : m[g].free =>
        /\ m[g + m[g].size] = m[g] /\ g + m[g].size + 1 # b - 1
        /\ (g + m[g].size + 1 = h \/ ~m[g + m[g].size + 1].free)
  BY DEF Freeing
<1>4. CASE ~m[h].prevFree
  <2>1. ASSUME NEW g \in C \ {h, b - 1}, m[g].free
        PROVE  g + m[g].size + 1 # h
    <3>1. m[g + m[g].size + 1].prevFree
      BY <1>1, <2>1 DEF Flagged
    <3> QED BY <3>1, <1>4
  <2>2. Untagged(m, C, b, h)
    BY <1>1, <1>3, <1>4, <2>1 DEF Untagged
  <2>3. r.mem = [m EXCEPT ![h + m[h].size] = m[h]] /\ r.head = h
    BY <1>4 DEF mergePrev, getNextBoundaryTag
  <2>4. /\ Freed(r.mem, C, b, h) /\ Used(r.mem, C, b) = Used(m, C, b)
        /\ Keeps(m, r.mem, Used(m, C, b))
    BY <2>2, <2>3, TagWritten
  <2> QED BY <2>3, <2>4
<1>5. CASE m[h].prevFree
  <2>1. PICK p \in C \ {b - 1} : p + m[p].size + 1 = h /\ m[p].free
    BY <1>1, <1>5, Before
  <2>2. p # h /\ p < h /\ p \in Nat /\ h \in Nat /\ m[p].size \in Nat
    BY <1>1, <1>2, <2>1
  <2>3. h - 1 = p + m[p].size /\ m[h - 1] = m[p]
    BY <2>1, <2>2, <1>3
  <2>4. h - 1 - m[h - 1].size = p
    BY <2>2, <2>3
  <2> DEFINE w == Join(m, p, h)
             D == C \ {h}
  <2>5. r.mem = [w EXCEPT ![p + w[p].size] = w[p]] /\ r.head = p
    BY <1>5, <2>4 DEF mergePrev, getNextBoundaryTag, Join
  <2> HIDE DEF w
  <2>6. Joinable(m, C, b, p, h)
    BY <1>1, <2>1 DEF Joinable
  <2>7. JoinOf(m, C, b, p, h, w)
    BY <2>6, Joined DEF w
  <2>8. /\ w \in [Addr -> Word] /\ Tiled(w, D, b) /\ Flagged(w, D, b)
        /\ p + w[p].size + 1 = h + m[h].size + 1
        /\ w[p].prevFree = m[p].prevFree /\ w[p].free
        /\ \A a \in Addr : a # p => w[a] = m[a]
        /\ \A g \in C \ {p, b - 1} : g + m[g].size + 1 # h
    BY <2>7 DEF JoinOf
  <2>9. ~w[p].prevFree
    <3> SUFFICES ASSUME m[p].prevFree PROVE FALSE
      BY <2>8
    <3>1. PICK q \in C \ {b - 1} : q + m[q].size + 1 = p /\ m[q].free
      BY <1>1, <2>1, Before
    <3>2. q # h
      BY <1>2, <2>2, <3>1
    <3> QED BY <3>1, <3>2, <1>3, <2>1, <2>2
  <2>10. \A g \in C \ {p, b - 1} : \A a \in g + 1 .. g + m[g].size : w[a] = m[a]
    <3> TAKE g \in C \ {p, b - 1}
    <3> TAKE a \in g + 1 .. g + m[g].size
    <3>1. a \in Addr /\ a \in Nat /\ a > g /\ (p <= g \/ p > a)
      BY <1>1, <2>1, Inside
    <3>2. g \in Nat
      BY <1>2
    <3>3. a # p
      BY <3>1, <3>2, <2>2
    <3> QED BY <3>1, <3>3, <2>8
  <2>11. ASSUME NEW g \in D \ {p, b - 1}, w[g].free
         PROVE  /\ w[g + w[g].size] = w[g] /\ g + w[g].size + 1 # b - 1
                /\ ~w[g + w[g].size + 1].free
    <3>1. w[g] = m[g]
      BY <1>2, <2>8
    <3>2. /\ m[g + m[g].size] = m[g] /\ g + m[g].size + 1 # b - 1
          /\ ~m[g + m[g].size + 1].free /\ g + m[g].size + 1 \in C
      BY <1>2, <1>3, <2>8, <2>11, <3>1
    <3>3. w[g + m[g].size] = m[g + m[g].size]
      <4>1. g + m[g].size \in g + 1 .. g + m[g].size
        BY <1>2
      <4> QED BY <4>1, <2>10
    <3>4. w[g + m[g].size + 1] = m[g + m[g].size + 1]
      BY <1>2, <2>1, <2>8, <3>2
    <3> QED BY <3>1, <3>2, <3>3, <3>4
  <2>12. LastFree(w, b, p)
    <3> DEFINE y == h + m[h].size + 1
    <3>1. y = b - 1 \/ ~m[y].free
      BY DEF LastFree
    <3>2. y \in C
      BY <1>1, <1>2
    <3> HIDE DEF y
    <3>3. y = b - 1 \/ ~w[y].free
      BY <1>2, <2>1, <2>8, <3>1, <3>2
    <3> QED BY <2>8, <3>3 DEF LastFree, y
  <2>13. p \in D \ {b - 1} /\ b \in 1 .. MaxWords
    BY <1>1, <2>1, <2>2
  <2>14. Untagged(w, D, b, p)
    BY <2>8, <2>9, <2>11, <2>12, <2>13 DEF Untagged
  <2>15. Used(w, D, b) = Used(m, C, b)
    <3>1. \A g \in C \ {b - 1} : ~m[g].free <=> g # h /\ ~w[g].free
      <4> TAKE g \in C \ {b - 1}
      <4>1. CASE g = p
        BY <4>1, <2>1, <2>8
      <4>2. CASE g # p
        BY <4>2, <1>1, <1>2, <2>8
      <4> QED BY <4>1, <4>2
    <3> QED BY <3>1 DEF Used
  <2>16. Keeps(m, w, Used(m, C, b))
    <3> SUFFICES ASSUME NEW g \in C \ {b - 1}, ~m[g].free
                 PROVE  w[g].size = m[g].size /\ \A a \in g + 1 .. g + m[g].size : w[a] = m[a]
      BY DEF Keeps, Used
    <3>1. g # p
      BY <2>1
    <3> QED BY <3>1, <1>2, <2>8, <2>10
  <2> HIDE DEF D
  <2>17. /\ Freed(r.mem, D, b, p) /\ Used(r.mem, D, b) = Used(w, D, b)
         /\ Keeps(w, r.mem, Used(w, D, b))
    BY <2>5, <2>14, TagWritten
  <2>18. Keeps(m, r.mem, Used(m, C, b))
    BY <2>15, <2>16, <2>17 DEF Keeps
  <2> QED BY <2>5, <2>15, <2>17, <2>18
<1> QED BY <1>4, <1>5

\* free gives the last block back to sbrk.
LEMMA Trimmed ==
  ASSUME NEW m, NEW b, NEW C, NEW h, Freed(m, C, b, h), NEW r, r = trim(m, h, b)
  PROVE  \E D : /\ Heap(r.mem, D, r.Brk) /\ Used(r.mem, D, r.Brk) = Used(m, C, b)
                /\ Keeps(m, r.mem, Used(m, C, b))
<1> DEFINE x == h + m[h].size + 1
<1>1. /\ m \in [Addr -> Word] /\ b \in 1 .. MaxWords /\ Tiled(m, C, b) /\ Flagged(m, C, b)
      /\ Tagged(m, C, b) /\ h \in C \ {b - 1} /\ m[h].free /\ ~m[h].prevFree
      /\ (x = b - 1 \/ ~m[x].free)
      /\ \A g \in C \ {h, b - 1} : m[g].free =>
           g + m[g].size + 1 # b - 1 /\ ~m[g + m[g].size + 1].free
  BY DEF Freed, LastFree
<1>2. \A g \in C : /\ g \in Addr /\ g \in Nat /\ m[g].size \in Nat /\ g <= b - 1
                   /\ (m[g].size = 0 <=> g = b - 1) /\ m[g].owner = "header"
                   /\ g # b - 1 => m[g].size > 0 /\ g + m[g].size + 1 \in C
  <2>1. \A g \in C : (m[g].size = 0 <=> g = b - 1) /\ m[g].owner = "header"
    BY <1>1 DEF Tiled
  <2> QED BY <1>1, <2>1, Places
<1>3. x \in C /\ x > h /\ h \in C /\ h \in Nat
  BY <1>1, <1>2
<1>4. CASE m[x].size # 0
  <2>1. r.mem = m /\ r.Brk = b
    BY <1>4 DEF trim, nextHeader
  <2>2. ASSUME NEW g \in C \ {b - 1}, m[g].free
        PROVE  g + m[g].size + 1 # b - 1 /\ ~m[g + m[g].size + 1].free
    <3>1. CASE g = h
      BY <3>1, <1>1, <1>2, <1>3, <1>4
    <3>2. CASE g # h
      BY <3>2, <1>1, <2>2
    <3> QED BY <3>1, <3>2
  <2>3. Heap(m, C, b)
    BY <1>1, <2>2 DEF Heap, Apart
  <2>4. Keeps(m, m, Used(m, C, b))
    BY DEF Keeps
  <2> QED BY <2>1, <2>3, <2>4
<1>5. CASE m[x].size = 0
  <2> DEFINE w == [a \in Addr |-> IF a = h THEN Header(0, FALSE, FALSE)
                                  ELSE IF a > h THEN Unmapped ELSE m[a]]
             D == {g \in C : g <= h}
             e == h + 1
  <2>1. x = b - 1
    BY <1>2, <1>3, <1>5
  <2>2. b - (m[h].size + 1) = e
    <3>1. b \in Nat /\ m[h].size \in Nat
      BY <1>1, <1>2, SizesAssumption
    <3> QED BY <3>1, <2>1, <1>3
  <2>3. r.mem = w /\ r.Brk = e
    BY <1>5, <2>2 DEF trim, nextHeader
  <2>4. /\ w[h] = Header(0, FALSE, FALSE)
        /\ \A a \in Addr : a < h => w[a] = m[a]
    <3>1. h \in Addr /\ \A a \in Addr : a < h => a # h /\ ~(a > h)
      BY <1>2, <1>3, SizesAssumption DEF Addr
    <3> QED BY <3>1
  <2>5. w \in [Addr -> Word]
    <3>1. Header(0, FALSE, FALSE) \in Word /\ Unmapped \in Word
      BY SizesAssumption DEF Header, Unmapped, Cell, Word
    <3>2. \A a \in Addr : m[a] \in Word
      BY <1>1
    <3> QED BY <3>1, <3>2
  <2>6. /\ w[h].size = 0 /\ w[h].owner = "header" /\ ~w[h].free /\ ~w[h].prevFree
    BY <2>4 DEF Header, Cell
  <2> HIDE DEF w
  <2>7. \A g \in D : /\ g \in C /\ g \in Addr /\ g \in Nat /\ g # b - 1
                     /\ g # h => w[g] = m[g]
    BY <1>1, <1>2, <1>3, <2>1, <2>4
  <2>8. \A g \in D \ {h} : g + m[g].size + 1 \in D /\ \A k \in C : k <= g \/ k >= g + m[g].size + 1
    <3> TAKE g \in D \ {h}
    <3>1. g \in C /\ g # b - 1 /\ g < h /\ g \in Nat /\ g + m[g].size + 1 \in C
      BY <1>2, <1>3, <2>7
    <3>2. \A k \in C : k <= g \/ k >= g + m[g].size + 1
      BY <1>1, <3>1, Places
    <3>3. g + m[g].size + 1 <= h
      BY <1>3, <3>1, <3>2
    <3> QED BY <3>1, <3>2, <3>3
  <2>9. e \in 1 .. MaxWords /\ e - 1 = h /\ h \in D /\ D \in SUBSET (0 .. e - 1) /\ 0 \in D
    <3>1. h \in Addr /\ 0 \in C
      BY <1>1, <1>2 DEF Tiled
    <3>2. e \in 1 .. MaxWords /\ e - 1 = h
      BY <3>1, <1>3, SizesAssumption DEF Addr
    <3>3. \A g \in D : g \in 0 .. h
      BY <2>7, <1>3
    <3>4. h \in D /\ 0 \in D
      BY <3>1, <1>3
    <3> HIDE DEF D, e
    <3> QED BY <3>2, <3>3, <3>4
  <2>10. Tiled(w, D, e)
    <3>1. \A g \in D : w[g].owner = "header" /\ (w[g].size = 0 <=> g = e - 1)
      BY <1>2, <2>6, <2>7, <2>9
    <3>2. \A g \in D \ {e - 1} : /\ g + w[g].size + 1 \in D
                                 /\ \A k \in D : k <= g \/ k >= g + w[g].size + 1
      BY <2>7, <2>8, <2>9
    <3> QED BY <2>9, <3>1, <3>2 DEF Tiled
  <2>11. \A g \in D \ {h} : m[g + m[g].size + 1].prevFree <=> m[g].free
    BY <1>1, <2>7 DEF Flagged
  <2>12. Flagged(w, D, e)
    <3>1. ~w[0].prevFree
      BY <1>1, <2>6, <2>7, <2>9 DEF Flagged
    <3>2. ASSUME NEW g \in D \ {e - 1}
          PROVE  w[g + w[g].size + 1].prevFree <=> w[g].free
      <4> DEFINE y == g + m[g].size + 1
      <4>1. g \in D \ {h} /\ w[g] = m[g]
        BY <2>7, <2>9
      <4>2. y \in D /\ (m[y].prevFree <=> m[g].free)
        BY <4>1, <2>8, <2>11
      <4> HIDE DEF y
      <4>3. w[y].prevFree <=> m[y].prevFree
        BY <4>2, <1>1, <2>6, <2>7
      <4> QED BY <4>1, <4>2, <4>3 DEF y
    <3> QED BY <3>1, <3>2 DEF Flagged
  <2>13. ASSUME NEW g \in D \ {e - 1}, w[g].free
         PROVE  /\ w[g + w[g].size] = w[g]
                /\ g + w[g].size + 1 # e - 1 /\ ~w[g + w[g].size + 1].free
    <3>1. g \in D \ {h} /\ g \in C \ {h, b - 1} /\ w[g] = m[g] /\ m[g].free
      BY <2>7, <2>9, <2>13
    <3>2. m[g + m[g].size] = m[g] /\ ~m[g + m[g].size + 1].free
      BY <1>1, <3>1 DEF Tagged
    <3>3. g + m[g].size + 1 \in D /\ g + m[g].size + 1 # h
      BY <1>1, <2>8, <3>1, <3>2
    <3>4. w[g + m[g].size + 1] = m[g + m[g].size + 1]
      BY <2>7, <3>3
    <3>5. w[g + m[g].size] = m[g + m[g].size]
      <4>1. g \in Nat /\ m[g].size \in Nat /\ g + m[g].size + 1 <= h
        BY <1>2, <3>1, <3>3
      <4>2. g + m[g].size \in Addr /\ g + m[g].size < h
        BY <1>1, <1>3, <3>1, <4>1, Places
      <4> QED BY <4>2, <2>4
    <3> QED BY <3>1, <3>2, <3>3, <3>4, <3>5, <2>9
  <2>14. Heap(w, D, e)
    BY <2>5, <2>9, <2>10, <2>12, <2>13 DEF Heap, Tagged, Apart
  <2>15. \A g \in C \ {b - 1} : ~m[g].free => g \in D \ {h}
    <3> TAKE g \in C \ {b - 1}
    <3> HAVE ~m[g].free
    <3>1. g <= h \/ g >= x
      BY <1>1, Places
    <3>2. g < x /\ g \in Nat
      BY <1>2, <1>3, <2>1
    <3>3. ~(g >= x) /\ g # h
      <4>1. g # h
        BY <1>1
      <4> HIDE DEF x
      <4> QED BY <3>2, <4>1, <1>3
    <3> QED BY <3>1, <3>3
  <2>16. Used(w, D, e) = Used(m, C, b)
    <3>1. \A g \in D \ {h} : w[g] = m[g] /\ g \in C \ {b - 1}
      BY <2>7
    <3> HIDE DEF D, e
    <3> QED BY <3>1, <2>9, <2>15 DEF Used
  <2>17. Keeps(m, w, Used(m, C, b))
    <3> SUFFICES ASSUME NEW g \in C \ {b - 1}, ~m[g].free
                 PROVE  w[g].size = m[g].size /\ \A a \in g + 1 .. g + m[g].size : w[a] = m[a]
      BY DEF Keeps, Used
    <3>1. g \in D \ {h}
      BY <2>15
    <3>2. w[g] = m[g] /\ g + m[g].size + 1 \in D /\ g \in Nat /\ m[g].size \in Nat
      BY <1>2, <2>7, <2>8, <3>1
    <3>3. g + m[g].size + 1 <= h
      BY <3>2
    <3>4. ASSUME NEW a \in g + 1 .. g + m[g].size
          PROVE  w[a] = m[a]
      <4>1. a \in Addr /\ a \in Nat /\ a <= g + m[g].size
        BY <1>1, Inside
      <4>2. a < h
        BY <4>1, <3>2, <3>3, <1>3
      <4> QED BY <4>1, <4>2, <2>4
    <3> QED BY <3>2, <3>4
  <2> HIDE DEF D, e
  <2> QED BY <2>3, <2>14, <2>16, <2>17
<1> QED BY <1>4, <1>5

\* The heap r is sound, the block h is gone from it and the others are left alone.
Without(m, C, b, h, r) ==
  \E D : /\ Heap(r.mem, D, r.Brk) /\ Used(r.mem, D, r.Brk) = Used(m, C, b) \ {h}
         /\ Keeps(m, r.mem, Used(m, C, b) \ {h})

\* free releases the block.
LEMMA Released ==
  ASSUME NEW m, NEW b, NEW C, Heap(m, C, b), NEW h \in Used(m, C, b),
         NEW r, r = release(m, h, b)
  PROVE  Without(m, C, b, h, r)
<1> DEFINE v == mergeNext(mark(m, h), h)
           q == mergePrev(v, h)
<1>1. r = trim(q.mem, q.head, b)
  BY DEF release
<1>2. PICK D : /\ Freeing(v, D, b, h) /\ LastFree(v, b, h)
               /\ Used(v, D, b) = Used(m, C, b) \ {h} /\ Keeps(m, v, Used(m, C, b) \ {h})
  BY NextMerged
<1> HIDE DEF v
<1>3. PICK E : /\ Freed(q.mem, E, b, q.head) /\ Used(q.mem, E, b) = Used(v, D, b)
               /\ Keeps(v, q.mem, Used(v, D, b))
  BY <1>2, PrevMerged
<1> HIDE DEF q
<1>4. PICK F : /\ Heap(r.mem, F, r.Brk) /\ Used(r.mem, F, r.Brk) = Used(q.mem, E, b)
               /\ Keeps(q.mem, r.mem, Used(q.mem, E, b))
  BY <1>1, <1>3, Trimmed
<1>5. Keeps(m, r.mem, Used(m, C, b) \ {h})
  BY <1>2, <1>3, <1>4 DEF Keeps
<1> QED BY <1>2, <1>3, <1>4, <1>5 DEF Without

-----------------------------------------------------------------------------
(* The clients.                                                              *)

\* Writing inside a block in use.
LEMMA UsedWritten ==
  ASSUME NEW m, NEW b, NEW C, Heap(m, C, b), NEW h \in Used(m, C, b), NEW w,
         w \in [Addr -> Word], WritesIn(m, C, b, h, w)
  PROVE  /\ Heap(w, C, b) /\ Used(w, C, b) = Used(m, C, b) /\ w[h] = m[h]
         /\ Keeps(m, w, Used(m, C, b) \ {h})
<1>1. /\ m \in [Addr -> Word] /\ b \in 1 .. MaxWords /\ h \in C \ {b - 1} /\ ~m[h].free
      /\ Tiled(m, C, b) /\ Flagged(m, C, b) /\ Tagged(m, C, b) /\ Apart(m, C, b)
  BY DEF Heap, Used
<1>2. /\ Tiled(w, C, b) /\ Flagged(w, C, b) /\ \A g \in C : w[g] = m[g]
      /\ \A g \in C \ {h, b - 1} : \A a \in g + 1 .. g + m[g].size : w[a] = m[a]
  BY Rewritten DEF KeepsAll
<1>3. ASSUME NEW g \in C \ {b - 1}, w[g].free
      PROVE  /\ w[g + w[g].size] = w[g]
             /\ g + w[g].size + 1 # b - 1 /\ ~w[g + w[g].size + 1].free
  <2>1. g \in C \ {h, b - 1} /\ w[g] = m[g] /\ m[g].free
    BY <1>1, <1>2, <1>3
  <2>2. m[g + m[g].size] = m[g] /\ g + m[g].size + 1 # b - 1 /\ ~m[g + m[g].size + 1].free
    BY <1>1, <2>1 DEF Tagged, Apart
  <2>3. g \in Nat /\ m[g].size \in Nat /\ m[g].size > 0 /\ g + m[g].size + 1 \in C
    BY <1>1, Places
  <2>4. g + m[g].size \in g + 1 .. g + m[g].size
    BY <2>3
  <2>5. w[g + m[g].size] = m[g + m[g].size] /\ w[g + m[g].size + 1] = m[g + m[g].size + 1]
    BY <1>2, <2>1, <2>3, <2>4
  <2> QED BY <2>1, <2>2, <2>5
<1>4. Heap(w, C, b)
  BY <1>1, <1>2, <1>3 DEF Heap, Tagged, Apart
<1>5. Used(w, C, b) = Used(m, C, b)
  BY <1>2 DEF Used
<1>6. Keeps(m, w, Used(m, C, b) \ {h})
  BY <1>2 DEF Keeps, Used
<1> QED BY <1>1, <1>2, <1>4, <1>5, <1>6

\* The block of a live client.
LEMMA Theirs ==
  ASSUME TypeOK, NEW C, Heap(mem, C, Brk), Held(C), Filled, NEW c \in Live
  PROVE  /\ ptr[c] \in Addr /\ ptr[c] \in Nat /\ ptr[c] - 1 \in Used(mem, C, Brk)
         /\ ptr[c] - 1 \in C /\ ptr[c] - 1 \in Addr
         /\ asked[c] \in Nat /\ mem[ptr[c] - 1].size \in Nat /\ asked[c] <= mem[ptr[c] - 1].size
         /\ \A i \in 0 .. asked[c] - 1 : mem[ptr[c] + i] = Data(c, i)
<1>1. c \in Client /\ ptr[c] \in Addr /\ asked[c] \in Nat
  <2>1. c \in Client /\ ptr[c] # Null /\ ptr[c] \in Addr \cup {Null} /\ asked[c] \in Sizes \cup {0}
    BY DEF TypeOK, Live
  <2>2. asked[c] \in Nat
    <3>1. \A s \in Sizes \cup {0} : s \in Nat
      BY SizesAssumption
    <3> QED BY <2>1, <3>1
  <2> QED BY <2>1, <2>2
<1>2. ptr[c] \in Nat
  BY <1>1, SizesAssumption DEF Addr
<1>3. ptr[c] - 1 \in Used(mem, C, Brk)
  BY DEF Held
<1>4. ptr[c] - 1 \in C /\ mem \in [Addr -> Word] /\ Brk \in 1 .. MaxWords /\ Tiled(mem, C, Brk)
  BY <1>3 DEF Used, Heap
<1>5. ptr[c] - 1 \in Addr /\ mem[ptr[c] - 1].size \in Nat
  BY <1>4, Places
<1>6. /\ asked[c] <= mem[ptr[c] - 1].size
      /\ \A i \in 0 .. asked[c] - 1 : mem[ptr[c] + i] = Data(c, i)
  BY DEF Filled
<1> QED BY <1>1, <1>2, <1>3, <1>4, <1>5, <1>6

\* The invariant holds after a step of client c that keeps the blocks of the others and
\* gives it the block p, if any.
Others(C, c) == Used(mem, C, Brk) \ {ptr[c] - 1}
Given(p) == IF p = Null THEN {} ELSE {p - 1}

LEMMA Stepped ==
  ASSUME TypeOK, NEW C, Heap(mem, C, Brk), Held(C), Filled, NEW c \in Client,
         NEW D, Heap(mem', D, Brk'), Keeps(mem, mem', Others(C, c)),
         NEW p \in Addr \cup {Null}, NEW n \in Sizes \cup {0},
         ptr' = [ptr EXCEPT ![c] = p], asked' = [asked EXCEPT ![c] = n],
         Used(mem', D, Brk') = Others(C, c) \cup Given(p), p - 1 \notin Others(C, c),
         p # Null => /\ n <= mem'[p - 1].size
                     /\ \A i \in 0 .. n - 1 : mem'[p + i] = Data(c, i)
  PROVE  IInv'
<1>1. /\ ptr'[c] = p /\ asked'[c] = n
      /\ \A d \in Client : d # c => ptr'[d] = ptr[d] /\ asked'[d] = asked[d]
      /\ ptr' \in [Client -> Addr \cup {Null}] /\ asked' \in [Client -> Sizes \cup {0}]
  BY DEF TypeOK
<1>2. mem' \in [Addr -> Word] /\ Brk' \in 1 .. MaxWords /\ D \in SUBSET Addr
  BY HeapPlaces
<1>3. TypeOK'
  BY <1>1, <1>2 DEF TypeOK
<1>4. \A d \in Live' : d \in Client /\ (d = c => p # Null) /\ (d # c => d \in Live)
  BY <1>1 DEF Live
<1>5. ASSUME NEW d \in Live', d # c
      PROVE  ptr[d] - 1 \in Others(C, c) /\ ptr'[d] = ptr[d] /\ asked'[d] = asked[d] /\ d \in Live
  <2>1. d \in Client /\ d \in Live
    BY <1>4, <1>5
  <2>2. ptr[d] - 1 \in Used(mem, C, Brk) /\ ptr[d] \in Nat
    BY <2>1, Theirs
  <2>3. ptr[d] - 1 # ptr[c] - 1
    <3>1. CASE c \in Live
      <4>1. ptr[c] \in Nat /\ ptr[c] # ptr[d]
        BY <1>5, <2>1, <3>1, Theirs DEF Held
      <4> QED BY <4>1, <2>2
    <3>2. CASE c \notin Live
      BY <2>2, <3>2 DEF Live, Null
    <3> QED BY <3>1, <3>2
  <2> QED BY <1>1, <2>1, <2>2, <2>3 DEF Others
<1>6. p # Null => p - 1 \in Used(mem', D, Brk') /\ c \in Live'
  BY <1>1 DEF Given, Live
<1>7. \A d \in Live' : ptr'[d] - 1 \in Used(mem', D, Brk')
  BY <1>1, <1>4, <1>5, <1>6
<1>8. ASSUME NEW d \in Live', NEW e \in Live', ptr'[d] = ptr'[e]
      PROVE  d = e
  <2>1. CASE d # c /\ e # c
    BY <1>5, <1>8, <2>1 DEF Held
  <2>2. CASE d = c /\ e # c
    BY <1>1, <1>5, <1>8, <2>2
  <2>3. CASE d # c /\ e = c
    BY <1>1, <1>5, <1>8, <2>3
  <2> QED BY <2>1, <2>2, <2>3
<1>9. ASSUME NEW h \in Used(mem', D, Brk')
      PROVE  \E d \in Live' : ptr'[d] = h + 1
  <2>1. CASE h \in Others(C, c)
    <3>1. PICK d \in Live : ptr[d] = h + 1
      BY <2>1 DEF Others, Held
    <3>2. d # c
      <4>1. h # ptr[c] - 1 /\ ptr[d] \in Nat
        BY <2>1, Theirs DEF Others
      <4>2. h \in Nat
        BY <2>1, HeapPlaces DEF Others, Used
      <4> QED BY <3>1, <4>1, <4>2
    <3>3. d \in Live' /\ ptr'[d] = h + 1
      BY <1>1, <3>1, <3>2 DEF Live
    <3> QED BY <3>3
  <2>2. CASE p # Null /\ h = p - 1
    <3>1. ptr'[c] = h + 1
      BY <1>1, <2>2, SizesAssumption DEF Addr
    <3> QED BY <3>1, <1>6, <2>2
  <2> QED BY <2>1, <2>2 DEF Given
<1>10. Held(D)'
  BY <1>7, <1>8, <1>9 DEF Held
<1>11. ASSUME NEW d \in Live'
       PROVE  /\ asked'[d] <= mem'[ptr'[d] - 1].size
              /\ \A i \in 0 .. asked'[d] - 1 : mem'[ptr'[d] + i] = Data(d, i)
  <2>1. CASE d = c
    BY <1>1, <1>4, <2>1
  <2>2. CASE d # c
    <3> DEFINE g == ptr[d] - 1
    <3>1. /\ g \in Others(C, c) /\ ptr'[d] = ptr[d] /\ asked'[d] = asked[d] /\ d \in Live
      BY <1>5, <2>2
    <3>2. /\ ptr[d] \in Nat /\ asked[d] \in Nat /\ mem[g].size \in Nat /\ asked[d] <= mem[g].size
          /\ \A i \in 0 .. asked[d] - 1 : mem[ptr[d] + i] = Data(d, i)
      BY <3>1, Theirs
    <3>3. mem'[g].size = mem[g].size /\ \A a \in g + 1 .. g + mem[g].size : mem'[a] = mem[a]
      BY <3>1 DEF Keeps
    <3>4. ASSUME NEW i \in 0 .. asked[d] - 1
          PROVE  mem'[ptr[d] + i] = Data(d, i)
      <4>1. ptr[d] + i \in g + 1 .. g + mem[g].size
        BY <3>2
      <4> QED BY <3>2, <3>3, <4>1
    <3> QED BY <3>1, <3>2, <3>3, <3>4
  <2> QED BY <2>1, <2>2
<1>12. Filled'
  BY <1>11 DEF Filled
<1> QED BY <1>2, <1>3, <1>10, <1>12 DEF IInv

\* A word of a client's data.
LEMMA DataType ==
  ASSUME NEW c \in Client, NEW i \in 0 .. MaxWords
  PROVE  Data(c, i) \in Word
BY DEF Data, Cell, Word

LEMMA Malloc ==
  ASSUME TypeOK, NEW C, Heap(mem, C, Brk), Held(C), Filled,
         NEW c \in Client, NEW n \in Sizes, malloc(c, n)
  PROVE  IInv'
<1> DEFINE r == Malloced(mem, Brk, n)
           h == r.head
<1>1. /\ ptr[c] = Null /\ r.Brk <= MaxWords /\ Brk' = r.Brk
      /\ mem' = fill(r.mem, c, h + 1, n)
      /\ ptr' = [ptr EXCEPT ![c] = h + 1] /\ asked' = [asked EXCEPT ![c] = n]
  BY DEF malloc, headerToPtr
<1>2. n \in Nat /\ n > 0
  BY SizesAssumption
<1>3. PICK D : /\ Heap(r.mem, D, r.Brk) /\ h \notin Used(mem, C, Brk)
               /\ Used(r.mem, D, r.Brk) = Used(mem, C, Brk) \cup {h} /\ r.mem[h].size >= n
               /\ Keeps(mem, r.mem, Used(mem, C, Brk))
  BY <1>1, <1>2, BlockFound
<1> HIDE DEF r
<1>4. /\ r.mem \in [Addr -> Word] /\ r.Brk \in 1 .. MaxWords /\ h \in D \ {r.Brk - 1}
      /\ Tiled(r.mem, D, r.Brk) /\ Flagged(r.mem, D, r.Brk) /\ h \in Used(r.mem, D, r.Brk)
  BY <1>3 DEF Heap, Used
<1>5. /\ h \in Addr /\ h \in Nat /\ r.mem[h].size \in 0 .. MaxWords /\ r.mem[h].size \in Nat
      /\ h + r.mem[h].size \in Addr
  BY <1>4, Places
<1> HIDE DEF h
<1>6. h + 1 \in Addr
  <2> DEFINE e == h + r.mem[h].size
  <2>1. e \in Addr /\ e >= h + 1
    BY <1>2, <1>3, <1>5
  <2> HIDE DEF e
  <2> QED BY <2>1, <1>5, SizesAssumption DEF Addr
<1>7. ASSUME NEW a \in Addr
      PROVE  /\ mem'[a] \in Word
             /\ a <= h \/ a > h + r.mem[h].size => mem'[a] = r.mem[a]
  <2>1. mem'[a] = IF a >= h + 1 /\ a < h + 1 + n THEN Data(c, a - (h + 1)) ELSE r.mem[a]
    BY <1>1 DEF fill
  <2>2. a \in Nat
    BY SizesAssumption DEF Addr
  <2>3. CASE a >= h + 1 /\ a < h + 1 + n
    <3>1. a - (h + 1) \in 0 .. MaxWords
      BY <1>2, <1>3, <1>5, <2>2, <2>3, SizesAssumption
    <3>2. ~(a <= h) /\ ~(a > h + r.mem[h].size)
      BY <1>2, <1>3, <1>5, <2>2, <2>3
    <3> QED BY <2>1, <2>3, <3>1, <3>2, DataType
  <2>4. CASE ~(a >= h + 1 /\ a < h + 1 + n)
    BY <1>4, <2>1, <2>4
  <2> QED BY <2>3, <2>4
<1>8. mem' \in [Addr -> Word]
  <2>1. mem' = [a \in Addr |-> mem'[a]]
    BY <1>1 DEF fill
  <2> QED BY <2>1, <1>7
<1>9. WritesIn(r.mem, D, r.Brk, h, mem')
  BY <1>4, <1>7 DEF WritesIn
<1>10. /\ Heap(mem', D, r.Brk) /\ Used(mem', D, r.Brk) = Used(r.mem, D, r.Brk)
       /\ mem'[h] = r.mem[h] /\ Keeps(r.mem, mem', Used(r.mem, D, r.Brk) \ {h})
  BY <1>3, <1>4, <1>8, <1>9, UsedWritten
<1>11. Others(C, c) = Used(mem, C, Brk)
  <2>1. Used(mem, C, Brk) \in SUBSET Nat
    BY HeapPlaces DEF Used
  <2> QED BY <2>1, <1>1 DEF Others, Null
<1>12. Keeps(mem, mem', Others(C, c))
  BY <1>3, <1>10, <1>11 DEF Keeps
<1>13. h + 1 # Null /\ (h + 1) - 1 = h
  BY <1>5 DEF Null
<1>14. \A i \in 0 .. n - 1 : mem'[h + 1 + i] = Data(c, i)
  <2> TAKE i \in 0 .. n - 1
  <2> DEFINE a == h + 1 + i
             e == h + r.mem[h].size
  <2>1. a >= h + 1 /\ a < h + 1 + n /\ a - (h + 1) = i /\ a \in Nat /\ a <= e /\ e \in Addr
    BY <1>2, <1>3, <1>5
  <2> HIDE DEF a, e
  <2>2. a \in Addr
    BY <2>1, SizesAssumption DEF Addr
  <2>3. mem'[a] = Data(c, a - (h + 1))
    BY <1>1, <2>1, <2>2 DEF fill
  <2> QED BY <2>1, <2>3 DEF a
<1>15. /\ Used(mem', D, Brk') = Others(C, c) \cup Given(h + 1)
       /\ (h + 1) - 1 \notin Others(C, c) /\ n <= mem'[(h + 1) - 1].size
  BY <1>1, <1>2, <1>3, <1>5, <1>10, <1>11, <1>13 DEF Given
<1>16. Heap(mem', D, Brk')
  BY <1>1, <1>10
<1> DEFINE p == h + 1
<1>17. p \in Addr \cup {Null} /\ n \in Sizes \cup {0}
  BY <1>6
<1>18. ptr' = [ptr EXCEPT ![c] = p] /\ asked' = [asked EXCEPT ![c] = n]
  BY <1>1
<1>19. /\ Used(mem', D, Brk') = Others(C, c) \cup Given(p) /\ p - 1 \notin Others(C, c)
       /\ n <= mem'[p - 1].size
  BY <1>15
<1>20. \A i \in 0 .. n - 1 : mem'[p + i] = Data(c, i)
  BY <1>14
<1> HIDE DEF p
<1> QED BY <1>12, <1>16, <1>17, <1>18, <1>19, <1>20, Stepped

LEMMA Free ==
  ASSUME TypeOK, NEW C, Heap(mem, C, Brk), Held(C), Filled, NEW c \in Client, free(c)
  PROVE  IInv'
<1> DEFINE h == ptr[c] - 1
           r == release(mem, h, Brk)
<1>1. /\ c \in Live /\ mem' = r.mem /\ Brk' = r.Brk
      /\ ptr' = [ptr EXCEPT ![c] = Null] /\ asked' = [asked EXCEPT ![c] = 0]
  BY DEF free, Live
<1>2. h \in Used(mem, C, Brk)
  BY <1>1, Theirs
<1> HIDE DEF r, h
<1>3. PICK D : /\ Heap(r.mem, D, r.Brk)
               /\ Used(r.mem, D, r.Brk) = Used(mem, C, Brk) \ {h}
               /\ Keeps(mem, r.mem, Used(mem, C, Brk) \ {h})
  <2>1. r = release(mem, h, Brk)
    BY DEF r
  <2>2. Without(mem, C, Brk, h, r)
    BY <1>2, <2>1, Released
  <2> QED BY <2>2 DEF Without
<1>4. Null - 1 \notin Others(C, c)
  <2>1. Used(mem, C, Brk) \in SUBSET Nat
    BY HeapPlaces DEF Used
  <2> QED BY <2>1 DEF Others, Null
<1>5. /\ Heap(mem', D, Brk') /\ Keeps(mem, mem', Others(C, c))
      /\ Used(mem', D, Brk') = Others(C, c) \cup Given(Null)
  BY <1>1, <1>3 DEF Others, Given, h
<1> QED BY <1>1, <1>4, <1>5, Stepped

LEMMA Realloc ==
  ASSUME TypeOK, NEW C, Heap(mem, C, Brk), Held(C), Filled,
         NEW c \in Client, NEW n \in Sizes, realloc(c, n)
  PROVE  IInv'
<1> DEFINE old  == ptr[c]
           o    == old - 1
           r    == Malloced(mem, Brk, n)
           h    == r.head
           p    == h + 1
           size == mem[o].size
           len  == IF n > size THEN size ELSE n
           copy == [a \in Addr |-> IF a >= p /\ a < p + len THEN r.mem[a - p + old] ELSE r.mem[a]]
           z    == release(copy, o, r.Brk)
           U    == Used(mem, C, Brk)
<1>1. /\ old # Null /\ r.Brk <= MaxWords /\ Brk' = z.Brk
      /\ mem' = [a \in Addr |-> IF a >= p + asked[c] /\ a < p + n THEN Data(c, a - p) ELSE z.mem[a]]
      /\ ptr' = [ptr EXCEPT ![c] = p] /\ asked' = [asked EXCEPT ![c] = n]
  BY DEF realloc, headerToPtr
<1>2. n \in Nat /\ n > 0
  BY SizesAssumption
<1>3. /\ old \in Addr /\ old \in Nat /\ o \in U /\ o \in C /\ o \in Addr /\ o \in Nat
      /\ asked[c] \in Nat /\ size \in Nat /\ asked[c] <= size
      /\ \A i \in 0 .. asked[c] - 1 : mem[old + i] = Data(c, i)
  <2>1. c \in Live
    BY <1>1 DEF Live
  <2>2. ptr[c] - 1 \in Nat
    BY <2>1, Theirs, SizesAssumption DEF Addr
  <2> QED BY <2>1, <2>2, Theirs
<1>4. PICK D : /\ Heap(r.mem, D, r.Brk) /\ h \notin U
               /\ Used(r.mem, D, r.Brk) = U \cup {h} /\ r.mem[h].size >= n
               /\ Keeps(mem, r.mem, U)
  BY <1>1, <1>2, BlockFound
<1> HIDE DEF r, z
<1>5. /\ r.mem \in [Addr -> Word] /\ r.Brk \in 1 .. MaxWords /\ h \in D \ {r.Brk - 1}
      /\ Tiled(r.mem, D, r.Brk) /\ Flagged(r.mem, D, r.Brk) /\ h \in Used(r.mem, D, r.Brk)
  BY <1>4 DEF Heap, Used
<1>6. /\ h \in Addr /\ h \in Nat /\ r.mem[h].size \in Nat /\ r.mem[h].size <= MaxWords
      /\ h + r.mem[h].size \in Addr
  <2>1. h \in Addr /\ h \in Nat /\ r.mem[h].size \in 0 .. MaxWords /\ h + r.mem[h].size \in Addr
    BY <1>5, Places
  <2> QED BY <2>1, SizesAssumption
<1>7. p \in Nat /\ p = h + 1 /\ p - 1 = h /\ p # Null
  BY <1>6 DEF Null
<1>8. \A a \in Addr : a \in Nat /\ a < MaxWords
  BY SizesAssumption DEF Addr
<1>9. p \in Addr
  <2> DEFINE e == h + r.mem[h].size
  <2>1. e \in Addr /\ e >= p
    BY <1>2, <1>4, <1>6
  <2> HIDE DEF e, p
  <2> QED BY <2>1, <1>7, SizesAssumption DEF Addr
<1>10. /\ len \in Nat /\ len <= n /\ len <= size
       /\ \A i \in Nat : i < n /\ i < asked[c] => i < len
  BY <1>2, <1>3
<1>11. \A j \in 0 .. len - 1 : old + j \in Addr /\ old + j \in o + 1 .. o + size
  <2> TAKE j \in 0 .. len - 1
  <2> DEFINE e == o + size
  <2>1. o # Brk - 1
    BY <1>3 DEF Used
  <2>2. e \in Addr
    <3>1. mem \in [Addr -> Word] /\ Brk \in 1 .. MaxWords /\ Tiled(mem, C, Brk)
      BY DEF Heap
    <3> HIDE DEF o
    <3> QED BY <1>3, <2>1, <3>1, Places
  <2>3. old + j >= old /\ old + j <= e /\ old + j \in Nat /\ old = o + 1
    BY <1>3, <1>10
  <2>4. old + j \in Addr
    <3> DEFINE a == old + j
    <3> HIDE DEF e, a
    <3>1. a \in Nat /\ a <= e
      BY <2>3 DEF a
    <3> QED BY <3>1, <2>2, SizesAssumption DEF Addr, a
  <2> QED BY <1>3, <2>3, <2>4
<1> HIDE DEF len, p, h, size
<1>12. \A a \in Addr : copy[a] = IF a >= p /\ a < p + len THEN r.mem[a - p + old] ELSE r.mem[a]
  OBVIOUS
<1>13. \A a \in Addr : a >= p /\ a < p + len =>
          a - p \in 0 .. len - 1 /\ a - p + old = old + (a - p)
  BY <1>3, <1>7, <1>8, <1>10
<1>14. copy \in [Addr -> Word]
  <2>1. ASSUME NEW a \in Addr PROVE copy[a] \in Word
    <3>1. CASE a >= p /\ a < p + len
      <4>1. a - p + old \in Addr
        BY <1>11, <1>13, <3>1
      <4> QED BY <1>5, <1>12, <3>1, <4>1
    <3>2. CASE ~(a >= p /\ a < p + len)
      BY <1>5, <1>12, <3>2
    <3> QED BY <3>1, <3>2
  <2>2. copy = [a \in Addr |-> copy[a]]
    OBVIOUS
  <2> QED BY <2>1, <2>2
<1> HIDE DEF copy
<1>15. \A a \in Addr : a <= h \/ a > h + r.mem[h].size => copy[a] = r.mem[a]
  <2> TAKE a \in Addr
  <2>1. a <= h \/ a > h + r.mem[h].size => ~(a >= p /\ a < p + len)
    BY <1>2, <1>4, <1>6, <1>7, <1>8, <1>10
  <2> QED BY <1>12, <2>1
<1>16. WritesIn(r.mem, D, r.Brk, h, copy)
  BY <1>5, <1>15 DEF WritesIn
<1>17. /\ Heap(copy, D, r.Brk) /\ Used(copy, D, r.Brk) = U \cup {h}
       /\ copy[h] = r.mem[h] /\ Keeps(r.mem, copy, (U \cup {h}) \ {h})
  BY <1>4, <1>5, <1>14, <1>16, UsedWritten
<1>18. o # h /\ o \in Used(copy, D, r.Brk)
  BY <1>3, <1>4, <1>17
<1>19. PICK E : /\ Heap(z.mem, E, z.Brk) /\ Used(z.mem, E, z.Brk) = (U \cup {h}) \ {o}
                /\ Keeps(copy, z.mem, (U \cup {h}) \ {o})
  <2>1. z = release(copy, o, r.Brk)
    BY DEF z, copy, p, h, size, len
  <2> HIDE DEF o, U
  <2>2. Without(copy, D, r.Brk, o, z)
    BY <1>17, <1>18, <2>1, Released
  <2> QED BY <1>17, <2>2 DEF Without
<1>20. h \in Used(z.mem, E, z.Brk) /\ z.mem[h].size = r.mem[h].size
  <2>1. h \in (U \cup {h}) \ {o}
    BY <1>18
  <2> QED BY <1>17, <1>19, <2>1 DEF Keeps
<1>21. \A a \in Addr : mem'[a] = IF a >= p + asked[c] /\ a < p + n THEN Data(c, a - p) ELSE z.mem[a]
  BY <1>1
<1>22. /\ z.mem \in [Addr -> Word] /\ z.Brk \in 1 .. MaxWords /\ h \in E \ {z.Brk - 1}
       /\ Tiled(z.mem, E, z.Brk) /\ Flagged(z.mem, E, z.Brk)
  BY <1>19, <1>20 DEF Heap, Used
<1>23. mem' \in [Addr -> Word]
  <2>1. ASSUME NEW a \in Addr PROVE mem'[a] \in Word
    <3>1. CASE a >= p + asked[c] /\ a < p + n
      <4>1. a - p \in 0 .. MaxWords
        BY <1>2, <1>3, <1>4, <1>6, <1>7, <1>8, <3>1, SizesAssumption
      <4> QED BY <1>21, <3>1, <4>1, DataType
    <3>2. CASE ~(a >= p + asked[c] /\ a < p + n)
      BY <1>21, <1>22, <3>2
    <3> QED BY <3>1, <3>2
  <2>2. mem' = [a \in Addr |-> mem'[a]]
    BY <1>1
  <2> QED BY <2>1, <2>2
<1>24. \A a \in Addr : a <= h \/ a > h + z.mem[h].size => mem'[a] = z.mem[a]
  <2> TAKE a \in Addr
  <2>1. a <= h \/ a > h + r.mem[h].size => ~(a >= p + asked[c] /\ a < p + n)
    BY <1>2, <1>3, <1>4, <1>6, <1>7, <1>8
  <2> QED BY <1>20, <1>21, <2>1
<1>25. WritesIn(z.mem, E, z.Brk, h, mem')
  BY <1>22, <1>24 DEF WritesIn
<1>26. /\ Heap(mem', E, z.Brk) /\ Used(mem', E, z.Brk) = (U \cup {h}) \ {o}
       /\ mem'[h] = z.mem[h] /\ Keeps(z.mem, mem', ((U \cup {h}) \ {o}) \ {h})
  BY <1>19, <1>20, <1>23, <1>25, UsedWritten
<1>27. Others(C, c) = U \ {o}
  BY DEF Others
<1> HIDE DEF U, o
<1>28. Keeps(mem, mem', U \ {o})
  <2> SUFFICES ASSUME NEW g \in U \ {o}
               PROVE  /\ mem'[g].size = mem[g].size
                      /\ \A a \in g + 1 .. g + mem[g].size : mem'[a] = mem[a]
    BY DEF Keeps
  <2>1. g \in U /\ g \in (U \cup {h}) \ {h} /\ g \in (U \cup {h}) \ {o} /\ g \in ((U \cup {h}) \ {o}) \ {h}
    BY <1>4
  <2>2. r.mem[g].size = mem[g].size /\ \A a \in g + 1 .. g + mem[g].size : r.mem[a] = mem[a]
    BY <1>4, <2>1 DEF Keeps
  <2>3. copy[g].size = mem[g].size /\ \A a \in g + 1 .. g + mem[g].size : copy[a] = mem[a]
    BY <1>17, <2>1, <2>2 DEF Keeps
  <2>4. z.mem[g].size = mem[g].size /\ \A a \in g + 1 .. g + mem[g].size : z.mem[a] = mem[a]
    BY <1>19, <2>1, <2>3 DEF Keeps
  <2> QED BY <1>26, <2>1, <2>4 DEF Keeps
<1>29. ASSUME NEW i \in 0 .. n - 1
       PROVE  mem'[p + i] = Data(c, i)
  <2> DEFINE a == p + i
             e == h + r.mem[h].size
  <2>1. i \in Nat /\ i < n /\ a >= p /\ a \in Nat /\ a <= e /\ e \in Addr /\ a - p = i /\ a < p + n
    BY <1>2, <1>4, <1>6, <1>7
  <2>2. a >= p + asked[c] <=> i >= asked[c]
    BY <1>3, <1>7, <2>1
  <2>3. a \in h + 1 .. e
    BY <1>6, <1>7, <2>1
  <2>4. i < len => a < p + len
    BY <1>7, <1>10, <2>1
  <2> HIDE DEF a
  <2>5. a \in Addr
    <3> HIDE DEF e
    <3> QED BY <2>1, SizesAssumption DEF Addr
  <2>6. CASE i >= asked[c]
    BY <1>21, <2>1, <2>2, <2>5, <2>6 DEF a
  <2>7. CASE ~(i >= asked[c])
    <3>1. i < len /\ i \in 0 .. len - 1 /\ i \in 0 .. asked[c] - 1
      BY <1>3, <1>10, <2>1, <2>7
    <3>2. mem'[a] = z.mem[a]
      BY <1>21, <2>2, <2>5, <2>7
    <3>3. z.mem[a] = copy[a]
      <4>1. h \in (U \cup {h}) \ {o}
        BY <1>18
      <4>2. copy[h].size = r.mem[h].size
        BY <1>17
      <4> QED BY <1>19, <2>3, <4>1, <4>2 DEF Keeps
    <3>4. copy[a] = r.mem[old + i]
      <4>1. copy[a] = r.mem[a - p + old]
        BY <1>12, <2>1, <2>4, <2>5, <3>1
      <4>2. a - p + old = old + i
        BY <1>13, <2>1, <2>4, <2>5, <3>1
      <4> QED BY <4>1, <4>2
    <3>5. r.mem[old + i] = mem[old + i]
      <4>1. old + i \in o + 1 .. o + mem[o].size
        BY <1>11, <3>1 DEF size
      <4> QED BY <1>3, <1>4, <4>1 DEF Keeps
    <3>6. mem[old + i] = Data(c, i)
      BY <1>3, <3>1
    <3> QED BY <3>2, <3>3, <3>4, <3>5, <3>6 DEF a
  <2> QED BY <1>3, <2>1, <2>6, <2>7
<1>30. /\ Used(mem', E, Brk') = Others(C, c) \cup Given(p) /\ p - 1 \notin Others(C, c)
       /\ n <= mem'[p - 1].size
  <2>1. (U \cup {h}) \ {o} = (U \ {o}) \cup {h}
    BY <1>18
  <2>2. Given(p) = {h}
    BY <1>7 DEF Given
  <2>3. mem'[h].size >= n
    BY <1>4, <1>20, <1>26
  <2>4. h \notin U \ {o}
    BY <1>4
  <2> QED BY <1>1, <1>2, <1>6, <1>7, <1>20, <1>26, <1>27, <2>1, <2>2, <2>3, <2>4
<1>31. p \in Addr \cup {Null} /\ n \in Sizes \cup {0}
  BY <1>9
<1>32. ptr' = [ptr EXCEPT ![c] = p] /\ asked' = [asked EXCEPT ![c] = n]
  BY <1>1
<1>33. Heap(mem', E, Brk') /\ Keeps(mem, mem', Others(C, c))
  BY <1>1, <1>26, <1>27, <1>28
<1> QED BY <1>29, <1>30, <1>31, <1>32, <1>33, Stepped

-----------------------------------------------------------------------------
(* The invariant.                                                            *)

\* The heap that __initmalloc makes is sound, and nobody holds a block.
LEMMA Started == Init => IInv
<1> SUFFICES ASSUME Init PROVE IInv
  OBVIOUS
<1>1. MaxWords \in Nat /\ MaxWords > 0 /\ Addr = 0 .. MaxWords - 1 /\ 0 \in Addr
  BY SizesAssumption DEF Addr
<1>2. /\ mem[0] = Header(0, FALSE, FALSE) /\ Brk = 1
      /\ \A c \in Client : ptr[c] = Null /\ asked[c] = 0
  BY <1>1 DEF Init, firstHeader
<1>3. Header(0, FALSE, FALSE) \in Word /\ Unmapped \in Word
  BY <1>1 DEF Header, Unmapped, Cell, Word
<1>4. TypeOK
  <2>1. mem \in [Addr -> Word]
    BY <1>3 DEF Init
  <2>2. Brk \in 1 .. MaxWords
    BY <1>1, <1>2
  <2>3. ptr \in [Client -> Addr \cup {Null}] /\ asked \in [Client -> Sizes \cup {0}]
    BY DEF Init
  <2> QED BY <2>1, <2>2, <2>3 DEF TypeOK
<1>5. Live = {}
  BY <1>2 DEF Live
<1>6. ~mem[0].prevFree /\ ~mem[0].free /\ mem[0].size = 0 /\ mem[0].owner = "header"
  BY <1>2 DEF Header, Cell
<1>7. Tiled(mem, {0}, Brk)
  <2>1. Brk - 1 = 0 /\ {0} \in SUBSET (0 .. 0)
    BY <1>2
  <2> QED BY <1>6, <2>1 DEF Tiled
<1>8. {0} \ {Brk - 1} = {}
  BY <1>2
<1>9. Heap(mem, {0}, Brk)
  BY <1>4, <1>6, <1>7, <1>8 DEF Heap, Flagged, Tagged, Apart, TypeOK
<1>10. Held({0}) /\ Filled
  BY <1>5, <1>8 DEF Held, Filled, Used
<1> QED BY <1>1, <1>4, <1>9, <1>10 DEF IInv

LEMMA Kept == IInv /\ [Next]_vars => IInv'
<1> SUFFICES ASSUME IInv, [Next]_vars PROVE IInv'
  OBVIOUS
<1>1. PICK C \in SUBSET Addr : Heap(mem, C, Brk) /\ Held(C)
  BY DEF IInv
<1>2. TypeOK /\ Filled
  BY DEF IInv
<1>3. ASSUME NEW c \in Client, free(c) PROVE IInv'
  BY <1>1, <1>2, <1>3, Free
<1>4. ASSUME NEW c \in Client, NEW n \in Sizes, malloc(c, n) PROVE IInv'
  BY <1>1, <1>2, <1>4, Malloc
<1>5. ASSUME NEW c \in Client, NEW n \in Sizes, realloc(c, n) PROVE IInv'
  BY <1>1, <1>2, <1>5, Realloc
<1>6. CASE UNCHANGED vars
  BY <1>6 DEF vars, IInv, TypeOK, Held, Filled, Live
<1> QED BY <1>3, <1>4, <1>5, <1>6 DEF Next

LEMMA Inductive == Spec => []IInv
BY Started, Kept, PTL DEF Spec

\* malloc and free keep the chain of headers intact: it tiles the heap up to the break,
\* flags and tags agree, no two neighbours are free, the last block is in use, and what
\* sbrk gives next follows the end of the list, as malloc asserts.
THEOREM HeapStaysSound == Spec => []HeapInv
<1>1. IInv => HeapInv
  <2> SUFFICES ASSUME IInv PROVE HeapInv
    OBVIOUS
  <2>1. PICK C \in SUBSET Addr : Heap(mem, C, Brk)
    BY DEF IInv
  <2>2. /\ mem \in [Addr -> Word] /\ Brk \in 1 .. MaxWords /\ Tiled(mem, C, Brk)
        /\ Flagged(mem, C, Brk) /\ Tagged(mem, C, Brk) /\ Apart(mem, C, Brk)
    BY <2>1 DEF Heap
  <2>3. Headers = C
    BY <2>2, ChainIs DEF Headers
  <2>4. \A h \in C : /\ h \in Nat /\ h <= Brk - 1 /\ mem[h].owner = "header"
                     /\ (mem[h].size = 0 <=> h = Brk - 1)
                     /\ h # Brk - 1 => h + mem[h].size + 1 \in C
    <3>1. \A h \in C : mem[h].owner = "header" /\ (mem[h].size = 0 <=> h = Brk - 1)
      BY <2>2 DEF Tiled
    <3> QED BY <2>2, <3>1, Places
  <2>5. Blocks = C \ {Brk - 1}
    BY <2>3, <2>4 DEF Blocks
  <2>6. ChainEndsAtBrk
    <3>1. Brk \in Nat
      BY <2>1, HeapPlaces
    <3>2. \A h \in C : h < Brk
      BY <2>4, <3>1
    <3> QED BY <2>3, <2>4, <3>2 DEF ChainEndsAtBrk
  <2>7. \A h \in C : Prev(h) = {g \in C \ {Brk - 1} : g + mem[g].size + 1 = h}
    BY <2>5 DEF Prev, nextHeader
  <2>8. ASSUME NEW h \in C
        PROVE  mem[h].prevFree <=> \E g \in Prev(h) : mem[g].free
    <3>1. ASSUME mem[h].prevFree PROVE \E g \in Prev(h) : mem[g].free
      BY <2>2, <2>7, <3>1, Before
    <3>2. ASSUME NEW g \in Prev(h), mem[g].free PROVE mem[h].prevFree
      BY <2>2, <2>7, <3>2 DEF Flagged
    <3> QED BY <3>1, <3>2
  <2>9. TagsRight
    BY <2>2, <2>3, <2>5, <2>8 DEF TagsRight, Tagged, getNextBoundaryTag
  <2>10. Coalesced
    <3> SUFFICES ASSUME NEW h \in C \ {Brk - 1}, mem[h].free
                 PROVE  /\ mem[h + mem[h].size + 1].size # 0
                        /\ ~mem[h + mem[h].size + 1].free
      BY <2>5 DEF Coalesced, nextHeader
    <3>1. h + mem[h].size + 1 # Brk - 1 /\ ~mem[h + mem[h].size + 1].free
      BY <2>2 DEF Apart
    <3> QED BY <2>4, <3>1
  <2>11. SbrkContiguous
    <3> SUFFICES ASSUME NEW n \in Sizes PROVE Malloced(mem, Brk, n).ok
      BY DEF SbrkContiguous
    <3>1. n \in Nat /\ n > 0
      BY SizesAssumption
    <3> QED BY <2>1, <3>1, BlockFound
  <2> QED BY <2>6, <2>9, <2>10, <2>11 DEF HeapInv, IInv
<1> QED BY <1>1, Inductive, PTL

\* What a client has written in its block stays there until it frees the block, also
\* through realloc and whatever the other clients do.
THEOREM ContentStaysIntact == Spec => []ContentIntact
<1>1. IInv => ContentIntact
  <2> SUFFICES ASSUME IInv, NEW c \in Live, NEW i \in 0 .. asked[c] - 1
               PROVE  ptr[c] + i < Brk /\ mem[ptr[c] + i] = Data(c, i)
    BY DEF ContentIntact
  <2>1. PICK C \in SUBSET Addr : Heap(mem, C, Brk) /\ Held(C)
    BY DEF IInv
  <2> DEFINE h == ptr[c] - 1
  <2>2. /\ ptr[c] \in Nat /\ h \in Used(mem, C, Brk) /\ asked[c] \in Nat
        /\ mem[h].size \in Nat /\ asked[c] <= mem[h].size /\ mem[ptr[c] + i] = Data(c, i)
    BY <2>1, Theirs DEF IInv
  <2>3. h \in C \ {Brk - 1} /\ mem \in [Addr -> Word] /\ Brk \in 1 .. MaxWords /\ Tiled(mem, C, Brk)
    BY <2>1, <2>2 DEF Used, Heap
  <2> HIDE DEF h
  <2>4. h + mem[h].size + 1 <= Brk - 1 /\ Brk \in Nat
    BY <2>1, <2>3, Places, HeapPlaces
  <2>5. ptr[c] + i < Brk
    BY <2>2, <2>4 DEF h
  <2> QED BY <2>2, <2>5
<1> QED BY <1>1, Inductive, PTL

\* Nothing leaks: every block that is not free is the block of a live client, and every
\* live client has one.
THEOREM NothingLeaks == Spec => []NoLeak
<1>1. IInv => NoLeak
  <2> SUFFICES ASSUME IInv PROVE NoLeak
    OBVIOUS
  <2>1. PICK C \in SUBSET Addr : Heap(mem, C, Brk) /\ Held(C)
    BY DEF IInv
  <2>2. Headers = C
    BY <2>1, ChainIs DEF Headers, Heap
  <2>3. {b \in Blocks : ~mem[b].free} = Used(mem, C, Brk)
    BY <2>1, <2>2 DEF Blocks, Used, Heap, Tiled
  <2>4. \A c \in Live : ptr[c] - 1 \in Used(mem, C, Brk) /\ headerToPtr(ptr[c] - 1) = ptr[c]
    <3> TAKE c \in Live
    <3>1. ptr[c] \in Nat /\ ptr[c] - 1 \in Used(mem, C, Brk)
      BY <2>1, Theirs DEF IInv
    <3> QED BY <3>1 DEF headerToPtr
  <2>5. \A h \in Used(mem, C, Brk) : \E c \in Live : ptr[c] = headerToPtr(h)
    BY <2>1 DEF Held, headerToPtr
  <2> QED BY <2>3, <2>4, <2>5 DEF NoLeak
<1> QED BY <1>1, Inductive, PTL
=============================================================================
