---------------------------- MODULE MemoryProofs ----------------------------
(***************************************************************************)
(* Proofs about the memory of processes.                                   *)
(*                                                                         *)
(* ActiveAlive: the tables the processor walks are those of a living       *)
(* process.  It is inductive with the shape of what the steps rewrite: the *)
(* maps of the processes and the two registers of the MMU.                 *)
(*                                                                         *)
(* MemInv, HeapMapped and the refinement of AddressSpaces: there is a set  *)
(* X of triples <<process, path, frame>> that says which table or page of  *)
(* which process each frame is (Planted: a frame is one node, and a node   *)
(* hangs at a table), and memory is exactly what X says (Held).  tree then *)
(* reads X back (TreeIs).  The three operations all steps are made of keep *)
(* this: graft plants new nodes in free frames, free prunes what lies      *)
(* below a cut, a write changes one page.  ProcessIs says what X has of a  *)
(* process in each phase, Cached that the TLB of the active memory says    *)
(* nothing else of the pages that a program has, and Steps joins, for each *)
(* action, the X of the next state and what the step does to what the      *)
(* processes see.  A write through a page that the program has given back  *)
(* keeps X too (StrayStoreKeeps), but not what the others see.             *)
(*                                                                         *)
(* MapExact and FramesExclusive of the kernel's memory are those of        *)
(* FramesProofs.                                                           *)
(***************************************************************************)
EXTENDS MCMemory, FiniteSetTheorems, SequenceTheorems, WellFoundedInduction, TLAPS

-----------------------------------------------------------------------------
(* Paths of the tree *)

\* The names of the tables and pages: up to three indices.
Paths == {p \in Seq(Idx) : Len(p) <= 3}

\* A table has at least two entries.
LEMMA SizesTyped == Fan \in Nat /\ Fan >= 2 /\ 0 \in Idx /\ Idx \subseteq Nat
BY LayoutAssumption DEF Idx

\* The numbers up to 3, as a range.
LEMMA UpToThree == \A n \in Nat : n <= 3 => n \in 0..3
OBVIOUS

\* A path has at most three indices, each one of a table.
LEMMA PathTyped ==
    ASSUME NEW p \in Paths
    PROVE  /\ p \in Seq(Idx) /\ Len(p) \in Nat /\ Len(p) \in 0..3 /\ Len(p) <= 3
           /\ \A i \in 1..Len(p) : p[i] \in Idx /\ p[i] \in Nat /\ p[i] < Fan
<1>1. p \in Seq(Idx) /\ Len(p) <= 3
    BY DEF Paths
<1>2. Len(p) \in Nat
    BY <1>1
<1>3. \A i \in 1..Len(p) : p[i] \in Idx
    BY <1>1
<1>4. Len(p) \in 0..3
    <2>1. Len(p) <= 3
        BY <1>1
    <2> QED
        BY <2>1, <1>2, UpToThree, Zenon
<1>5. \A i \in Idx : i \in Nat /\ i < Fan
    BY SizesTyped DEF Idx
<1> QED
    BY <1>1, <1>2, <1>3, <1>4, <1>5, Zenon

\* A path is the one above it and an index.
LEMMA PathBelow ==
    ASSUME NEW p \in Paths, Len(p) < 3, NEW i \in Idx
    PROVE  /\ Append(p, i) \in Paths /\ Append(p, i) # PDP
           /\ Front(Append(p, i)) = p /\ Last(Append(p, i)) = i
           /\ Len(Append(p, i)) = Len(p) + 1
<1>1. p \in Seq(Idx) /\ Len(p) \in Nat
    BY PathTyped
<1>2. Append(p, i) \in Seq(Idx) /\ Len(Append(p, i)) = Len(p) + 1
    BY <1>1, AppendProperties
<1>3. Append(p, i)[Len(p) + 1] = i /\ Append(p, i) # <<>>
    BY <1>1, AppendProperties
<1>4. Front(Append(p, i)) = p
    <2>1. SubSeq(Append(p, i), 1, Len(p)) = p
        BY <1>1, AppendProperties
    <2> QED
        BY <1>1, <1>2, <2>1 DEF Front
<1> QED
    BY <1>1, <1>2, <1>3, <1>4 DEF Paths, Last, PDP

\* A path other than the root is the path above it and one index.
LEMMA PathAbove ==
    ASSUME NEW p \in Paths, p # PDP
    PROVE  /\ Front(p) \in Paths /\ Len(Front(p)) < 3 /\ Last(p) \in Idx
           /\ Append(Front(p), Last(p)) = p
           /\ Len(p) = Len(Front(p)) + 1
<1>1. p \in Seq(Idx) /\ Len(p) \in Nat /\ Len(p) # 0
    BY LenProperties, EmptySeq DEF Paths, PDP
<1>2. Front(p) \in Seq(Idx) /\ Len(Front(p)) = Len(p) - 1
    <2>1. \A i \in 1..Len(p) - 1 : p[i] \in Idx
        BY PathTyped
    <2>2. Len(p) - 1 \in Int /\ 1 \in Int
        BY <1>1
    <2>3. /\ SubSeq(p, 1, Len(p) - 1) \in Seq(Idx)
          /\ Len(SubSeq(p, 1, Len(p) - 1)) = IF 1 <= Len(p) - 1 THEN Len(p) - 1 - 1 + 1 ELSE 0
        BY <2>1, <2>2, SubSeqProperties
    <2>4. /\ Front(p) \in Seq(Idx)
          /\ Len(Front(p)) = IF 1 <= Len(p) - 1 THEN Len(p) - 1 - 1 + 1 ELSE 0
        BY <2>3, Zenon DEF Front
    <2>5. Len(p) \in Nat /\ Len(p) # 0
        BY <1>1
    <2> HIDE DEF Front
    <2>6. \A m, n \in Nat : n # 0 /\ m = (IF 1 <= n - 1 THEN n - 1 - 1 + 1 ELSE 0) => m = n - 1
        OBVIOUS
    <2>7. Len(Front(p)) \in Nat
        BY <2>4
    <2> QED
        BY <2>4, <2>5, <2>6, <2>7, Zenon
<1>3. Last(p) \in Idx
    BY <1>1, ElementOfSeq DEF Last
<1>4. Append(Front(p), Last(p)) = p
    BY <1>1, <1>2, <1>3 DEF Front, Last
<1> QED
    BY <1>1, <1>2, <1>3, <1>4 DEF Paths

\* The only path without an index is that of the PDP.
LEMMA RootPath == PDP \in Paths /\ Len(PDP) = 0 /\ \A p \in Paths : Len(p) = 0 => p = PDP
BY EmptySeq DEF Paths, PDP

\* The paths of the first PD and of its first slot.
LEMMA FirstPath ==
    /\ PD0 \in Paths /\ Len(PD0) = 1 /\ PD0 # PDP /\ PD0 = Append(PDP, 0)
    /\ <<0, 0>> \in Paths /\ Len(<<0, 0>>) = 2 /\ <<0, 0>> = Append(PD0, 0)
    /\ <<0, 0>> # PD0 /\ <<0, 0>> # PDP
BY SizesTyped DEF Paths, PD0, PDP

-----------------------------------------------------------------------------
(* Numbers in a base *)

\* Digits in base B are unique.
LEMMA Digits ==
    ASSUME NEW B \in Nat, NEW a \in Nat, NEW c \in Nat, NEW b \in 0..B - 1, NEW d \in 0..B - 1,
           a * B + b = c * B + d
    PROVE  a = c /\ b = d
<1>1. ASSUME NEW x \in Nat, NEW y \in Nat, NEW z \in 0..B - 1, NEW t \in 0..B - 1, x < y
      PROVE  x * B + z < y * B + t
    <2>1. (x + 1) * B <= y * B
        BY <1>1
    <2>2. (x + 1) * B = x * B + B
        OBVIOUS
    <2>3. x * B \in Nat /\ y * B \in Nat
        OBVIOUS
    <2> QED
        BY <2>1, <2>2, <2>3
<1>2. ~(a < c) /\ ~(c < a)
    <2>1. a * B \in Nat /\ c * B \in Nat
        OBVIOUS
    <2>2. a < c => a * B + b < c * B + d
        BY <1>1
    <2>3. c < a => c * B + d < a * B + b
        BY <1>1
    <2> QED
        BY <2>1, <2>2, <2>3
<1>3. a = c
    BY <1>2
<1> QED
    BY <1>3

\* Multiplication distributes, for the solver.
LEMMA Distributed ==
    ASSUME NEW a \in Int, NEW b \in Int, NEW F \in Int
    PROVE  (a * F + b) * F = a * (F * F) + b * F
OBVIOUS

\* Division.
LEMMA Divided ==
    ASSUME NEW n \in Nat, NEW k \in Nat, k > 0
    PROVE  /\ n \div k \in Nat /\ n % k \in 0..k - 1
           /\ n = (n \div k) * k + (n % k)
<1>1. n \div k \in Nat /\ n % k \in 0..k - 1
    OBVIOUS
<1>2. ASSUME NEW q \in Int, q = n \div k, NEW r \in Int, r = n % k
      PROVE  n = q * k + r
    BY <1>2, SMTT(30)
<1>3. n \div k \in Int /\ n % k \in Int
    BY <1>1
<1>4. n = (n \div k) * k + (n % k)
    BY <1>2, <1>3, Zenon
<1> QED
    BY <1>1, <1>4

\* A quotient and a remainder are unique.
LEMMA Quotient ==
    ASSUME NEW n \in Nat, NEW k \in Nat, k > 0, NEW q \in Nat, NEW r \in 0..k - 1, n = q * k + r
    PROVE  n \div k = q /\ n % k = r
BY SMTT(30)

-----------------------------------------------------------------------------
(* The path of a page, and the order of the paths *)

\* The indices of page v are its digits in base Fan; beyond the first PT, the first two
\* are not both 0.
LEMMA PathDigits ==
    ASSUME NEW v \in Vpn
    PROVE  /\ v \div (Fan * Fan) \in Idx /\ (v \div Fan) % Fan \in Idx /\ v % Fan \in Idx
           /\ v = ((v \div (Fan * Fan)) * Fan + ((v \div Fan) % Fan)) * Fan + (v % Fan)
           /\ v >= Fan => v \div (Fan * Fan) # 0 \/ (v \div Fan) % Fan # 0
<1> DEFINE q == v \div Fan
           a == q \div Fan
<1>1. v \in Nat /\ Fan \in Nat /\ Fan > 0 /\ Fan * Fan \in Nat /\ Fan * Fan > 0
    BY SizesTyped DEF Vpn
<1>2. q \in Nat /\ v % Fan \in 0..Fan - 1 /\ v = q * Fan + (v % Fan)
    BY <1>1, Divided
<1> HIDE DEF q
<1>3. a \in Nat /\ q % Fan \in 0..Fan - 1 /\ q = a * Fan + (q % Fan)
    BY <1>1, <1>2, Divided
<1> HIDE DEF a
<1>4. v \div (Fan * Fan) = a
    <2> DEFINE r == (q % Fan) * Fan + (v % Fan)
    <2>1. (q % Fan) * Fan \in Nat /\ (q % Fan) * Fan <= (Fan - 1) * Fan
        BY <1>1, <1>3
    <2>2. (Fan - 1) * Fan = Fan * Fan - Fan
        BY <1>1
    <2>3. r \in 0..Fan * Fan - 1
        BY <2>1, <2>2, <1>1, <1>2
    <2>4. (a * Fan + (q % Fan)) * Fan = a * (Fan * Fan) + (q % Fan) * Fan
        <3>1. a \in Int /\ q % Fan \in Int /\ Fan \in Int
            BY <1>1, <1>3
        <3> QED
            BY ONLY <3>1, Distributed
    <2>5. v = a * (Fan * Fan) + r
        BY <2>4, <2>1, <1>1, <1>2, <1>3
    <2> HIDE DEF r
    <2> QED
        BY <2>3, <2>5, <1>1, <1>3, Quotient
<1>5. a < Fan
    <2>1. v < Fan * Fan * Fan
        BY <1>1 DEF Vpn
    <2>2. ASSUME a >= Fan PROVE FALSE
        <3>1. a * (Fan * Fan) >= Fan * (Fan * Fan)
            BY <2>2, <1>1, <1>3
        <3>2. (a * Fan + (q % Fan)) * Fan >= a * (Fan * Fan)
            <4>1. (a * Fan + (q % Fan)) * Fan = a * (Fan * Fan) + (q % Fan) * Fan
                <5>1. a \in Int /\ q % Fan \in Int /\ Fan \in Int
                    BY <1>1, <1>3
                <5> QED
                    BY ONLY <5>1, Distributed
            <4>2. (q % Fan) * Fan >= 0
                BY <1>1, <1>3
            <4> QED
                BY <4>1, <4>2, <1>1, <1>3
        <3>3. v >= Fan * (Fan * Fan)
            BY <3>1, <3>2, <1>1, <1>2, <1>3
        <3>4. Fan * (Fan * Fan) = Fan * Fan * Fan
            BY <1>1
        <3> QED
            BY <3>3, <3>4, <2>1, <1>1
    <2> QED
        BY <2>2, <1>1, <1>3
<1>6. ASSUME a = 0, q % Fan = 0 PROVE v < Fan
    <2>1. q = 0
        BY <1>1, <1>3, <1>6
    <2> QED
        BY <2>1, <1>1, <1>2
<1> QED
    BY <1>1, <1>2, <1>3, <1>4, <1>5, <1>6 DEF Idx, q

\* The path of a page has three indices, and does not lie below the identity map.
LEMMA PathOfPage ==
    ASSUME NEW v \in Vpn
    PROVE  /\ Path(v) \in Paths /\ Len(Path(v)) = 3 /\ Path(v) # PDP
           /\ v >= Fan => Front(Path(v)) # <<0, 0>>
<1>1. Path(v) \in Seq(Idx) /\ Len(Path(v)) = 3
    BY PathDigits DEF Path
<1>2. ASSUME NEW a \in Idx, NEW b \in Idx, NEW c \in Idx
      PROVE  Front(<<a, b, c>>) = <<a, b>>
    <2>1. <<a, b>> \in Paths /\ Len(<<a, b>>) < 3
        BY DEF Paths
    <2>2. <<a, b, c>> \in Seq(Idx) /\ <<a, b>> \in Seq(Idx) /\ Len(<<a, b>>) = 2
        OBVIOUS
    <2>3. Append(<<a, b>>, c) \in Seq(Idx) /\ Len(Append(<<a, b>>, c)) = 3
        BY <2>2
    <2>4. \A i \in 1..3 : Append(<<a, b>>, c)[i] = <<a, b, c>>[i]
        BY <2>2
    <2>5. Append(<<a, b>>, c) = <<a, b, c>>
        BY <2>2, <2>3, <2>4, SeqEqual
    <2> QED
        BY <2>1, <2>5, PathBelow
<1>3. Front(Path(v)) = <<v \div (Fan * Fan), (v \div Fan) % Fan>>
    BY <1>2, PathDigits DEF Path
<1>4. \A a, b \in Idx : <<a, b>> = <<0, 0>> => a = 0 /\ b = 0
    OBVIOUS
<1>5. v >= Fan => Front(Path(v)) # <<0, 0>>
    BY <1>3, <1>4, PathDigits
<1>6. Path(v) \in Paths
    <2>1. 3 <= 3
        OBVIOUS
    <2> QED
        BY <1>1, <2>1, Zenon DEF Paths
<1>7. Path(v) # PDP
    <2>1. 3 # 0
        OBVIOUS
    <2> QED
        BY <1>1, <2>1, RootPath, Zenon
<1> QED
    BY <1>1, <1>5, <1>6, <1>7

\* Two pages have different paths.
LEMMA PathUnique ==
    ASSUME NEW v \in Vpn, NEW w \in Vpn, Path(v) = Path(w)
    PROVE  v = w
<1>1. /\ v \div (Fan * Fan) = w \div (Fan * Fan)
      /\ (v \div Fan) % Fan = (w \div Fan) % Fan
      /\ v % Fan = w % Fan
    BY DEF Path
<1> QED
    BY <1>1, PathDigits

\* A set of prefixes goes up to the root.
LEMMA PrefixesGoUp ==
    ASSUME NEW p \in Paths, NEW q \in Prefixes(p)
    PROVE  /\ q \in Paths /\ Len(q) <= Len(p) /\ (Len(q) = Len(p) => q = p)
           /\ q # PDP => Front(q) \in Prefixes(p)
<1>1. p \in Seq(Idx) /\ Len(p) \in 0..3
    BY PathTyped
<1>2. PICK n \in 0..Len(p) : q = SubSeq(p, 1, n)
    BY DEF Prefixes
<1>3. \A i \in 1..n : p[i] \in Idx
    BY <1>1, ElementOfSeq
<1>4. q \in Seq(Idx) /\ Len(q) = n /\ \A i \in 1..n : q[i] = p[i]
    BY <1>1, <1>2, <1>3, SubSeqProperties
<1>5. n = Len(p) => q = p
    BY <1>1, <1>2, SubSeqFull
<1>6. q # PDP => Front(q) \in Prefixes(p)
    <2> HAVE q # PDP
    <2>1. n > 0
        BY <1>4, EmptySeq DEF PDP
    <2>2. Front(q) = SubSeq(p, 1, n - 1)
        BY <1>2, <1>4, <1>1, <2>1 DEF Front
    <2> QED
        BY <2>1, <2>2, <1>1 DEF Prefixes
<1> QED
    BY <1>1, <1>4, <1>5, <1>6 DEF Paths

\* A path is one of its prefixes, and the root is one too.
LEMMA PrefixesOwn ==
    ASSUME NEW p \in Paths
    PROVE  p \in Prefixes(p) /\ PDP \in Prefixes(p)
<1>1. p \in Seq(Idx) /\ Len(p) \in Nat
    BY PathTyped
<1>2. SubSeq(p, 1, Len(p)) = p /\ SubSeq(p, 1, 0) = <<>>
    BY <1>1, SubSeqFull, SubSeqEmpty
<1>3. \A n \in Nat : n \in 0..n /\ 0 \in 0..n
    OBVIOUS
<1> QED
    BY <1>1, <1>2, <1>3, Zenon DEF Prefixes, PDP

\* preorder numbers the paths.
LEMMA PreorderUnique ==
    ASSUME NEW p \in Paths, NEW q \in Paths, preorder(p) = preorder(q)
    PROVE  p = q
<1> DEFINE digit(r, k) == IF k <= Len(r) THEN r[k] + 1 ELSE 0
           B == Fan + 1
<1>1. p \in Seq(Idx) /\ Len(p) \in 0..3 /\ q \in Seq(Idx) /\ Len(q) \in 0..3
    BY PathTyped
<1>2. \A k \in 1..3 : digit(p, k) \in 0..B - 1 /\ digit(q, k) \in 0..B - 1
    <2> TAKE k \in 1..3
    <2>1. k <= Len(p) => p[k] \in Nat /\ p[k] < Fan
        BY PathTyped
    <2>2. k <= Len(q) => q[k] \in Nat /\ q[k] < Fan
        BY PathTyped
    <2>3. \A n \in Nat : n < Fan => n + 1 \in 0..B - 1
        BY SizesTyped
    <2>4. 0 \in 0..B - 1
        BY SizesTyped
    <2> QED
        BY <2>1, <2>2, <2>3, <2>4, Zenon
<1>3. /\ preorder(p) = (digit(p, 1) * B + digit(p, 2)) * B + digit(p, 3)
      /\ preorder(q) = (digit(q, 1) * B + digit(q, 2)) * B + digit(q, 3)
    BY DEF preorder
<1>4. B \in Nat
    BY SizesTyped
<1> HIDE DEF digit, B
<1>5. digit(p, 1) * B + digit(p, 2) \in Nat /\ digit(q, 1) * B + digit(q, 2) \in Nat
    BY <1>2, <1>4
<1>6. digit(p, 3) = digit(q, 3) /\ digit(p, 1) * B + digit(p, 2) = digit(q, 1) * B + digit(q, 2)
    <2> DEFINE a == digit(p, 1) * B + digit(p, 2)
               c == digit(q, 1) * B + digit(q, 2)
    <2>1. a \in Nat /\ c \in Nat /\ a * B + digit(p, 3) = c * B + digit(q, 3)
        BY <1>3, <1>5
    <2> HIDE DEF a, c
    <2>2. a = c /\ digit(p, 3) = digit(q, 3)
        BY <2>1, <1>2, <1>4, Digits
    <2> QED
        BY <2>2 DEF a, c
<1>7. digit(p, 2) = digit(q, 2) /\ digit(p, 1) = digit(q, 1)
    <2>1. digit(p, 1) \in Nat /\ digit(q, 1) \in Nat
        BY <1>2
    <2>2. digit(p, 2) \in 0..B - 1 /\ digit(q, 2) \in 0..B - 1
        BY <1>2
    <2> QED
        BY <1>6, <1>4, <2>1, <2>2, Digits
<1>8. \A k \in 1..3 : digit(p, k) = digit(q, k)
    BY <1>6, <1>7
<1>9. \A k \in 1..3 : (k <= Len(p) <=> k <= Len(q)) /\ (k <= Len(p) => p[k] = q[k])
    <2> TAKE k \in 1..3
    <2>1. k <= Len(p) => p[k] \in Nat
        BY PathTyped
    <2>2. k <= Len(q) => q[k] \in Nat
        BY PathTyped
    <2>3. \A m, n \in Nat : m + 1 # 0 /\ (m + 1 = n + 1 => m = n)
        OBVIOUS
    <2>4. /\ digit(p, k) = IF k <= Len(p) THEN p[k] + 1 ELSE 0
          /\ digit(q, k) = IF k <= Len(q) THEN q[k] + 1 ELSE 0
        BY DEF digit
    <2>5. digit(p, k) = digit(q, k)
        BY <1>8
    <2>6. CASE k <= Len(p) /\ k <= Len(q)
        BY <2>1, <2>2, <2>3, <2>4, <2>5, <2>6, Zenon
    <2>7. CASE k <= Len(p) /\ ~(k <= Len(q))
        BY <2>1, <2>3, <2>4, <2>5, <2>7, Zenon
    <2>8. CASE ~(k <= Len(p)) /\ k <= Len(q)
        BY <2>2, <2>3, <2>4, <2>5, <2>8, Zenon
    <2> QED
        BY <2>6, <2>7, <2>8, Zenon
<1>10. Len(p) = Len(q)
    <2>1. \A m, n \in 0..3 : (\A k \in 1..3 : k <= m <=> k <= n) => m = n
        OBVIOUS
    <2>2. \A k \in 1..3 : k <= Len(p) <=> k <= Len(q)
        BY <1>9, Zenon
    <2>3. Len(p) \in 0..3 /\ Len(q) \in 0..3
        BY <1>1
    <2> HIDE DEF digit
    <2> QED
        BY <2>1, <2>2, <2>3, Zenon
<1> QED
    BY <1>1, <1>9, <1>10, SeqEqual

\* The PDP comes first in the order of the loops.
LEMMA PreorderFirst ==
    ASSUME NEW p \in Paths
    PROVE  preorder(p) \in Nat /\ preorder(PDP) = 0
<1> DEFINE digit(r, k) == IF k <= Len(r) THEN r[k] + 1 ELSE 0
           B == Fan + 1
<1>1. p \in Seq(Idx) /\ Len(p) \in 0..3
    BY PathTyped
<1>2. \A k \in 1..3 : digit(p, k) \in Nat
    <2> TAKE k \in 1..3
    <2>1. k <= Len(p) => p[k] \in Nat
        BY PathTyped
    <2> QED
        BY <2>1, <1>1
<1>3. preorder(p) = (digit(p, 1) * B + digit(p, 2)) * B + digit(p, 3)
    BY DEF preorder
<1>4. preorder(PDP) = (0 * B + 0) * B + 0
    BY RootPath DEF preorder
<1>5. B \in Nat
    BY SizesTyped
<1> HIDE DEF digit, B
<1>6. digit(p, 1) * B + digit(p, 2) \in Nat
    BY <1>2, <1>5
<1> QED
    BY <1>2, <1>3, <1>4, <1>5, <1>6

-----------------------------------------------------------------------------
(* Numbers and ranks *)

\* A set of numbers has a least one.
LEMMA Least ==
  ASSUME NEW T \in SUBSET Nat, T # {}
  PROVE  \E n \in T : \A m \in T : n <= m
<1> DEFINE Upto(n) == 0 .. n
           C == {Upto(n) : n \in T}
<1>1. IsWellFoundedOn(StrictSubsetOrdering(Nat), FiniteSubsetsOf(Nat))
  BY FS_StrictSubsetOrderingWellFounded
<1>2. \A n \in T : Upto(n) \in FiniteSubsetsOf(Nat)
  <2> TAKE n \in T
  <2>1. IsFiniteSet(0 .. n)
    BY FS_Interval
  <2>2. QED BY <2>1 DEF FiniteSubsetsOf
<1>3. \A n \in T, m \in T : m < n => <<Upto(m), Upto(n)>> \in StrictSubsetOrdering(Nat)
  <2> TAKE n \in T, m \in T
  <2>1. m < n => /\ Upto(m) \in SUBSET Nat /\ Upto(n) \in SUBSET Nat
                 /\ Upto(m) \subseteq Upto(n) /\ n \in Upto(n) /\ n \notin Upto(m)
    OBVIOUS
  <2> HIDE DEF Upto
  <2>2. QED BY <2>1 DEF StrictSubsetOrdering
<1> HIDE DEF Upto
<1>4. C # {} /\ C \subseteq FiniteSubsetsOf(Nat)
  BY <1>2
<1> HIDE DEF C
<1>5. \E x \in C : \A y \in C : ~(<<y, x>> \in StrictSubsetOrdering(Nat))
  BY <1>1, <1>4, WFMin
<1>6. PICK n \in T : \A m \in T : ~(<<Upto(m), Upto(n)>> \in StrictSubsetOrdering(Nat))
  BY <1>5 DEF C
<1>7. \A m \in T : ~(m < n)
  BY <1>3, <1>6
<1>8. QED BY <1>7

\* The frames of S below f.
under(S, f) == {g \in S : g < f}

\* Sets of frames can be counted.
LEMMA FramesFinite ==
    ASSUME NEW S \in SUBSET Frame
    PROVE  /\ IsFiniteSet(S) /\ Cardinality(S) \in Nat
           /\ \A f : IsFiniteSet(under(S, f)) /\ Cardinality(under(S, f)) \in Nat
<1>1. IsFiniteSet(Frame)
    BY BoundsAssumption, FS_Interval DEF Frame
<1>2. \A T \in SUBSET Frame : IsFiniteSet(T) /\ Cardinality(T) \in Nat
    BY <1>1, FS_Subset, FS_CardinalityType
<1>3. \A f : under(S, f) \in SUBSET Frame
    BY DEF under
<1> QED
    BY <1>2, <1>3

\* In a set of frames there is one of every rank.
LEMMA Ranked ==
    ASSUME NEW S \in SUBSET Frame, NEW n \in Nat, n < Cardinality(S)
    PROVE  \E f \in S : Cardinality(under(S, f)) = n
<1> DEFINE Bad == {k \in Nat : k < Cardinality(S) /\ ~\E f \in S : Cardinality(under(S, f)) = k}
<1>1. SUFFICES ASSUME Bad # {} PROVE FALSE
    OBVIOUS
<1>2. Bad \in SUBSET Nat
    OBVIOUS
<1>3. PICK k \in Bad : \A j \in Bad : k <= j
    BY <1>1, <1>2, Least
<1>4. k \in Nat /\ k < Cardinality(S) /\ \A f \in S : Cardinality(under(S, f)) # k
    OBVIOUS
<1>5. Frame \subseteq Nat
    BY BoundsAssumption DEF Frame
<1>7. CASE k = 0
    <2>1. S # {}
        BY <1>4, <1>7, FS_EmptySet
    <2>2. PICK f \in S : \A g \in S : f <= g
        BY <2>1, <1>5, Least
    <2>3. \A g \in S : ~(g < f)
        BY <2>2, <1>5
    <2>4. under(S, f) = {}
        BY <2>3 DEF under
    <2> QED
        BY <2>4, <1>4, <1>7, FS_EmptySet
<1>8. CASE k # 0
    <2>1. k - 1 \in Nat /\ k - 1 < Cardinality(S) /\ k - 1 \notin Bad
        BY <1>3, <1>4, <1>8, FramesFinite
    <2>2. PICK f \in S : Cardinality(under(S, f)) = k - 1
        BY <2>1
    <2> DEFINE U == under(S, f) \cup {f}
               V == S \ U
    <2>3. Cardinality(U) = k /\ IsFiniteSet(U) /\ U \subseteq S
        <3>1. IsFiniteSet(under(S, f)) /\ f \notin under(S, f)
            BY FramesFinite, <1>5 DEF under
        <3>2. Cardinality(U) = Cardinality(under(S, f)) + 1 /\ IsFiniteSet(U)
            BY <3>1, FS_AddElement
        <3> QED
            BY <3>2, <2>2, <1>4 DEF under
    <2>4. V # {}
        BY <2>3, <1>4
    <2>5. PICK h \in V : \A g \in V : h <= g
        BY <2>4, <1>5, Least
    <2>6. h \in Nat /\ f \in Nat /\ f < h
        <3>1. h \in S /\ h # f /\ ~(h < f)
            BY DEF under
        <3> QED
            BY <3>1, <1>5
    <2>7. \A g \in S : g < h => g \in U
        <3> TAKE g \in S
        <3>1. g \in V => h <= g
            BY <2>5
        <3>2. g \in Nat
            BY <1>5
        <3> HIDE DEF U
        <3> QED
            BY <3>1, <3>2, <2>6
    <2>8. \A g \in U : g < h
        BY <2>6, <1>5 DEF under
    <2>9. under(S, h) = U
        <3> HIDE DEF U
        <3> QED
            BY <2>3, <2>7, <2>8 DEF under
    <2> QED
        BY <2>3, <2>5, <2>9, <1>4
<1> QED
    BY <1>7, <1>8

\* PhysicalMemoryAllocator::alloc: different calls take different free frames.
LEMMA Allocated ==
    ASSUME NEW m, m.free \subseteq Frame, NEW n \in Nat, n < Cardinality(m.free)
    PROVE  alloc(m, n) \in m.free /\ Cardinality(under(m.free, alloc(m, n))) = n
<1>1. \E f \in m.free : Cardinality({g \in m.free : g < f}) = n
    BY Ranked DEF under
<1> QED
    BY <1>1 DEF alloc, under

\* The rank of path p in a set of nodes.
rank(N, p) == Cardinality({y \in N : preorder(y[1]) < preorder(p)})

\* Paths have different ranks, below the number of nodes.
LEMMA RanksDiffer ==
    ASSUME NEW N, IsFiniteSet(N), \A x \in N : x[1] \in Paths,
           NEW x \in N, NEW y \in N
    PROVE  /\ rank(N, x[1]) \in Nat /\ rank(N, x[1]) < Cardinality(N)
           /\ rank(N, x[1]) = rank(N, y[1]) => x[1] = y[1]
<1> DEFINE before(p) == {z \in N : preorder(z[1]) < preorder(p)}
<1>1. \A p : IsFiniteSet(before(p)) /\ Cardinality(before(p)) \in Nat
    BY FS_Subset, FS_CardinalityType
<1>2. \A z \in N : preorder(z[1]) \in Nat
    BY PreorderFirst
<1>3. ASSUME NEW z \in N
      PROVE  IsFiniteSet(before(z[1]) \cup {z}) /\ Cardinality(before(z[1]) \cup {z}) = Cardinality(before(z[1])) + 1
    <2>1. z \notin before(z[1])
        BY <1>2
    <2> QED
        BY <1>1, <2>1, FS_AddElement
<1>4. Cardinality(before(x[1]) \cup {x}) <= Cardinality(N)
    BY FS_Subset
<1>5. ASSUME NEW z \in N, NEW t \in N, preorder(z[1]) < preorder(t[1])
      PROVE  Cardinality(before(z[1])) < Cardinality(before(t[1]))
    <2>1. before(z[1]) \cup {z} \subseteq before(t[1])
        BY <1>2, <1>5
    <2>2. Cardinality(before(z[1]) \cup {z}) <= Cardinality(before(t[1]))
        BY <2>1, <1>1, FS_Subset
    <2>3. Cardinality(before(z[1]) \cup {z}) = Cardinality(before(z[1])) + 1
        BY <1>3
    <2>4. Cardinality(before(z[1])) \in Nat /\ Cardinality(before(t[1])) \in Nat
        BY <1>1
    <2> HIDE DEF before
    <2> QED
        BY <2>2, <2>3, <2>4
<1>6. Cardinality(N) \in Nat
    BY FS_CardinalityType
<1>7. \A p : rank(N, p) = Cardinality(before(p))
    BY DEF rank
<1> HIDE DEF before
<1>8. rank(N, x[1]) = rank(N, y[1]) => preorder(x[1]) = preorder(y[1])
    BY <1>1, <1>2, <1>5, <1>7
<1>9. rank(N, x[1]) \in Nat /\ rank(N, x[1]) < Cardinality(N)
    <2>1. Cardinality(before(x[1]) \cup {x}) = Cardinality(before(x[1])) + 1
        BY <1>3
    <2>2. Cardinality(before(x[1])) \in Nat
        BY <1>1
    <2> QED
        BY <2>1, <2>2, <1>4, <1>6, <1>7
<1> QED
    BY <1>8, <1>9, PreorderUnique

-----------------------------------------------------------------------------
(* The trees *)

Target == Frame \cup {FirstPT}
depth(p) == Len(p)

\* X tells which table or page of which process each frame is: <<process, path, frame>>.
\* Every frame is one node of one tree, and a node that is not the root hangs at a table.
Planted(X) ==
    /\ X \subseteq Proc \X Paths \X Target
    /\ \A u, w \in Proc, p, q \in Paths, f \in Frame :
           <<u, p, f>> \in X /\ <<w, q, f>> \in X => u = w /\ p = q
    /\ \A u \in Proc, p \in Paths, f, g \in Target :
           <<u, p, f>> \in X /\ <<u, p, g>> \in X => f = g
    /\ \A u \in Proc, p \in Paths, f \in Target :
           <<u, p, f>> \in X /\ p # PDP => \E g \in Frame : <<u, Front(p), g>> \in X
    /\ \A u \in Proc, p \in Paths : <<u, p, FirstPT>> \in X => p = <<0, 0>>

\* Physical memory m holds the trees of X: the other frames are free, the entries are
\* the links between them, and each page has a content.
Held(m, X) ==
    /\ m = [free |-> m.free, entry |-> m.entry, page |-> m.page]
    /\ m.free = {f \in Frame : \A u \in Proc, p \in Paths : <<u, p, f>> \notin X}
    /\ m.entry \subseteq Frame \X Idx \X Target
    /\ \A f \in Frame, i \in Idx, g \in Target :
           <<f, i, g>> \in m.entry <=>
               \E u \in Proc, p \in Paths :
                   depth(p) < 3 /\ <<u, p, f>> \in X /\ <<u, Append(p, i), g>> \in X
    /\ m.page \subseteq Frame \X Content
    /\ \A f \in Frame, c \in Content : <<f, c>> \in m.page =>
           \E u \in Proc, p \in Paths : depth(p) = 3 /\ <<u, p, f>> \in X
    /\ \A u \in Proc, p \in Paths, f \in Frame :
           depth(p) = 3 /\ <<u, p, f>> \in X => \E c \in Content : <<f, c>> \in m.page

TreeOf(X, u) == {x \in Paths \X Target : <<u, x[1], x[2]>> \in X}

\* The path of an entry of a table.
LEMMA Below ==
    ASSUME NEW p \in Paths, depth(p) < 3, NEW i \in Idx
    PROVE  /\ Append(p, i) \in Paths /\ Append(p, i) # PDP
           /\ Front(Append(p, i)) = p /\ Last(Append(p, i)) = i
           /\ depth(Append(p, i)) = depth(p) + 1
BY PathBelow DEF depth

\* The table that holds the entry of a node.
LEMMA Above ==
    ASSUME NEW p \in Paths, p # PDP
    PROVE  /\ Front(p) \in Paths /\ depth(Front(p)) < 3 /\ Last(p) \in Idx
           /\ Append(Front(p), Last(p)) = p
           /\ depth(p) = depth(Front(p)) + 1
BY PathAbove DEF depth

\* The depths of the paths, and of those the constructor makes.
LEMMA Depths ==
    /\ \A p \in Paths : depth(p) \in Nat /\ depth(p) \in 0..3 /\ (depth(p) = 0 => p = PDP)
    /\ PDP \in Paths /\ depth(PDP) = 0 /\ PD0 \in Paths /\ depth(PD0) = 1
    /\ <<0, 0>> \in Paths /\ depth(<<0, 0>>) = 2
    /\ PD0 # PDP /\ <<0, 0>> # PD0 /\ <<0, 0>> # PDP
    /\ PD0 = Append(PDP, 0) /\ <<0, 0>> = Append(PD0, 0)
BY PathTyped, RootPath, FirstPath DEF depth

\* The identity map, no memory and the default PDP are no frames of the allocator.
LEMMA FramesAre == FirstPT \notin Frame /\ None \notin Frame /\ DefaultPDP \notin Frame /\ Frame \subseteq Nat
BY BoundsAssumption DEF Frame, FirstPT, None, DefaultPDP

\* One level of a tree.
level(m, T) ==
    UNION {{<<Append(x[1], e[2]), e[3]>> : e \in {y \in m.entry : y[1] = x[2]}} : x \in T}

\* tree visits one level after the other.
LEMMA TreeLevels ==
    ASSUME NEW m, NEW r
    PROVE  tree(m, r) =
               LET root == {<<PDP, r>>}
               IN  root \cup level(m, root) \cup level(m, level(m, root))
                        \cup level(m, level(m, level(m, root)))
BY DEF tree, level

\* The entries of the tables of one level lead to the nodes of the next.
LEMMA LevelIs ==
    ASSUME NEW X, Planted(X), NEW m, Held(m, X), NEW u \in Proc, NEW n \in 0..2
    PROVE  level(m, {x \in TreeOf(X, u) : depth(x[1]) = n}) = {x \in TreeOf(X, u) : depth(x[1]) = n + 1}
<1> DEFINE L == {x \in TreeOf(X, u) : depth(x[1]) = n}
           M == {x \in TreeOf(X, u) : depth(x[1]) = n + 1}
<1>1. ASSUME NEW x \in L, NEW e \in m.entry, e[1] = x[2]
      PROVE  <<Append(x[1], e[2]), e[3]>> \in M
    <2>1. PICK f \in Frame, i \in Idx, g \in Target : e = <<f, i, g>>
        BY DEF Held
    <2>2. PICK w \in Proc, p \in Paths : depth(p) < 3 /\ <<w, p, f>> \in X /\ <<w, Append(p, i), g>> \in X
        BY <2>1 DEF Held
    <2>3. x[1] \in Paths /\ <<u, x[1], f>> \in X /\ depth(x[1]) = n
        BY <1>1, <2>1 DEF TreeOf
    <2>4. w = u /\ p = x[1]
        BY <2>2, <2>3 DEF Planted
    <2>5. Append(p, i) \in Paths /\ depth(Append(p, i)) = n + 1
        BY <2>2, <2>3, <2>4, Below
    <2> QED
        BY <2>1, <2>2, <2>4, <2>5 DEF TreeOf
<1>2. ASSUME NEW y \in M
      PROVE  \E x \in L, e \in m.entry : e[1] = x[2] /\ y = <<Append(x[1], e[2]), e[3]>>
    <2>1. PICK q \in Paths, g \in Target : y = <<q, g>> /\ <<u, q, g>> \in X /\ depth(q) = n + 1
        BY DEF TreeOf
    <2>2. q # PDP
        BY <2>1, Depths
    <2>3. PICK f \in Frame : <<u, Front(q), f>> \in X
        BY <2>1, <2>2 DEF Planted
    <2>4. /\ Front(q) \in Paths /\ depth(Front(q)) < 3 /\ Last(q) \in Idx
          /\ Append(Front(q), Last(q)) = q /\ depth(Front(q)) = n
        BY <2>1, <2>2, Above, Depths
    <2>5. <<f, Last(q), g>> \in m.entry
        BY <2>1, <2>3, <2>4 DEF Held
    <2>6. <<Front(q), f>> \in L
        BY <2>3, <2>4 DEF TreeOf, Target
    <2> QED
        BY <2>1, <2>4, <2>5, <2>6
<1> HIDE DEF L, M
<1>3. level(m, L) = M
    BY <1>1, <1>2 DEF level
<1> QED
    BY <1>3 DEF L, M

\* What tree reads from the entries is what X says of the process.
LEMMA TreeIs ==
    ASSUME NEW X, Planted(X), NEW m, Held(m, X), NEW u \in Proc, NEW r, <<u, PDP, r>> \in X
    PROVE  tree(m, r) = TreeOf(X, u)
<1> DEFINE L(n) == {x \in TreeOf(X, u) : depth(x[1]) = n}
<1>1. r \in Target
    BY DEF Planted
<1>2. {<<PDP, r>>} = L(0)
    <2>1. <<PDP, r>> \in L(0)
        BY <1>1, Depths DEF TreeOf
    <2>2. ASSUME NEW x \in L(0) PROVE x = <<PDP, r>>
        <3>1. PICK q \in Paths, g \in Target : x = <<q, g>> /\ <<u, q, g>> \in X /\ depth(q) = 0
            BY DEF TreeOf
        <3>2. q = PDP
            BY <3>1, Depths
        <3> QED
            BY <1>1, <3>1, <3>2 DEF Planted
    <2> QED
        BY <2>1, <2>2
<1>3. level(m, L(0)) = L(1) /\ level(m, L(1)) = L(2) /\ level(m, L(2)) = L(3)
    <2>1. \A n \in 0..2 : level(m, L(n)) = L(n + 1)
        BY LevelIs
    <2> QED
        BY <2>1
<1>4. TreeOf(X, u) = L(0) \cup L(1) \cup L(2) \cup L(3)
    <2>1. \A x \in TreeOf(X, u) : depth(x[1]) \in 0..3
        BY Depths DEF TreeOf
    <2> QED
        BY <2>1
<1> HIDE DEF L
<1> QED
    BY <1>2, <1>3, <1>4, TreeLevels

\* A process without a memory has no tree, only the root that is None.
LEMMA NoTree ==
    ASSUME NEW X, Planted(X), NEW m, Held(m, X)
    PROVE  tree(m, None) = {<<PDP, None>>}
<1>1. \A e \in m.entry : e[1] # None
    BY FramesAre DEF Held
<1>2. level(m, {<<PDP, None>>}) = {}
    BY <1>1 DEF level
<1>3. level(m, {}) = {}
    BY DEF level
<1> QED
    BY <1>2, <1>3, TreeLevels

\* What the operators on trees say of the tree of u.
LEMMA TreeParts ==
    ASSUME NEW X, Planted(X), NEW u \in Proc
    PROVE  /\ \A p : p \in nodes(TreeOf(X, u)) <=> p \in Paths /\ \E f \in Frame : <<u, p, f>> \in X
           /\ \A p, f : f \in at(TreeOf(X, u), p) <=> p \in Paths /\ f \in Target /\ <<u, p, f>> \in X
           /\ \A P, f : f \in frames(TreeOf(X, u), P) <=>
                  f \in Frame /\ \E p \in P : p \in Paths /\ <<u, p, f>> \in X
<1>1. \A p \in Paths, f \in Target : <<u, p, f>> \in X => <<p, f>> \in TreeOf(X, u)
    BY DEF TreeOf
<1>2. \A x \in TreeOf(X, u) : x[1] \in Paths /\ x[2] \in Target /\ <<u, x[1], x[2]>> \in X
    BY DEF TreeOf
<1>3. Frame \subseteq Target
    BY DEF Target
<1>4. ASSUME NEW p
      PROVE  p \in nodes(TreeOf(X, u)) <=> p \in Paths /\ \E f \in Frame : <<u, p, f>> \in X
    <2>1. p \in nodes(TreeOf(X, u)) <=> \E x \in TreeOf(X, u) : x[2] \in Frame /\ x[1] = p
        BY DEF nodes
    <2> QED
        BY <2>1, <1>1, <1>2, <1>3
<1>5. ASSUME NEW p, NEW f
      PROVE  f \in at(TreeOf(X, u), p) <=> p \in Paths /\ f \in Target /\ <<u, p, f>> \in X
    <2>1. f \in at(TreeOf(X, u), p) <=> \E x \in TreeOf(X, u) : x[1] = p /\ x[2] = f
        BY DEF at
    <2> QED
        BY <2>1, <1>1, <1>2, <1>3
<1>6. ASSUME NEW P, NEW f
      PROVE  f \in frames(TreeOf(X, u), P) <=>
                 f \in Frame /\ \E p \in P : p \in Paths /\ <<u, p, f>> \in X
    <2>1. f \in frames(TreeOf(X, u), P) <=> f \in Frame /\ \E x \in TreeOf(X, u) : x[1] \in P /\ x[2] = f
        BY DEF frames
    <2> QED
        BY <2>1, <1>1, <1>2, <1>3
<1> QED
    BY <1>4, <1>5, <1>6

-----------------------------------------------------------------------------
(* Planting nodes *)

\* New nodes for the tree of u, each once, and with a content if it is a page.
Nodes(X, u, N) ==
    /\ IsFiniteSet(N)
    /\ \A x \in N : /\ x = <<x[1], x[2]>> /\ x[1] \in Paths /\ x[2] \subseteq Content
                    /\ depth(x[1]) = 3 <=> x[2] # {}
                    /\ \A g \in Target : <<u, x[1], g>> \notin X
                    /\ \/ x[1] = PDP
                       \/ \E g \in Frame : <<u, Front(x[1]), g>> \in X
                       \/ \E y \in N : y[1] = Front(x[1])
    /\ \A x, y \in N : x[1] = y[1] => x = y

\* The frame of a new node.
place(m, N, x) == alloc(m, rank(N, x[1]))
planted(X, m, u, N) == X \cup {<<u, x[1], place(m, N, x)>> : x \in N}

\* Each new node gets a free frame of its own.
LEMMA Places ==
    ASSUME NEW X, NEW m, Held(m, X), NEW u \in Proc, NEW N, Nodes(X, u, N),
           Cardinality(N) <= Cardinality(m.free)
    PROVE  /\ \A x \in N : /\ place(m, N, x) \in m.free /\ place(m, N, x) \in Frame
                           /\ \A w \in Proc, p \in Paths : <<w, p, place(m, N, x)>> \notin X
           /\ \A x, y \in N : place(m, N, x) = place(m, N, y) => x = y
<1>1. m.free \subseteq Frame
    BY DEF Held
<1>2. Cardinality(m.free) \in Nat /\ Cardinality(N) \in Nat
    BY <1>1, FramesFinite, FS_CardinalityType DEF Nodes
<1>3. ASSUME NEW x \in N, NEW y \in N
      PROVE  /\ rank(N, x[1]) \in Nat /\ rank(N, x[1]) < Cardinality(N)
             /\ rank(N, x[1]) = rank(N, y[1]) => x = y
    <2>1. IsFiniteSet(N) /\ \A z \in N : z[1] \in Paths
        BY DEF Nodes
    <2>2. x[1] = y[1] => x = y
        BY DEF Nodes
    <2> QED
        BY <2>1, <2>2, RanksDiffer
<1>4. ASSUME NEW x \in N
      PROVE  /\ place(m, N, x) \in m.free
             /\ Cardinality(under(m.free, place(m, N, x))) = rank(N, x[1])
    <2>1. rank(N, x[1]) \in Nat /\ rank(N, x[1]) < Cardinality(m.free)
        BY <1>2, <1>3
    <2> QED
        BY <2>1, <1>1, Allocated DEF place
<1>5. \A x, y \in N : place(m, N, x) = place(m, N, y) => x = y
    BY <1>3, <1>4
<1>6. \A x \in N : place(m, N, x) \in m.free
    BY <1>4
<1>7. \A f \in m.free : f \in Frame /\ \A w \in Proc, p \in Paths : <<w, p, f>> \notin X
    BY DEF Held
<1> QED
    BY <1>5, <1>6, <1>7

\* The new frames are nodes of one tree only.
LEMMA GrownPlanted ==
    ASSUME NEW X, Planted(X), NEW m, Held(m, X), NEW u \in Proc, NEW N, Nodes(X, u, N),
           Cardinality(N) <= Cardinality(m.free)
    PROVE  Planted(planted(X, m, u, N))
<1> DEFINE Y == planted(X, m, u, N)
<1>1. /\ \A x \in N : /\ x[1] \in Paths /\ place(m, N, x) \in Frame
                      /\ \A w \in Proc, p \in Paths : <<w, p, place(m, N, x)>> \notin X
                      /\ \A g \in Target : <<u, x[1], g>> \notin X
      /\ \A x, y \in N : place(m, N, x) = place(m, N, y) => x = y
      /\ \A x, y \in N : x[1] = y[1] => x = y
    BY Places DEF Nodes
<1>2. \A w, p, f : <<w, p, f>> \in Y <=>
          <<w, p, f>> \in X \/ (w = u /\ \E x \in N : p = x[1] /\ f = place(m, N, x))
    BY DEF planted
<1>3. Frame \subseteq Target /\ FirstPT \notin Frame
    BY FramesAre DEF Target
<1>4. Y \subseteq Proc \X Paths \X Target
    BY <1>1, <1>3 DEF planted, Planted
<1> HIDE DEF Y
<1>5. ASSUME NEW v \in Proc, NEW w \in Proc, NEW p \in Paths, NEW q \in Paths, NEW f \in Frame,
             <<v, p, f>> \in Y, <<w, q, f>> \in Y
      PROVE  v = w /\ p = q
    <2>1. CASE <<v, p, f>> \in X /\ <<w, q, f>> \in X
        BY <2>1 DEF Planted
    <2>2. CASE <<v, p, f>> \notin X
        BY <2>2, <1>1, <1>2, <1>5
    <2>3. CASE <<w, q, f>> \notin X
        BY <2>3, <1>1, <1>2, <1>5
    <2> QED
        BY <2>1, <2>2, <2>3
<1>6. ASSUME NEW v \in Proc, NEW p \in Paths, NEW f \in Target, NEW g \in Target,
             <<v, p, f>> \in Y, <<v, p, g>> \in Y
      PROVE  f = g
    <2>1. CASE <<v, p, f>> \in X /\ <<v, p, g>> \in X
        BY <2>1 DEF Planted
    <2>2. CASE <<v, p, f>> \notin X
        BY <2>2, <1>1, <1>2, <1>6
    <2>3. CASE <<v, p, g>> \notin X
        BY <2>3, <1>1, <1>2, <1>6
    <2> QED
        BY <2>1, <2>2, <2>3
<1>7. ASSUME NEW v \in Proc, NEW p \in Paths, NEW f \in Target, <<v, p, f>> \in Y, p # PDP
      PROVE  \E g \in Frame : <<v, Front(p), g>> \in Y
    <2>1. CASE <<v, p, f>> \in X
        BY <2>1, <1>2, <1>7 DEF Planted
    <2>2. CASE <<v, p, f>> \notin X
        <3>1. PICK x \in N : v = u /\ p = x[1]
            BY <2>2, <1>2, <1>7
        <3>2. \/ \E g \in Frame : <<u, Front(x[1]), g>> \in X
              \/ \E y \in N : y[1] = Front(x[1])
            BY <3>1, <1>7 DEF Nodes
        <3> QED
            BY <3>1, <3>2, <1>1, <1>2
    <2> QED
        BY <2>1, <2>2
<1>8. ASSUME NEW v \in Proc, NEW p \in Paths, <<v, p, FirstPT>> \in Y
      PROVE  p = <<0, 0>>
    BY <1>1, <1>2, <1>3, <1>8 DEF Planted
<1>9. Planted(Y)
    BY <1>4, <1>5, <1>6, <1>7, <1>8 DEF Planted
<1> QED
    BY <1>9 DEF Y

\* What graft does to the parts of the memory.
LEMMA GraftIs ==
    ASSUME NEW X, Planted(X), NEW m, NEW u \in Proc, NEW N, Nodes(X, u, N),
           \A x \in N : place(m, N, x) \in Target
    PROVE  LET g == graft(m, TreeOf(X, u), N) IN
           /\ g = [free |-> g.free, entry |-> g.entry, page |-> g.page]
           /\ g.free = m.free \ {place(m, N, x) : x \in N}
           /\ \A e : e \in g.entry <=>
                  \/ e \in m.entry
                  \/ \E x \in N, f \in Target :
                        /\ x[1] # PDP /\ <<u, Front(x[1]), f>> \in planted(X, m, u, N)
                        /\ e = <<f, Last(x[1]), place(m, N, x)>>
           /\ \A e : e \in g.page <=>
                  e \in m.page \/ \E x \in N : \E c \in x[2] : e = <<place(m, N, x), c>>
<1> DEFINE Y == planted(X, m, u, N)
           h == graft(m, TreeOf(X, u), N)
           new == {<<x[1], place(m, N, x), x[2]>> : x \in N}
           all == TreeOf(X, u) \cup {<<y[1], y[2]>> : y \in new}
<1>1. h = [free |-> m.free \ {y[2] : y \in new},
           entry |-> m.entry \cup
               UNION {{<<f, Last(y[1]), y[2]>> : f \in at(all, Front(y[1]))} :
                          y \in {z \in new : z[1] # PDP}},
           page |-> m.page \cup UNION {{y[2]} \X y[3] : y \in new}]
    BY DEF graft, place, rank
<1>2. /\ \A x \in N : <<x[1], place(m, N, x), x[2]>> \in new
      /\ \A y \in new : \E x \in N : y[1] = x[1] /\ y[2] = place(m, N, x) /\ y[3] = x[2]
    OBVIOUS
<1> HIDE DEF new
<1>3. ASSUME NEW p \in Paths, NEW f
      PROVE  f \in at(all, p) <=> f \in Target /\ <<u, p, f>> \in Y
    <2>1. f \in at(all, p) <=> \E x \in all : x[1] = p /\ x[2] = f
        BY DEF at
    <2>2. (\E x \in all : x[1] = p /\ x[2] = f) <=>
              (\E x \in TreeOf(X, u) : x[1] = p /\ x[2] = f) \/ \E x \in N : x[1] = p /\ place(m, N, x) = f
        <3>1. \A x \in TreeOf(X, u) : x \in all
            OBVIOUS
        <3>2. \A x \in N : <<x[1], place(m, N, x)>> \in all
            BY <1>2
        <3>3. \A z \in all : z \in TreeOf(X, u) \/ \E x \in N : z[1] = x[1] /\ z[2] = place(m, N, x)
            BY <1>2
        <3> HIDE DEF all
        <3> QED
            BY <3>1, <3>2, <3>3
    <2>3. (\E x \in TreeOf(X, u) : x[1] = p /\ x[2] = f) <=> f \in Target /\ <<u, p, f>> \in X
        <3>1. ASSUME f \in Target /\ <<u, p, f>> \in X
              PROVE  <<p, f>> \in TreeOf(X, u)
            BY <3>1 DEF TreeOf
        <3>2. ASSUME NEW x \in TreeOf(X, u), x[1] = p, x[2] = f
              PROVE  f \in Target /\ <<u, p, f>> \in X
            BY <3>2 DEF TreeOf
        <3> QED
            BY <3>1, <3>2
    <2>4. <<u, p, f>> \in Y <=> <<u, p, f>> \in X \/ \E x \in N : x[1] = p /\ place(m, N, x) = f
        BY DEF planted
    <2> HIDE DEF all, Y
    <2> QED
        BY <2>1, <2>2, <2>3, <2>4
<1>4. \A x \in N : x[1] # PDP => Front(x[1]) \in Paths
    BY Above DEF Nodes
<1>5. h.free = m.free \ {place(m, N, x) : x \in N}
    <2>1. h.free = m.free \ {y[2] : y \in new}
        BY <1>1
    <2> HIDE DEF h
    <2>2. \A z : z \in {y[2] : y \in new} <=> \E y \in new : z = y[2]
        OBVIOUS
    <2>3. \A z : z \in {place(m, N, x) : x \in N} <=> \E x \in N : z = place(m, N, x)
        OBVIOUS
    <2>4. \A z : (\E y \in new : z = y[2]) <=> \E x \in N : z = place(m, N, x)
        <3> TAKE z
        <3>1. ASSUME NEW y \in new, z = y[2] PROVE \E x \in N : z = place(m, N, x)
            BY <3>1, <1>2
        <3>2. ASSUME NEW x \in N, z = place(m, N, x) PROVE \E y \in new : z = y[2]
            <4>1. <<x[1], place(m, N, x), x[2]>> \in new
                BY <1>2
            <4> QED
                BY <4>1, <3>2
        <3> QED
            BY <3>1, <3>2
    <2> QED
        BY <2>1, <2>2, <2>3, <2>4
<1>6. ASSUME NEW e
      PROVE  e \in h.page <=> e \in m.page \/ \E x \in N : \E c \in x[2] : e = <<place(m, N, x), c>>
    <2>1. h.page = m.page \cup UNION {{y[2]} \X y[3] : y \in new}
        BY <1>1
    <2>2. e \in h.page <=> e \in m.page \/ \E y \in new : \E c \in y[3] : e = <<y[2], c>>
        <3> HIDE DEF h
        <3> QED
            BY <2>1
    <2> HIDE DEF h
    <2>3. ASSUME NEW y \in new, NEW c \in y[3], e = <<y[2], c>>
          PROVE  \E x \in N : \E d \in x[2] : e = <<place(m, N, x), d>>
        BY <2>3, <1>2
    <2>4. ASSUME NEW x \in N, NEW c \in x[2], e = <<place(m, N, x), c>>
          PROVE  \E y \in new : \E d \in y[3] : e = <<y[2], d>>
        <3>1. PICK y \in new : y = <<x[1], place(m, N, x), x[2]>>
            BY <1>2
        <3>2. y[2] = place(m, N, x) /\ y[3] = x[2]
            BY <3>1
        <3> QED
            BY <3>2, <2>4
    <2> QED
        BY <2>2, <2>3, <2>4
<1>7. ASSUME NEW e
      PROVE  e \in h.entry <=>
                  \/ e \in m.entry
                  \/ \E x \in N, f \in Target :
                        /\ x[1] # PDP /\ <<u, Front(x[1]), f>> \in Y
                        /\ e = <<f, Last(x[1]), place(m, N, x)>>
    <2>1. h.entry = m.entry \cup
               UNION {{<<f, Last(y[1]), y[2]>> : f \in at(all, Front(y[1]))} :
                          y \in {z \in new : z[1] # PDP}}
        BY <1>1
    <2> HIDE DEF h, all
    <2>2. e \in h.entry <=> e \in m.entry \/ \E y \in new : y[1] # PDP /\
                                \E f \in at(all, Front(y[1])) : e = <<f, Last(y[1]), y[2]>>
        BY <2>1
    <2>3. (\E y \in new : y[1] # PDP /\ \E f \in at(all, Front(y[1])) : e = <<f, Last(y[1]), y[2]>>)
            <=> \E x \in N : x[1] # PDP /\ \E f \in at(all, Front(x[1])) : e = <<f, Last(x[1]), place(m, N, x)>>
        <3>1. ASSUME NEW y \in new, y[1] # PDP, NEW f \in at(all, Front(y[1])), e = <<f, Last(y[1]), y[2]>>
              PROVE  \E x \in N : x[1] # PDP /\ \E k \in at(all, Front(x[1])) : e = <<k, Last(x[1]), place(m, N, x)>>
            <4>1. PICK x \in N : y[1] = x[1] /\ y[2] = place(m, N, x)
                BY <1>2
            <4>2. x[1] # PDP /\ f \in at(all, Front(x[1])) /\ e = <<f, Last(x[1]), place(m, N, x)>>
                BY <4>1, <3>1
            <4> QED
                BY <4>2
        <3>2. ASSUME NEW x \in N, x[1] # PDP, NEW f \in at(all, Front(x[1])), e = <<f, Last(x[1]), place(m, N, x)>>
              PROVE  \E y \in new : y[1] # PDP /\ \E k \in at(all, Front(y[1])) : e = <<k, Last(y[1]), y[2]>>
            <4>1. PICK y \in new : y = <<x[1], place(m, N, x), x[2]>>
                BY <1>2
            <4>2. y[1] = x[1] /\ y[2] = place(m, N, x)
                BY <4>1
            <4>3. y[1] # PDP /\ f \in at(all, Front(y[1])) /\ e = <<f, Last(y[1]), y[2]>>
                BY <4>2, <3>2
            <4> QED
                BY <4>3
        <3> QED
            BY <3>1, <3>2
    <2>4. ASSUME NEW x \in N, x[1] # PDP
          PROVE  (\E f \in at(all, Front(x[1])) : e = <<f, Last(x[1]), place(m, N, x)>>)
                   <=> \E f \in Target : /\ <<u, Front(x[1]), f>> \in Y
                                         /\ e = <<f, Last(x[1]), place(m, N, x)>>
        BY <1>3, <1>4, <2>4
    <2> HIDE DEF Y
    <2> QED
        BY <2>2, <2>3, <2>4
<1>8. h = [free |-> h.free, entry |-> h.entry, page |-> h.page]
    BY <1>1
<1> HIDE DEF h, Y, all
<1>9. /\ h = [free |-> h.free, entry |-> h.entry, page |-> h.page]
      /\ h.free = m.free \ {place(m, N, x) : x \in N}
      /\ \A e : e \in h.entry <=>
             \/ e \in m.entry
             \/ \E x \in N, f \in Target :
                   /\ x[1] # PDP /\ <<u, Front(x[1]), f>> \in Y
                   /\ e = <<f, Last(x[1]), place(m, N, x)>>
      /\ \A e : e \in h.page <=>
             e \in m.page \/ \E x \in N : \E c \in x[2] : e = <<place(m, N, x), c>>
    BY <1>5, <1>6, <1>7, <1>8
<1> QED
    BY <1>9 DEF h, Y

\* After graft memory is what X and the new nodes say.
LEMMA Grafted ==
    ASSUME NEW X, Planted(X), NEW m, Held(m, X), NEW u \in Proc, NEW N, Nodes(X, u, N),
           Cardinality(N) <= Cardinality(m.free)
    PROVE  Held(graft(m, TreeOf(X, u), N), planted(X, m, u, N))
<1> DEFINE Y == planted(X, m, u, N)
           g == graft(m, TreeOf(X, u), N)
<1>1. Planted(Y)
    BY GrownPlanted
<1>2. /\ \A x \in N : /\ x[1] \in Paths /\ place(m, N, x) \in Frame
                      /\ place(m, N, x) \in m.free
                      /\ \A w \in Proc, p \in Paths : <<w, p, place(m, N, x)>> \notin X
                      /\ \A h \in Target : <<u, x[1], h>> \notin X
      /\ \A x, y \in N : place(m, N, x) = place(m, N, y) => x = y
      /\ \A x, y \in N : x[1] = y[1] => x = y
    BY Places DEF Nodes
<1>3. \A w, p, f : <<w, p, f>> \in Y <=>
          <<w, p, f>> \in X \/ (w = u /\ \E x \in N : p = x[1] /\ f = place(m, N, x))
    BY DEF planted
<1>4. Frame \subseteq Target /\ FirstPT \notin Frame
    BY FramesAre DEF Target
<1>5. /\ g = [free |-> g.free, entry |-> g.entry, page |-> g.page]
      /\ g.free = m.free \ {place(m, N, x) : x \in N}
      /\ \A e : e \in g.entry <=>
             \/ e \in m.entry
             \/ \E x \in N, f \in Target :
                   /\ x[1] # PDP /\ <<u, Front(x[1]), f>> \in Y
                   /\ e = <<f, Last(x[1]), place(m, N, x)>>
      /\ \A e : e \in g.page <=>
             e \in m.page \/ \E x \in N : \E c \in x[2] : e = <<place(m, N, x), c>>
    <2>1. \A x \in N : place(m, N, x) \in Target
        BY <1>2, <1>4
    <2> QED
        BY <2>1, GraftIs
<1>5f. g.free = m.free \ {place(m, N, x) : x \in N}
    BY <1>5
<1>5e. ASSUME NEW e
       PROVE  e \in g.entry <=>
             \/ e \in m.entry
             \/ \E x \in N, f \in Target :
                   /\ x[1] # PDP /\ <<u, Front(x[1]), f>> \in Y
                   /\ e = <<f, Last(x[1]), place(m, N, x)>>
    BY <1>5
<1>5p. ASSUME NEW e
       PROVE  e \in g.page <=>
             e \in m.page \/ \E x \in N : \E c \in x[2] : e = <<place(m, N, x), c>>
    BY <1>5
<1> HIDE DEF Y, g
<1>6. g.free = {f \in Frame : \A w \in Proc, p \in Paths : <<w, p, f>> \notin Y}
    <2>1. m.free = {f \in Frame : \A w \in Proc, p \in Paths : <<w, p, f>> \notin X}
        BY DEF Held
    <2>2. \A f : f \in g.free <=> f \in m.free /\ \A x \in N : f # place(m, N, x)
        BY <1>5f
    <2>3. ASSUME NEW f \in Frame
          PROVE  f \in g.free <=> \A w \in Proc, p \in Paths : <<w, p, f>> \notin Y
        <3>1. ASSUME f \in g.free, NEW w \in Proc, NEW p \in Paths, <<w, p, f>> \in Y
              PROVE  FALSE
            <4>1. <<w, p, f>> \notin X /\ \A x \in N : f # place(m, N, x)
                BY <3>1, <2>1, <2>2
            <4> QED
                BY <3>1, <4>1, <1>3
        <3>2. ASSUME \A w \in Proc, p \in Paths : <<w, p, f>> \notin Y
              PROVE  f \in g.free
            <4>1. f \in m.free
                BY <3>2, <2>1, <1>3
            <4>2. ASSUME NEW x \in N, f = place(m, N, x) PROVE FALSE
                BY <3>2, <4>2, <1>2, <1>3
            <4> QED
                BY <4>1, <4>2, <2>2
        <3> QED
            BY <3>1, <3>2
    <2> QED
        BY <2>1, <2>2, <2>3
<1>7. ASSUME NEW x \in N, x[1] # PDP, NEW f \in Target, <<u, Front(x[1]), f>> \in Y
      PROVE  f \in Frame /\ Last(x[1]) \in Idx /\ Front(x[1]) \in Paths /\ depth(Front(x[1])) < 3
             /\ Append(Front(x[1]), Last(x[1])) = x[1] /\ <<u, x[1], place(m, N, x)>> \in Y
    <2>1. <<u, x[1], place(m, N, x)>> \in Y
        BY <1>3
    <2>2. PICK h \in Frame : <<u, Front(x[1]), h>> \in Y
        BY <2>1, <1>1, <1>2, <1>4, <1>7 DEF Planted
    <2>3. /\ Front(x[1]) \in Paths /\ depth(Front(x[1])) < 3 /\ Last(x[1]) \in Idx
          /\ Append(Front(x[1]), Last(x[1])) = x[1]
        BY <1>2, <1>7, Above
    <2>4. f = h
        BY <2>2, <2>3, <1>1, <1>4, <1>7 DEF Planted
    <2> QED
        BY <2>1, <2>2, <2>3, <2>4
<1>8. g.entry \subseteq Frame \X Idx \X Target
    <2>1. m.entry \subseteq Frame \X Idx \X Target
        BY DEF Held
    <2> QED
        <3> SUFFICES ASSUME NEW e \in g.entry PROVE e \in Frame \X Idx \X Target
            OBVIOUS
        <3>1. CASE e \in m.entry
            BY <3>1, <2>1
        <3>2. CASE e \notin m.entry
            <4>1. PICK x \in N, f \in Target : /\ x[1] # PDP /\ <<u, Front(x[1]), f>> \in Y
                                              /\ e = <<f, Last(x[1]), place(m, N, x)>>
                BY <3>2, <1>5e
            <4>2. f \in Frame /\ Last(x[1]) \in Idx /\ place(m, N, x) \in Target
                BY <4>1, <1>2, <1>4, <1>7
            <4> QED
                BY <4>1, <4>2
        <3> QED
            BY <3>1, <3>2
<1>9. ASSUME NEW f \in Frame, NEW i \in Idx, NEW h \in Target
      PROVE  <<f, i, h>> \in g.entry <=>
               \E w \in Proc, p \in Paths :
                   depth(p) < 3 /\ <<w, p, f>> \in Y /\ <<w, Append(p, i), h>> \in Y
    <2>1. ASSUME <<f, i, h>> \in g.entry
          PROVE  \E w \in Proc, p \in Paths :
                   depth(p) < 3 /\ <<w, p, f>> \in Y /\ <<w, Append(p, i), h>> \in Y
        <3>1. CASE <<f, i, h>> \in m.entry
            <4>1. PICK w \in Proc, p \in Paths : depth(p) < 3 /\ <<w, p, f>> \in X /\ <<w, Append(p, i), h>> \in X
                BY <3>1 DEF Held
            <4> QED
                BY <4>1, <1>3
        <3>2. CASE <<f, i, h>> \notin m.entry
            <4>1. PICK x \in N : /\ x[1] # PDP /\ <<u, Front(x[1]), f>> \in Y
                                 /\ i = Last(x[1]) /\ h = place(m, N, x)
                <5>1. PICK x \in N, k \in Target : /\ x[1] # PDP /\ <<u, Front(x[1]), k>> \in Y
                                                  /\ <<f, i, h>> = <<k, Last(x[1]), place(m, N, x)>>
                    BY <2>1, <3>2, <1>5e
                <5>2. f = k /\ i = Last(x[1]) /\ h = place(m, N, x)
                    BY <5>1
                <5> QED
                    BY <5>1, <5>2
            <4> QED
                BY <4>1, <1>4, <1>7
        <3> QED
            BY <3>1, <3>2
    <2>2. ASSUME NEW w \in Proc, NEW p \in Paths, depth(p) < 3, <<w, p, f>> \in Y, <<w, Append(p, i), h>> \in Y
          PROVE  <<f, i, h>> \in g.entry
        <3>1. /\ Append(p, i) \in Paths /\ Append(p, i) # PDP
              /\ Front(Append(p, i)) = p /\ Last(Append(p, i)) = i
            BY <2>2, Below
        <3>2. CASE <<w, Append(p, i), h>> \in X
            <4>1. PICK k \in Frame : <<w, p, k>> \in X
                BY <3>1, <3>2 DEF Planted
            <4>2. k = f
                BY <4>1, <2>2, <1>1, <1>3, <1>4 DEF Planted
            <4>3. <<f, i, h>> \in m.entry
                BY <4>1, <4>2, <3>2, <2>2 DEF Held
            <4> QED
                BY <4>3, <1>5e
        <3>3. CASE <<w, Append(p, i), h>> \notin X
            <4>1. PICK x \in N : w = u /\ Append(p, i) = x[1] /\ h = place(m, N, x)
                BY <3>3, <2>2, <1>3
            <4> QED
                BY <4>1, <3>1, <2>2, <1>4, <1>5e
        <3> QED
            BY <3>2, <3>3
    <2> QED
        BY <2>1, <2>2
<1>10. g.page \subseteq Frame \X Content
    <2>1. m.page \subseteq Frame \X Content
        BY DEF Held
    <2>2. \A x \in N : x[2] \subseteq Content
        BY DEF Nodes
    <2> QED
        BY <2>1, <2>2, <1>2, <1>5p
<1>11. ASSUME NEW f \in Frame, NEW c \in Content, <<f, c>> \in g.page
       PROVE  \E w \in Proc, p \in Paths : depth(p) = 3 /\ <<w, p, f>> \in Y
    <2>1. CASE <<f, c>> \in m.page
        BY <2>1, <1>3 DEF Held
    <2>2. CASE <<f, c>> \notin m.page
        <3>1. PICK x \in N : c \in x[2] /\ f = place(m, N, x)
            BY <2>2, <1>5p, <1>11
        <3>2. depth(x[1]) = 3
            BY <3>1 DEF Nodes
        <3> QED
            BY <3>1, <3>2, <1>2, <1>3
    <2> QED
        BY <2>1, <2>2
<1>12. ASSUME NEW w \in Proc, NEW p \in Paths, NEW f \in Frame, depth(p) = 3, <<w, p, f>> \in Y
       PROVE  \E c \in Content : <<f, c>> \in g.page
    <2>1. CASE <<w, p, f>> \in X
        BY <2>1, <1>5p, <1>12 DEF Held
    <2>2. CASE <<w, p, f>> \notin X
        <3>1. PICK x \in N : p = x[1] /\ f = place(m, N, x)
            BY <2>2, <1>3, <1>12
        <3>2. x[2] # {} /\ x[2] \subseteq Content
            BY <3>1, <1>12 DEF Nodes
        <3> QED
            BY <3>1, <3>2, <1>5p
    <2> QED
        BY <2>1, <2>2
<1>13. Held(g, Y)
    BY <1>5, <1>6, <1>8, <1>9, <1>10, <1>11, <1>12 DEF Held
<1> QED
    BY <1>13 DEF g, Y

-----------------------------------------------------------------------------
(* Pruning nodes *)

\* The nodes of D of the tree of u go, with all that is below them.
pruned(X, u, D) == {x \in X : ~(x[1] = u /\ x[2] \in D)}
Downwards(X, u, D) ==
    \A p \in Paths, f \in Target : <<u, p, f>> \in X /\ p # PDP /\ Front(p) \in D => p \in D
Gone(X, u, D) == {f \in Frame : \E p \in D : p \in Paths /\ <<u, p, f>> \in X}

\* What is left when all below a cut is removed is still made of trees.
LEMMA PrunedPlanted ==
    ASSUME NEW X, Planted(X), NEW u \in Proc, NEW D, Downwards(X, u, D)
    PROVE  Planted(pruned(X, u, D))
<1> DEFINE Y == pruned(X, u, D)
<1>1. \A w, p, f : <<w, p, f>> \in Y <=> <<w, p, f>> \in X /\ ~(w = u /\ p \in D)
    BY DEF pruned
<1>2. Y \subseteq X
    BY DEF pruned
<1> HIDE DEF Y
<1>3. Y \subseteq Proc \X Paths \X Target
    BY <1>2 DEF Planted
<1>4. \A v, w \in Proc, p, q \in Paths, f \in Frame :
           <<v, p, f>> \in Y /\ <<w, q, f>> \in Y => v = w /\ p = q
    BY <1>2 DEF Planted
<1>5. \A w \in Proc, p \in Paths, f, g \in Target :
           <<w, p, f>> \in Y /\ <<w, p, g>> \in Y => f = g
    BY <1>2 DEF Planted
<1>6. ASSUME NEW w \in Proc, NEW p \in Paths, NEW f \in Target, <<w, p, f>> \in Y, p # PDP
      PROVE  \E g \in Frame : <<w, Front(p), g>> \in Y
    <2>1. PICK g \in Frame : <<w, Front(p), g>> \in X
        BY <1>2, <1>6 DEF Planted
    <2>2. ~(w = u /\ Front(p) \in D)
        BY <1>1, <1>6 DEF Downwards
    <2> QED
        BY <2>1, <2>2, <1>1
<1>7. \A w \in Proc, p \in Paths : <<w, p, FirstPT>> \in Y => p = <<0, 0>>
    BY <1>2 DEF Planted
<1>8. Planted(Y)
    BY <1>3, <1>4, <1>5, <1>6, <1>7 DEF Planted
<1> QED
    BY <1>8 DEF Y

\* Memory is what is left of X when the frames of D are free and the entries that led
\* to nodes of D are clear.
LEMMA Pruned ==
    ASSUME NEW X, Planted(X), NEW m, Held(m, X), NEW u \in Proc, NEW D, Downwards(X, u, D),
           NEW g, g = [free |-> g.free, entry |-> g.entry, page |-> g.page],
           g.free = m.free \cup Gone(X, u, D),
           g.entry \subseteq m.entry,
           \A f \in Frame, i \in Idx, h \in Target : <<f, i, h>> \in m.entry =>
               (<<f, i, h>> \in g.entry <=> \A p \in Paths : <<u, p, f>> \in X => Append(p, i) \notin D),
           g.page = {x \in m.page : x[1] \notin Gone(X, u, D)}
    PROVE  Held(g, pruned(X, u, D))
<1> DEFINE Y == pruned(X, u, D)
<1>1. \A w, p, f : <<w, p, f>> \in Y <=> <<w, p, f>> \in X /\ ~(w = u /\ p \in D)
    BY Zenon DEF pruned
<1>2. Y \subseteq X
    BY DEF pruned
<1>0. Planted(Y)
    BY PrunedPlanted
<1> HIDE DEF Y
<1>3. \A f \in Frame : f \in Gone(X, u, D) <=> \E p \in Paths : p \in D /\ <<u, p, f>> \in X
    BY DEF Gone
<1>t. Frame \subseteq Target
    BY DEF Target
<1>4. \A w \in Proc, p \in Paths, f \in Frame : <<w, p, f>> \in X =>
          (f \in Gone(X, u, D) <=> w = u /\ p \in D)
    <2> SUFFICES ASSUME NEW w \in Proc, NEW p \in Paths, NEW f \in Frame, <<w, p, f>> \in X
                 PROVE  f \in Gone(X, u, D) <=> w = u /\ p \in D
        OBVIOUS
    <2>1. ASSUME f \in Gone(X, u, D) PROVE w = u /\ p \in D
        <3>1. PICK q \in Paths : q \in D /\ <<u, q, f>> \in X
            BY <2>1, <1>3
        <3>2. u = w /\ q = p
            BY <3>1 DEF Planted
        <3> QED
            BY <3>1, <3>2
    <2>2. ASSUME w = u, p \in D PROVE f \in Gone(X, u, D)
        BY <2>2, <1>3
    <2> QED
        BY <2>1, <2>2
<1>5. g.free = {f \in Frame : \A w \in Proc, p \in Paths : <<w, p, f>> \notin Y}
    <2>1. m.free = {f \in Frame : \A w \in Proc, p \in Paths : <<w, p, f>> \notin X}
        BY DEF Held
    <2>2. Gone(X, u, D) \subseteq Frame
        BY DEF Gone
    <2>3. ASSUME NEW f \in Frame
          PROVE  f \in g.free <=> \A w \in Proc, p \in Paths : <<w, p, f>> \notin Y
        <3>1. ASSUME f \in m.free
              PROVE  \A w \in Proc, p \in Paths : <<w, p, f>> \notin Y
            BY <3>1, <2>1, <1>2
        <3>2. ASSUME f \in Gone(X, u, D), NEW w \in Proc, NEW p \in Paths, <<w, p, f>> \in Y
              PROVE  FALSE
            BY <3>2, <1>1, <1>4
        <3>3. ASSUME \A w \in Proc, p \in Paths : <<w, p, f>> \notin Y, f \notin m.free
              PROVE  f \in Gone(X, u, D)
            <4>1. PICK w \in Proc, p \in Paths : <<w, p, f>> \in X
                BY <3>3, <2>1
            <4>2. w = u /\ p \in D
                BY <4>1, <3>3, <1>1
            <4> QED
                BY <4>1, <4>2, <1>4
        <3> QED
            BY <3>1, <3>2, <3>3
    <2> QED
        BY <2>1, <2>2, <2>3
<1>6. g.entry \subseteq Frame \X Idx \X Target
    BY DEF Held
<1>7. ASSUME NEW f \in Frame, NEW i \in Idx, NEW h \in Target
      PROVE  <<f, i, h>> \in g.entry <=>
               \E w \in Proc, p \in Paths :
                   depth(p) < 3 /\ <<w, p, f>> \in Y /\ <<w, Append(p, i), h>> \in Y
    <2>1. ASSUME <<f, i, h>> \in g.entry
          PROVE  \E w \in Proc, p \in Paths :
                   depth(p) < 3 /\ <<w, p, f>> \in Y /\ <<w, Append(p, i), h>> \in Y
        <3>1. PICK w \in Proc, p \in Paths : depth(p) < 3 /\ <<w, p, f>> \in X /\ <<w, Append(p, i), h>> \in X
            BY <2>1 DEF Held
        <3>2. w = u => Append(p, i) \notin D
            BY <2>1, <3>1
        <3>3. /\ Append(p, i) \in Paths /\ Append(p, i) # PDP /\ Front(Append(p, i)) = p
            BY <3>1, Below
        <3>4. w = u => p \notin D
            BY <3>1, <3>2, <3>3 DEF Downwards
        <3> QED
            BY <3>1, <3>2, <3>4, <1>1
    <2>2. ASSUME NEW w \in Proc, NEW p \in Paths, depth(p) < 3, <<w, p, f>> \in Y, <<w, Append(p, i), h>> \in Y
          PROVE  <<f, i, h>> \in g.entry
        <3>1. <<w, p, f>> \in X /\ <<w, Append(p, i), h>> \in X
            BY <2>2, <1>2
        <3>2. <<f, i, h>> \in m.entry
            BY <3>1, <2>2 DEF Held
        <3>3. ASSUME NEW q \in Paths, <<u, q, f>> \in X PROVE Append(q, i) \notin D
            <4>1. w = u /\ q = p
                BY <3>1, <3>3 DEF Planted
            <4> QED
                BY <4>1, <2>2, <1>1
        <3> QED
            BY <3>2, <3>3
    <2> QED
        BY <2>1, <2>2
<1>8. g.page \subseteq Frame \X Content
    BY DEF Held
<1>9. ASSUME NEW f \in Frame, NEW c \in Content, <<f, c>> \in g.page
      PROVE  \E w \in Proc, p \in Paths : depth(p) = 3 /\ <<w, p, f>> \in Y
    <2>1. <<f, c>> \in m.page /\ f \notin Gone(X, u, D)
        BY <1>9
    <2>2. PICK w \in Proc, p \in Paths : depth(p) = 3 /\ <<w, p, f>> \in X
        BY <2>1 DEF Held
    <2> QED
        BY <2>1, <2>2, <1>1, <1>4
<1>10. ASSUME NEW w \in Proc, NEW p \in Paths, NEW f \in Frame, depth(p) = 3, <<w, p, f>> \in Y
       PROVE  \E c \in Content : <<f, c>> \in g.page
    <2>1. <<w, p, f>> \in X /\ f \notin Gone(X, u, D)
        BY <1>10, <1>1, <1>4
    <2>2. PICK c \in Content : <<f, c>> \in m.page
        BY <2>1, <1>10 DEF Held
    <2> QED
        BY <2>1, <2>2
<1>11. Held(g, Y)
    BY <1>5, <1>6, <1>7, <1>8, <1>9, <1>10 DEF Held
<1> QED
    BY <1>11 DEF Y

-----------------------------------------------------------------------------
(* What a process has and sees *)

\* The pages of w, and what is in those of its program.
Has(X, w) == {v \in Vpn : \E f \in Frame : <<w, Path(v), f>> \in X}
sees(X, m, w) ==
    {x \in UserPage \X Content :
        \E f \in Frame : <<w, Path(x[1]), f>> \in X /\ <<f, x[2]>> \in m.page}

\* What a process sees of a page.
LEMMA Sees ==
    ASSUME NEW X, NEW m, NEW w
    PROVE  /\ sees(X, m, w) \subseteq UserPage \X Content
           /\ \A v \in UserPage, c \in Content : <<v, c>> \in sees(X, m, w) <=>
                  \E f \in Frame : <<w, Path(v), f>> \in X /\ <<f, c>> \in m.page
BY DEF sees

\* A page that is seen.
LEMMA SeesPair ==
    ASSUME NEW X, NEW m, NEW w, NEW x \in sees(X, m, w)
    PROVE  /\ x = <<x[1], x[2]>> /\ x[1] \in UserPage /\ x[2] \in Content
           /\ \E f \in Frame : <<w, Path(x[1]), f>> \in X /\ <<f, x[2]>> \in m.page
<1>1. /\ x \in UserPage \X Content
      /\ \E f \in Frame : <<w, Path(x[1]), f>> \in X /\ <<f, x[2]>> \in m.page
    BY Zenon DEF sees
<1>2. x = <<x[1], x[2]>> /\ x[1] \in UserPage /\ x[2] \in Content
    BY <1>1
<1> QED
    BY <1>1, <1>2

\* The pages of a program lie beyond the first PT.
LEMMA UserPages == UserPage \subseteq Vpn /\ \A v \in UserPage : v >= Fan
BY LayoutAssumption DEF UserPage, Vpn

\* Who has the same frames with the same contents sees the same.
LEMMA SameSees ==
    ASSUME NEW X, NEW m, NEW w, NEW Y, NEW g,
           \A p, f : <<w, p, f>> \in Y <=> <<w, p, f>> \in X,
           \A v \in UserPage, c \in Content, f \in Frame : <<w, Path(v), f>> \in X =>
               (<<f, c>> \in g.page <=> <<f, c>> \in m.page)
    PROVE  Has(Y, w) = Has(X, w) /\ sees(Y, g, w) = sees(X, m, w)
<1>1. Has(Y, w) = Has(X, w)
    BY DEF Has
<1>2. sees(X, m, w) \subseteq UserPage \X Content /\ sees(Y, g, w) \subseteq UserPage \X Content
    BY Sees
<1>3. ASSUME NEW v \in UserPage, NEW c \in Content, <<v, c>> \in sees(X, m, w)
      PROVE  <<v, c>> \in sees(Y, g, w)
    <2>1. PICK f \in Frame : <<w, Path(v), f>> \in X /\ <<f, c>> \in m.page
        BY <1>3, Sees
    <2>2. <<w, Path(v), f>> \in Y /\ <<f, c>> \in g.page
        BY <2>1
    <2> QED
        BY <2>2, Sees
<1>4. ASSUME NEW v \in UserPage, NEW c \in Content, <<v, c>> \in sees(Y, g, w)
      PROVE  <<v, c>> \in sees(X, m, w)
    <2>1. PICK f \in Frame : <<w, Path(v), f>> \in Y /\ <<f, c>> \in g.page
        BY <1>4, Sees
    <2>2. <<w, Path(v), f>> \in X /\ <<f, c>> \in m.page
        BY <2>1
    <2> QED
        BY <2>2, Sees
<1> QED
    BY <1>1, <1>2, <1>3, <1>4

\* What the new nodes show.
LEMMA GrownSees ==
    ASSUME NEW X, Planted(X), NEW m, Held(m, X), NEW u \in Proc, NEW N, Nodes(X, u, N),
           Cardinality(N) <= Cardinality(m.free)
    PROVE  LET Y == planted(X, m, u, N)
               g == graft(m, TreeOf(X, u), N)
           IN  /\ \A w, p, f : <<w, p, f>> \in X => <<w, p, f>> \in Y
               /\ \A w, p, f : <<w, p, f>> \in Y =>
                      <<w, p, f>> \in X \/ (w = u /\ f \in Frame /\ \E x \in N : p = x[1])
               /\ \A x \in N : \E f \in Frame : <<u, x[1], f>> \in Y
               /\ \A w \in Proc : w # u => Has(Y, w) = Has(X, w) /\ sees(Y, g, w) = sees(X, m, w)
               /\ \A v \in Vpn : v \in Has(Y, u) <=> v \in Has(X, u) \/ \E x \in N : x[1] = Path(v)
               /\ \A v \in UserPage, c \in Content : <<v, c>> \in sees(Y, g, u) <=>
                      <<v, c>> \in sees(X, m, u) \/ \E x \in N : x[1] = Path(v) /\ c \in x[2]
<1> DEFINE Y == planted(X, m, u, N)
           g == graft(m, TreeOf(X, u), N)
<1>1. /\ \A x \in N : /\ x[1] \in Paths /\ place(m, N, x) \in Frame
                      /\ \A w \in Proc, p \in Paths : <<w, p, place(m, N, x)>> \notin X
                      /\ \A h \in Target : <<u, x[1], h>> \notin X
      /\ \A x, y \in N : place(m, N, x) = place(m, N, y) => x = y
    BY Places DEF Nodes
<1>2. \A w, p, f : <<w, p, f>> \in Y <=>
          <<w, p, f>> \in X \/ (w = u /\ \E x \in N : p = x[1] /\ f = place(m, N, x))
    BY DEF planted
<1>3. \A e : e \in g.page <=>
           e \in m.page \/ \E x \in N : \E c \in x[2] : e = <<place(m, N, x), c>>
    <2>1. \A x \in N : place(m, N, x) \in Target
        BY <1>1 DEF Target
    <2> QED
        BY <2>1, GraftIs
<1>4. \A f \in Frame, c \in Content : <<f, c>> \in m.page => \E w \in Proc, p \in Paths : <<w, p, f>> \in X
    BY DEF Held
<1>5. \A v \in Vpn : Path(v) \in Paths
    BY PathOfPage
<1>6. UserPage \subseteq Vpn /\ Frame \subseteq Target
    BY UserPages DEF Target
<1> HIDE DEF Y, g
<1>7. ASSUME NEW w \in Proc, w # u
      PROVE  Has(Y, w) = Has(X, w) /\ sees(Y, g, w) = sees(X, m, w)
    <2>1. \A p, f : <<w, p, f>> \in Y <=> <<w, p, f>> \in X
        BY <1>2, <1>7
    <2>3. ASSUME NEW v \in UserPage, NEW c \in Content, NEW f \in Frame, <<w, Path(v), f>> \in X
          PROVE  <<f, c>> \in g.page <=> <<f, c>> \in m.page
        <3>1. ASSUME <<f, c>> \in g.page, <<f, c>> \notin m.page PROVE FALSE
            <4>1. PICK x \in N : f = place(m, N, x)
                BY <3>1, <1>3
            <4> QED
                BY <4>1, <2>3, <1>1, <1>5, <1>6
        <3> QED
            BY <3>1, <1>3
    <2> QED
        BY <2>1, <2>3, SameSees
<1>8. ASSUME NEW v \in Vpn
      PROVE  v \in Has(Y, u) <=> v \in Has(X, u) \/ \E x \in N : x[1] = Path(v)
    <2>1. /\ v \in Has(Y, u) <=> \E f \in Frame : <<u, Path(v), f>> \in Y
          /\ v \in Has(X, u) <=> \E f \in Frame : <<u, Path(v), f>> \in X
        BY DEF Has
    <2>2. ASSUME NEW x \in N, x[1] = Path(v) PROVE \E f \in Frame : <<u, Path(v), f>> \in Y
        <3>1. <<u, Path(v), place(m, N, x)>> \in Y
            BY <2>2, <1>2
        <3> QED
            BY <3>1, <1>1
    <2>3. \A f \in Frame : <<u, Path(v), f>> \in Y =>
              <<u, Path(v), f>> \in X \/ \E x \in N : x[1] = Path(v)
        BY <1>2
    <2> QED
        BY <2>1, <2>2, <2>3, <1>2
<1>9. ASSUME NEW v \in UserPage, NEW c \in Content
      PROVE  <<v, c>> \in sees(Y, g, u) <=>
                 <<v, c>> \in sees(X, m, u) \/ \E x \in N : x[1] = Path(v) /\ c \in x[2]
    <2>1. ASSUME <<v, c>> \in sees(Y, g, u)
          PROVE  <<v, c>> \in sees(X, m, u) \/ \E x \in N : x[1] = Path(v) /\ c \in x[2]
        <3>1. PICK f \in Frame : <<u, Path(v), f>> \in Y /\ <<f, c>> \in g.page
            BY <2>1, Sees
        <3>2. CASE <<u, Path(v), f>> \in X
            <4>1. <<f, c>> \in m.page
                <5>1. ASSUME <<f, c>> \notin m.page PROVE FALSE
                    <6>1. PICK x \in N : f = place(m, N, x)
                        BY <5>1, <3>1, <1>3
                    <6> QED
                        BY <6>1, <3>2, <1>1, <1>5, <1>6
                <5> QED
                    BY <5>1
            <4> QED
                BY <4>1, <3>2, Sees
        <3>3. CASE <<u, Path(v), f>> \notin X
            <4>1. PICK x \in N : Path(v) = x[1] /\ f = place(m, N, x)
                BY <3>1, <3>3, <1>2
            <4>2. <<f, c>> \notin m.page
                BY <4>1, <1>1, <1>4
            <4>3. PICK y \in N : c \in y[2] /\ f = place(m, N, y)
                BY <4>2, <3>1, <1>3
            <4> QED
                BY <4>1, <4>3, <1>1
        <3> QED
            BY <3>2, <3>3
    <2>2. ASSUME <<v, c>> \in sees(X, m, u) PROVE <<v, c>> \in sees(Y, g, u)
        <3>1. PICK f \in Frame : <<u, Path(v), f>> \in X /\ <<f, c>> \in m.page
            BY <2>2, Sees
        <3> QED
            BY <3>1, <1>2, <1>3, Sees
    <2>3. ASSUME NEW x \in N, x[1] = Path(v), c \in x[2] PROVE <<v, c>> \in sees(Y, g, u)
        <3>1. <<u, Path(v), place(m, N, x)>> \in Y /\ <<place(m, N, x), c>> \in g.page
            BY <2>3, <1>2, <1>3
        <3> QED
            BY <3>1, <1>1, Sees
    <2> QED
        BY <2>1, <2>2, <2>3
<1>10. /\ \A w, p, f : <<w, p, f>> \in X => <<w, p, f>> \in Y
       /\ \A w, p, f : <<w, p, f>> \in Y =>
              <<w, p, f>> \in X \/ (w = u /\ f \in Frame /\ \E x \in N : p = x[1])
       /\ \A x \in N : \E f \in Frame : <<u, x[1], f>> \in Y
    BY <1>1, <1>2
<1> QED
    BY <1>7, <1>8, <1>9, <1>10 DEF Y, g

\* The frames of F hold nothing any more.
Emptied(m, g, F) == g.page = {x \in m.page : x[1] \notin F}

\* What is left to see.
LEMMA PrunedSees ==
    ASSUME NEW X, Planted(X), NEW m, NEW u \in Proc, NEW D, NEW g, Emptied(m, g, Gone(X, u, D))
    PROVE  LET Y == pruned(X, u, D) IN
           /\ \A w, p, f : <<w, p, f>> \in Y <=> <<w, p, f>> \in X /\ ~(w = u /\ p \in D)
           /\ \A w \in Proc : w # u => Has(Y, w) = Has(X, w) /\ sees(Y, g, w) = sees(X, m, w)
           /\ \A v \in Vpn : v \in Has(Y, u) <=> v \in Has(X, u) /\ Path(v) \notin D
           /\ sees(Y, g, u) \subseteq sees(X, m, u)
<1> DEFINE Y == pruned(X, u, D)
<1>1. \A w, p, f : <<w, p, f>> \in Y <=> <<w, p, f>> \in X /\ ~(w = u /\ p \in D)
    BY Zenon DEF pruned
<1>g. g.page = {x \in m.page : x[1] \notin Gone(X, u, D)}
    BY DEF Emptied
<1>2. ASSUME NEW w \in Proc, w # u, NEW v \in Vpn, NEW f \in Frame, <<w, Path(v), f>> \in X
      PROVE  f \notin Gone(X, u, D)
    BY <1>2, PathOfPage DEF Gone, Planted
<1>3. UserPage \subseteq Vpn
    BY UserPages
<1> HIDE DEF Y
<1>4. ASSUME NEW w \in Proc, w # u
      PROVE  Has(Y, w) = Has(X, w) /\ sees(Y, g, w) = sees(X, m, w)
    <2>1. \A p, f : <<w, p, f>> \in Y <=> <<w, p, f>> \in X
        BY <1>1, <1>4
    <2>3. \A v \in UserPage, c \in Content, f \in Frame : <<w, Path(v), f>> \in X =>
              (<<f, c>> \in g.page <=> <<f, c>> \in m.page)
        BY <1>2, <1>3, <1>4, <1>g
    <2> QED
        BY <2>1, <2>3, SameSees
<1>5. \A v \in Vpn : v \in Has(Y, u) <=> v \in Has(X, u) /\ Path(v) \notin D
    BY <1>1 DEF Has
<1>6. sees(Y, g, u) \subseteq sees(X, m, u)
    <2>1. ASSUME NEW v \in UserPage, NEW c \in Content, <<v, c>> \in sees(Y, g, u)
          PROVE  <<v, c>> \in sees(X, m, u)
        <3>1. PICK f \in Frame : <<u, Path(v), f>> \in Y /\ <<f, c>> \in g.page
            BY <2>1 DEF sees
        <3>2. <<u, Path(v), f>> \in X /\ <<f, c>> \in m.page
            BY <3>1, <1>1, <1>g
        <3> QED
            BY <3>2, Sees
    <2>2. sees(Y, g, u) \subseteq UserPage \X Content
        BY Sees
    <2> QED
        BY <2>1, <2>2
<1> QED
    BY <1>1, <1>4, <1>5, <1>6 DEF Y

-----------------------------------------------------------------------------
(* The constructor *)

\* The identity map is hung at the first PD of u.
LEMMA IdentityMapped ==
    ASSUME NEW X, Planted(X), NEW m, Held(m, X), NEW u \in Proc, NEW q \in Frame, <<u, PD0, q>> \in X,
           \A h \in Target : <<u, <<0, 0>>, h>> \notin X
    PROVE  LET Y == X \cup {<<u, <<0, 0>>, FirstPT>>} IN
           Planted(Y) /\ Held([m EXCEPT !.entry = @ \cup {<<q, 0, FirstPT>>}], Y)
<1> DEFINE Y == X \cup {<<u, <<0, 0>>, FirstPT>>}
           g == [m EXCEPT !.entry = @ \cup {<<q, 0, FirstPT>>}]
<1>1. /\ FirstPT \in Target /\ FirstPT \notin Frame /\ Frame \subseteq Target
      /\ <<0, 0>> \in Paths /\ PD0 \in Paths /\ <<0, 0>> # PDP /\ 0 \in Idx
      /\ depth(<<0, 0>>) = 2 /\ depth(PD0) = 1 /\ <<0, 0>> = Append(PD0, 0)
    BY FramesAre, Depths, SizesTyped DEF Target
<1>2. Front(<<0, 0>>) = PD0
    <2>1. depth(PD0) < 3
        BY <1>1
    <2>2. Front(Append(PD0, 0)) = PD0
        BY <2>1, <1>1, Below
    <2> QED
        BY <2>2, <1>1
<1>3. /\ g = [free |-> g.free, entry |-> g.entry, page |-> g.page]
      /\ g.free = m.free /\ g.page = m.page /\ g.entry = m.entry \cup {<<q, 0, FirstPT>>}
    <2>1. m = [free |-> m.free, entry |-> m.entry, page |-> m.page]
        BY DEF Held
    <2>2. g = [free |-> m.free, entry |-> m.entry \cup {<<q, 0, FirstPT>>}, page |-> m.page]
        BY <2>1
    <2> HIDE DEF g
    <2> QED
        BY <2>2
<1>4. \A w, p, f : <<w, p, f>> \in Y <=>
          <<w, p, f>> \in X \/ (w = u /\ p = <<0, 0>> /\ f = FirstPT)
    OBVIOUS
<1>5. Y \subseteq Proc \X Paths \X Target
    BY <1>1 DEF Planted
<1> HIDE DEF Y, g
<1>6. Planted(Y)
    <2>1. \A v, w \in Proc, p, z \in Paths, f \in Frame :
              <<v, p, f>> \in Y /\ <<w, z, f>> \in Y => v = w /\ p = z
        BY <1>1, <1>4 DEF Planted
    <2>2. ASSUME NEW w \in Proc, NEW p \in Paths, NEW f \in Target, NEW h \in Target,
                 <<w, p, f>> \in Y, <<w, p, h>> \in Y
          PROVE  f = h
        <3>1. CASE w = u /\ p = <<0, 0>>
            BY <2>2, <3>1, <1>4
        <3>2. CASE ~(w = u /\ p = <<0, 0>>)
            <4>1. <<w, p, f>> \in X /\ <<w, p, h>> \in X
                BY <2>2, <3>2, <1>4
            <4> QED
                BY <4>1 DEF Planted
        <3> QED
            BY <3>1, <3>2
    <2>3. ASSUME NEW w \in Proc, NEW p \in Paths, NEW f \in Target, <<w, p, f>> \in Y, p # PDP
          PROVE  \E h \in Frame : <<w, Front(p), h>> \in Y
        <3>1. CASE <<w, p, f>> \in X
            <4>1. PICK h \in Frame : <<w, Front(p), h>> \in X
                BY <2>3, <3>1 DEF Planted
            <4> QED
                BY <4>1, <1>4
        <3>2. CASE <<w, p, f>> \notin X
            BY <2>3, <3>2, <1>2, <1>4
        <3> QED
            BY <3>1, <3>2
    <2>4. \A w \in Proc, p \in Paths : <<w, p, FirstPT>> \in Y => p = <<0, 0>>
        BY <1>4 DEF Planted
    <2> QED
        BY <1>5, <2>1, <2>2, <2>3, <2>4, Zenon DEF Planted
<1>7. g.free = {f \in Frame : \A w \in Proc, p \in Paths : <<w, p, f>> \notin Y}
    <2>1. m.free = {f \in Frame : \A w \in Proc, p \in Paths : <<w, p, f>> \notin X}
        BY DEF Held
    <2>2. \A f \in Frame : \A w, p : <<w, p, f>> \in Y <=> <<w, p, f>> \in X
        BY <1>1, <1>4
    <2> QED
        BY <2>1, <2>2, <1>3
<1>8. g.entry \subseteq Frame \X Idx \X Target
    BY <1>1, <1>3 DEF Held
<1>9. ASSUME NEW f \in Frame, NEW i \in Idx, NEW h \in Target
      PROVE  <<f, i, h>> \in g.entry <=>
               \E w \in Proc, p \in Paths :
                   depth(p) < 3 /\ <<w, p, f>> \in Y /\ <<w, Append(p, i), h>> \in Y
    <2>1. ASSUME <<f, i, h>> \in m.entry
          PROVE  \E w \in Proc, p \in Paths :
                   depth(p) < 3 /\ <<w, p, f>> \in Y /\ <<w, Append(p, i), h>> \in Y
        <3>1. PICK w \in Proc, p \in Paths : depth(p) < 3 /\ <<w, p, f>> \in X /\ <<w, Append(p, i), h>> \in X
            BY <2>1 DEF Held
        <3> QED
            BY <3>1, <1>4
    <2>2. ASSUME f = q, i = 0, h = FirstPT
          PROVE  \E w \in Proc, p \in Paths :
                   depth(p) < 3 /\ <<w, p, f>> \in Y /\ <<w, Append(p, i), h>> \in Y
        <3>1. depth(PD0) < 3 /\ <<u, PD0, f>> \in Y /\ <<u, Append(PD0, i), h>> \in Y
            BY <2>2, <1>1, <1>4
        <3> QED
            BY <3>1, <1>1
    <2>3. ASSUME NEW w \in Proc, NEW p \in Paths, depth(p) < 3, <<w, p, f>> \in Y, <<w, Append(p, i), h>> \in Y
          PROVE  <<f, i, h>> \in g.entry
        <3>1. <<w, p, f>> \in X
            BY <2>3, <1>1, <1>4
        <3>2. CASE <<w, Append(p, i), h>> \in X
            <4>1. <<f, i, h>> \in m.entry
                BY <2>3, <3>1, <3>2 DEF Held
            <4> QED
                BY <4>1, <1>3
        <3>3. CASE <<w, Append(p, i), h>> \notin X
            <4>1. w = u /\ Append(p, i) = Append(PD0, 0) /\ h = FirstPT
                BY <3>3, <2>3, <1>1, <1>4
            <4>2. p = PD0 /\ i = 0
                <5>1. Front(Append(p, i)) = p /\ Last(Append(p, i)) = i
                    BY <2>3, Below
                <5>2. Front(Append(PD0, 0)) = PD0 /\ Last(Append(PD0, 0)) = 0
                    BY <1>1, Below
                <5> QED
                    BY <4>1, <5>1, <5>2
            <4>3. f = q
                BY <4>1, <4>2, <3>1, <1>1 DEF Planted
            <4> QED
                BY <4>1, <4>2, <4>3, <1>3
        <3> QED
            BY <3>2, <3>3
    <2>4. <<f, i, h>> \in g.entry <=> <<f, i, h>> \in m.entry \/ (f = q /\ i = 0 /\ h = FirstPT)
        BY <1>3
    <2> QED
        BY <2>1, <2>2, <2>3, <2>4
<1>10. \A f \in Frame, c \in Content : <<f, c>> \in g.page =>
           \E w \in Proc, p \in Paths : depth(p) = 3 /\ <<w, p, f>> \in Y
    <2>1. \A f \in Frame, c \in Content : <<f, c>> \in m.page =>
              \E w \in Proc, p \in Paths : depth(p) = 3 /\ <<w, p, f>> \in X
        BY DEF Held
    <2> QED
        BY <2>1, <1>3, <1>4
<1>11. \A w \in Proc, p \in Paths, f \in Frame :
           depth(p) = 3 /\ <<w, p, f>> \in Y => \E c \in Content : <<f, c>> \in g.page
    <2>1. \A w \in Proc, p \in Paths, f \in Frame :
              depth(p) = 3 /\ <<w, p, f>> \in X => \E c \in Content : <<f, c>> \in m.page
        BY DEF Held
    <2>2. \A w, p : \A f \in Frame : <<w, p, f>> \in Y => <<w, p, f>> \in X
        BY <1>1, <1>4
    <2> QED
        BY <2>1, <2>2, <1>3
<1>12. g.page \subseteq Frame \X Content
    BY <1>3 DEF Held
<1>13. Held(g, Y)
    BY <1>3, <1>7, <1>8, <1>9, <1>10, <1>11, <1>12 DEF Held
<1> QED
    BY <1>6, <1>13 DEF g, Y

\* The two tables of the constructor.
Ctor == {<<PDP, {}>>, <<PD0, {}>>}

\* The constructor allocates two nodes, the PDP first.
LEMMA CtorNodes ==
    ASSUME NEW X, NEW u \in Proc, \A p \in Paths, f \in Target : <<u, p, f>> \notin X
    PROVE  /\ Nodes(X, u, Ctor) /\ Cardinality(Ctor) = Cardinality({PDP, PD0})
           /\ \A m : place(m, Ctor, <<PDP, {}>>) = alloc(m, 0) /\ place(m, Ctor, <<PD0, {}>>) = alloc(m, 1)
<1>1. /\ PDP \in Paths /\ depth(PDP) = 0 /\ PD0 \in Paths /\ depth(PD0) = 1
      /\ PD0 # PDP /\ PD0 = Append(PDP, 0) /\ 0 \in Idx
    BY Depths, SizesTyped
<1>2. Front(PD0) = PDP
    BY <1>1, Below
<1> DEFINE a == <<PDP, {}>>
           b == <<PD0, {}>>
<1>3. a # b /\ a[1] = PDP /\ b[1] = PD0 /\ a[2] = {} /\ b[2] = {} /\ a = <<a[1], a[2]>> /\ b = <<b[1], b[2]>>
    BY <1>1
<1>4. Ctor = {a, b}
    BY DEF Ctor
<1> HIDE DEF a, b
<1>5. IsFiniteSet(Ctor) /\ Cardinality(Ctor) = 2 /\ Cardinality({PDP, PD0}) = 2
    <2>1. ASSUME NEW x, NEW y, x # y
          PROVE  IsFiniteSet({x, y}) /\ Cardinality({x, y}) = 2
        <3>1. IsFiniteSet({x}) /\ Cardinality({x}) = 1
            BY FS_Singleton
        <3>2. {x, y} = {x} \cup {y} /\ y \notin {x}
            BY <2>1
        <3> QED
            BY <3>1, <3>2, FS_AddElement
    <2>2. IsFiniteSet({a, b}) /\ Cardinality({a, b}) = 2
        BY <2>1, <1>3
    <2>3. Cardinality({PDP, PD0}) = 2
        BY <2>1, <1>1
    <2> QED
        BY <2>2, <2>3, <1>4
<1>6. Nodes(X, u, Ctor)
    <2>1. ASSUME NEW x \in Ctor
          PROVE  /\ x = <<x[1], x[2]>> /\ x[1] \in Paths /\ x[2] \subseteq Content
                 /\ depth(x[1]) = 3 <=> x[2] # {}
                 /\ \A g \in Target : <<u, x[1], g>> \notin X
                 /\ \/ x[1] = PDP
                    \/ \E g \in Frame : <<u, Front(x[1]), g>> \in X
                    \/ \E y \in Ctor : y[1] = Front(x[1])
        <3>1. x = a \/ x = b
            BY <1>4
        <3>2. CASE x = a
            BY <3>2, <1>1, <1>3
        <3>3. CASE x = b
            <4>1. a \in Ctor /\ a[1] = Front(x[1])
                BY <3>3, <1>2, <1>3, <1>4
            <4>2. x[1] = PD0 /\ x[2] = {} /\ x = <<x[1], x[2]>>
                BY <3>3, <1>3
            <4>3. depth(x[1]) # 3
                BY <4>2, <1>1
            <4>4. \A g \in Target : <<u, x[1], g>> \notin X
                BY <4>2, <1>1
            <4> QED
                BY <4>1, <4>2, <4>3, <4>4, <1>1
        <3> QED
            BY <3>1, <3>2, <3>3
    <2>2. \A x, y \in Ctor : x[1] = y[1] => x = y
        BY <1>1, <1>3, <1>4
    <2> QED
        BY <1>5, <2>1, <2>2 DEF Nodes
<1>7. preorder(PDP) = 0 /\ preorder(PD0) \in Nat /\ preorder(PD0) # 0
    BY <1>1, PreorderFirst, PreorderUnique
<1>8. rank(Ctor, PDP) = 0
    <2>1. {y \in Ctor : preorder(y[1]) < preorder(PDP)} = {}
        BY <1>3, <1>4, <1>7
    <2> QED
        BY <2>1, FS_EmptySet DEF rank
<1>9. rank(Ctor, PD0) = 1
    <2>1. {y \in Ctor : preorder(y[1]) < preorder(PD0)} = {a}
        BY <1>3, <1>4, <1>7
    <2> QED
        BY <2>1, FS_Singleton DEF rank
<1>10. \A m : place(m, Ctor, a) = alloc(m, 0) /\ place(m, Ctor, b) = alloc(m, 1)
    BY <1>3, <1>8, <1>9 DEF place
<1> QED
    BY <1>5, <1>6, <1>10 DEF a, b

\* construct makes a memory with the first PD, for a process that had none.
LEMMA Constructed ==
    ASSUME NEW X, Planted(X), NEW m, Held(m, X), NEW u \in Proc, RoomToConstruct(m),
           \A p \in Paths, f \in Target : <<u, p, f>> \notin X
    PROVE  \E Y : /\ Planted(Y) /\ Held(construct(m), Y)
                  /\ alloc(m, 0) \in m.free
                  /\ \A w, p, f : <<w, p, f>> \in X => <<w, p, f>> \in Y
                  /\ \A w, p, f : <<w, p, f>> \in Y => <<w, p, f>> \in X \/ (w = u /\ p \in {PDP, PD0, <<0, 0>>})
                  /\ <<u, PDP, alloc(m, 0)>> \in Y
                  /\ \E f \in Frame : <<u, PD0, f>> \in Y
                  /\ <<u, <<0, 0>>, FirstPT>> \in Y
                  /\ \A w \in Proc : w # u => /\ Has(Y, w) = Has(X, w)
                                              /\ sees(Y, construct(m), w) = sees(X, m, w)
<1> DEFINE Z == planted(X, m, u, Ctor)
           h == graft(m, TreeOf(X, u), Ctor)
           r == alloc(m, 0)
           q == alloc(m, 1)
           Y == Z \cup {<<u, <<0, 0>>, FirstPT>>}
           g == [h EXCEPT !.entry = @ \cup {<<q, 0, FirstPT>>}]
<1>1. /\ Nodes(X, u, Ctor) /\ Cardinality(Ctor) <= Cardinality(m.free)
      /\ place(m, Ctor, <<PDP, {}>>) = r /\ place(m, Ctor, <<PD0, {}>>) = q
    BY CtorNodes DEF RoomToConstruct, Room
<1>2. TreeOf(X, u) = {}
    BY DEF TreeOf
<1>3. construct(m) = g
    BY <1>2 DEF construct, Ctor
<1>4. Planted(Z) /\ Held(h, Z)
    BY <1>1, GrownPlanted, Grafted
<1>5. <<PDP, {}>> \in Ctor /\ <<PD0, {}>> \in Ctor /\ \A x \in Ctor : x[1] = PDP \/ x[1] = PD0
    BY DEF Ctor
<1>6. r \in m.free /\ r \in Frame /\ q \in Frame
    BY <1>1, <1>5, Places
<1>7. \A w, p, f : <<w, p, f>> \in Z <=>
          <<w, p, f>> \in X \/ (w = u /\ \E x \in Ctor : p = x[1] /\ f = place(m, Ctor, x))
    BY DEF planted
<1>8. /\ \A w, p, f : <<w, p, f>> \in X => <<w, p, f>> \in Z
      /\ \A w \in Proc : w # u => Has(Z, w) = Has(X, w) /\ sees(Z, h, w) = sees(X, m, w)
    BY <1>1, GrownSees
<1> HIDE DEF Z, h, r, q
<1>9. <<u, PDP, r>> \in Z /\ <<u, PD0, q>> \in Z
    <2>1. <<PDP, {}>>[1] = PDP /\ <<PD0, {}>>[1] = PD0
        OBVIOUS
    <2> QED
        BY <2>1, <1>1, <1>5, <1>7
<1>10. \A k \in Target : <<u, <<0, 0>>, k>> \notin Z
    BY <1>5, <1>7, Depths
<1>11. Planted(Y) /\ Held(g, Y)
    BY <1>4, <1>6, <1>9, <1>10, IdentityMapped
<1>12. \A w, p, f : <<w, p, f>> \in Y <=> <<w, p, f>> \in Z \/ (w = u /\ p = <<0, 0>> /\ f = FirstPT)
    OBVIOUS
<1>13. g.page = h.page
    OBVIOUS
<1> HIDE DEF Y, g
<1>14. \A w, p, f : <<w, p, f>> \in Y => <<w, p, f>> \in X \/ (w = u /\ p \in {PDP, PD0, <<0, 0>>})
    BY <1>5, <1>7, <1>12
<1>15. ASSUME NEW w \in Proc, w # u
       PROVE  Has(Y, w) = Has(X, w) /\ sees(Y, g, w) = sees(X, m, w)
    <2>1. \A p, f : <<w, p, f>> \in Y <=> <<w, p, f>> \in Z
        BY <1>12, <1>15
    <2>2. Has(Y, w) = Has(Z, w) /\ sees(Y, g, w) = sees(Z, h, w)
        BY <2>1, <1>13, SameSees
    <2> QED
        BY <2>2, <1>8, <1>15
<1>16. /\ Planted(Y) /\ Held(g, Y) /\ r \in m.free
       /\ \A w, p, f : <<w, p, f>> \in X => <<w, p, f>> \in Y
       /\ <<u, PDP, r>> \in Y /\ \E f \in Frame : <<u, PD0, f>> \in Y
       /\ <<u, <<0, 0>>, FirstPT>> \in Y
    BY <1>6, <1>8, <1>9, <1>11, <1>12
<1> QED
    BY <1>3, <1>14, <1>15, <1>16 DEF r

-----------------------------------------------------------------------------
(* What frees *)

\* The nodes that clear leaves.
Base == {PDP, PD0, <<0, 0>>}
Cut == Paths \ Base

\* The nodes that clear leaves are tables.
LEMMA BaseAbove ==
    /\ Base \subseteq Paths /\ Front(PD0) = PDP /\ Front(<<0, 0>>) = PD0
    /\ Last(PD0) = 0 /\ Last(<<0, 0>>) = 0
    /\ \A p \in Base : depth(p) < 3
<1>1. /\ PDP \in Paths /\ depth(PDP) = 0 /\ PD0 \in Paths /\ depth(PD0) = 1
      /\ PD0 = Append(PDP, 0) /\ <<0, 0>> = Append(PD0, 0) /\ 0 \in Idx
      /\ <<0, 0>> \in Paths /\ depth(<<0, 0>>) = 2
    BY Depths, SizesTyped
<1>2. depth(PDP) < 3 /\ depth(PD0) < 3 /\ depth(<<0, 0>>) < 3
    BY <1>1
<1>3. Front(Append(PDP, 0)) = PDP /\ Last(Append(PDP, 0)) = 0
    BY <1>1, <1>2, Below
<1>4. Front(Append(PD0, 0)) = PD0 /\ Last(Append(PD0, 0)) = 0
    BY <1>1, <1>2, Below
<1> QED
    BY <1>1, <1>2, <1>3, <1>4 DEF Base

\* What free leaves of memory.
LEMMA FreeIs ==
    ASSUME NEW m, NEW F
    PROVE  /\ free(m, F) = [free |-> free(m, F).free, entry |-> free(m, F).entry, page |-> free(m, F).page]
           /\ free(m, F).free = m.free \cup F
           /\ free(m, F).entry = {e \in m.entry : e[1] \notin F}
           /\ free(m, F).page = {x \in m.page : x[1] \notin F}
BY DEF free

\* The entry that leads to a node of u leads to no other.
LEMMA EntryOf ==
    ASSUME NEW X, Planted(X), NEW m, Held(m, X), NEW u \in Proc, NEW f, NEW p \in Paths, <<u, p, f>> \in X,
           NEW i, NEW h, <<f, i, h>> \in m.entry
    PROVE  f \in Frame /\ i \in Idx /\ h \in Target /\ depth(p) < 3 /\ <<u, Append(p, i), h>> \in X
<1>1. f \in Frame /\ i \in Idx /\ h \in Target
    BY DEF Held
<1>2. PICK w \in Proc, q \in Paths : depth(q) < 3 /\ <<w, q, f>> \in X /\ <<w, Append(q, i), h>> \in X
    BY <1>1 DEF Held
<1>3. w = u /\ q = p
    BY <1>1, <1>2 DEF Planted
<1> QED
    BY <1>1, <1>2, <1>3

\* clear: all but the first PD goes.
LEMMA Cleared ==
    ASSUME NEW X, Planted(X), NEW m, Held(m, X), NEW u \in Proc, NEW r, <<u, PDP, r>> \in X,
           <<u, <<0, 0>>, FirstPT>> \in X
    PROVE  /\ Downwards(X, u, Cut) /\ Held(clear(m, r), pruned(X, u, Cut))
           /\ Emptied(m, clear(m, r), Gone(X, u, Cut))
<1> DEFINE D == Cut
           T == tree(m, r)
           F == frames(T, nodes(T) \ {PDP, PD0})
           g == clear(m, r)
<1> USE DEF Cut
<1>1. T = TreeOf(X, u)
    BY TreeIs
<1>2. ASSUME NEW p \in Paths, NEW f \in Frame, <<u, p, f>> \in X
      PROVE  p # <<0, 0>>
    <2>1. FirstPT \in Target /\ f \in Target /\ f # FirstPT
        BY FramesAre DEF Target
    <2> QED
        BY <2>1, <1>2 DEF Planted
<1>t. /\ \A p : p \in nodes(T) <=> p \in Paths /\ \E f \in Frame : <<u, p, f>> \in X
      /\ \A P, f : f \in frames(T, P) <=> f \in Frame /\ \E p \in P : p \in Paths /\ <<u, p, f>> \in X
    <2> HIDE DEF T
    <2> QED
        BY <1>1, TreeParts
<1>3. F = Gone(X, u, D)
    <2>1. \A f : f \in F <=> f \in Frame /\ \E p \in nodes(T) \ {PDP, PD0} : p \in Paths /\ <<u, p, f>> \in X
        BY <1>t
    <2>2. \A p : p \in nodes(T) <=> p \in Paths /\ \E f \in Frame : <<u, p, f>> \in X
        BY <1>t
    <2>3. \A f : f \in Gone(X, u, D) <=> f \in Frame /\ \E p \in Paths : p \notin Base /\ <<u, p, f>> \in X
        BY DEF Gone
    <2> HIDE DEF F, T
    <2>4. ASSUME NEW f \in F PROVE f \in Gone(X, u, D)
        <3>1. PICK p \in nodes(T) \ {PDP, PD0} : f \in Frame /\ p \in Paths /\ <<u, p, f>> \in X
            BY <2>1
        <3>2. p \notin Base
            BY <3>1, <1>2 DEF Base
        <3> QED
            BY <3>1, <3>2, <2>3
    <2>5. ASSUME NEW f \in Gone(X, u, D) PROVE f \in F
        <3>1. PICK p \in Paths : f \in Frame /\ p \notin Base /\ <<u, p, f>> \in X
            BY <2>3
        <3>2. p \in nodes(T) \ {PDP, PD0}
            BY <3>1, <2>2 DEF Base
        <3> QED
            BY <3>1, <3>2, <2>1
    <2> QED
        BY <2>4, <2>5
<1>4. \A f : f \in frames(T, {PDP, PD0}) <=> f \in Frame /\ \E p \in {PDP, PD0} : p \in Paths /\ <<u, p, f>> \in X
    BY <1>t
<1>5. /\ g = [free |-> g.free, entry |-> g.entry, page |-> g.page]
      /\ g.free = m.free \cup F
      /\ g.page = {x \in m.page : x[1] \notin F}
      /\ g.entry = {e \in m.entry : e[1] \notin F /\ kept(T, e)}
    <2> DEFINE m1 == free(m, F)
    <2>1. g = [m1 EXCEPT !.entry = {e \in m1.entry : kept(T, e)}]
        BY DEF clear
    <2>2. /\ m1 = [free |-> m1.free, entry |-> m1.entry, page |-> m1.page]
          /\ m1.free = m.free \cup F
          /\ m1.entry = {e \in m.entry : e[1] \notin F}
          /\ m1.page = {x \in m.page : x[1] \notin F}
        <3> HIDE DEF F
        <3> QED
            BY FreeIs
    <2> HIDE DEF m1, g, F, T
    <2>3. g = [free |-> m1.free, entry |-> {e \in m1.entry : kept(T, e)}, page |-> m1.page]
        BY <2>1, <2>2
    <2>4. g = [free |-> g.free, entry |-> g.entry, page |-> g.page] /\ g.free = m1.free
          /\ g.entry = {e \in m1.entry : kept(T, e)} /\ g.page = m1.page
        BY <2>3
    <2> QED
        BY <2>2, <2>4
<1> HIDE DEF F, T, g
<1>6. Downwards(X, u, D)
    BY BaseAbove DEF Downwards, Base
<1>7. ASSUME NEW f \in Frame, NEW i \in Idx, NEW h \in Target, <<f, i, h>> \in m.entry
      PROVE  <<f, i, h>> \in g.entry <=> \A p \in Paths : <<u, p, f>> \in X => Append(p, i) \notin D
    <2>1. <<f, i, h>> \in g.entry <=> f \notin F /\ (f \notin frames(T, {PDP, PD0}) \/ i = 0)
        BY <1>5, <1>7 DEF kept
    <2>2. ASSUME <<f, i, h>> \in g.entry, NEW p \in Paths, <<u, p, f>> \in X
          PROVE  Append(p, i) \in Base
        <3>1. p \in Base
            BY <2>1, <2>2, <1>3 DEF Gone
        <3>2. p = PDP \/ p = PD0
            BY <3>1, <2>2, <1>2 DEF Base
        <3>3. i = 0
            BY <2>1, <2>2, <3>2, <1>4
        <3> QED
            BY <3>2, <3>3, Depths DEF Base
    <2>3. ASSUME \A p \in Paths : <<u, p, f>> \in X => Append(p, i) \notin D
          PROVE  <<f, i, h>> \in g.entry
        <3>1. ASSUME NEW p \in Paths, <<u, p, f>> \in X
              PROVE  p \in Base /\ i = 0
            <4>1. depth(p) < 3
                BY <3>1, <1>7, EntryOf
            <4>2. /\ Append(p, i) \in Paths /\ Append(p, i) # PDP
                  /\ Front(Append(p, i)) = p /\ Last(Append(p, i)) = i
                BY <4>1, Below
            <4>3. Append(p, i) \in {PD0, <<0, 0>>}
                BY <2>3, <3>1, <4>2 DEF Base
            <4> QED
                BY <4>2, <4>3, BaseAbove DEF Base
        <3>2. f \notin F
            BY <3>1, <1>3 DEF Gone
        <3>3. f \in frames(T, {PDP, PD0}) => i = 0
            BY <3>1, <1>4
        <3> QED
            BY <3>2, <3>3, <2>1
    <2> QED
        BY <2>2, <2>3
<1>8. g.entry \subseteq m.entry
    BY <1>5
<1>9. g.free = m.free \cup Gone(X, u, D) /\ g.page = {x \in m.page : x[1] \notin Gone(X, u, D)}
    BY <1>3, <1>5
<1> HIDE DEF D
<1>10. Held(g, pruned(X, u, D))
    BY <1>5, <1>6, <1>7, <1>8, <1>9, Pruned
<1> QED
    BY <1>6, <1>9, <1>10 DEF g, D, Emptied

\* The frame at <<0, 0>> is FirstPT: it is none of the allocator's.
LEMMA NotFirst ==
    ASSUME NEW X, Planted(X), NEW u \in Proc, <<u, <<0, 0>>, FirstPT>> \in X,
           NEW p \in Paths, NEW f \in Frame, <<u, p, f>> \in X
    PROVE  p # <<0, 0>>
<1>1. FirstPT \in Target /\ f \in Target /\ f # FirstPT
    BY FramesAre DEF Target
<1> QED
    BY <1>1 DEF Planted

\* freeMapping: the pages of V go, the tables stay.
LEMMA Unmapped ==
    ASSUME NEW X, Planted(X), NEW m, Held(m, X), NEW u \in Proc, NEW r, <<u, PDP, r>> \in X,
           NEW V \in SUBSET Vpn
    PROVE  LET D == {Path(v) : v \in V} IN
           /\ Downwards(X, u, D) /\ Held(freeMapping(m, r, V), pruned(X, u, D))
           /\ Emptied(m, freeMapping(m, r, V), Gone(X, u, D))
<1> DEFINE D == {Path(v) : v \in V}
           T == tree(m, r)
           F == frames(T, D)
           cut == UNION {at(T, Front(Path(v))) \X {Last(Path(v))} : v \in V}
           g == freeMapping(m, r, V)
           m1 == free(m, F)
<1>1. T = TreeOf(X, u)
    BY TreeIs
<1>2. /\ \A v \in V : Path(v) \in Paths /\ depth(Path(v)) = 3 /\ Path(v) # PDP
      /\ \A p \in D : \E v \in V : p = Path(v)
      /\ \A v \in V : Path(v) \in D
    BY PathOfPage DEF depth
<1>3. /\ \A P, f : f \in frames(T, P) <=> f \in Frame /\ \E p \in P : p \in Paths /\ <<u, p, f>> \in X
      /\ \A p, f : f \in at(T, p) <=> p \in Paths /\ f \in Target /\ <<u, p, f>> \in X
    <2> HIDE DEF T
    <2> QED
        BY <1>1, TreeParts
<1>4. g = [m1 EXCEPT !.entry = {e \in m1.entry : <<e[1], e[2]>> \notin cut}]
    BY DEF freeMapping
<1>5. \A f, i : <<f, i>> \in cut <=> \E v \in V : f \in at(T, Front(Path(v))) /\ i = Last(Path(v))
    OBVIOUS
<1> HIDE DEF D, T, cut, g
<1>6. F = Gone(X, u, D)
    BY <1>3 DEF Gone
<1> HIDE DEF F
<1>7. /\ m1 = [free |-> m1.free, entry |-> m1.entry, page |-> m1.page]
      /\ m1.free = m.free \cup F
      /\ m1.entry = {e \in m.entry : e[1] \notin F}
      /\ m1.page = {x \in m.page : x[1] \notin F}
    BY FreeIs
<1> HIDE DEF m1
<1>8. /\ g = [free |-> g.free, entry |-> g.entry, page |-> g.page]
      /\ g.free = m1.free /\ g.page = m1.page
      /\ g.entry = {e \in m1.entry : <<e[1], e[2]>> \notin cut}
    <2>1. g = [free |-> m1.free, entry |-> {e \in m1.entry : <<e[1], e[2]>> \notin cut}, page |-> m1.page]
        BY <1>4, <1>7
    <2> QED
        BY <2>1
<1>9. Downwards(X, u, D)
    <2>1. ASSUME NEW p \in Paths, p # PDP, Front(p) \in D PROVE FALSE
        <3>1. depth(Front(p)) < 3
            BY <2>1, Above
        <3>2. depth(Front(p)) = 3
            BY <2>1, <1>2
        <3> QED
            BY <3>1, <3>2
    <2> QED
        BY <2>1 DEF Downwards
<1>10. ASSUME NEW f \in Frame, NEW i \in Idx, NEW h \in Target, <<f, i, h>> \in m.entry
       PROVE  <<f, i, h>> \in g.entry <=> \A p \in Paths : <<u, p, f>> \in X => Append(p, i) \notin D
    <2>1. <<f, i, h>> \in g.entry <=> f \notin F /\ <<f, i>> \notin cut
        BY <1>7, <1>8, <1>10
    <2>2. ASSUME NEW p \in Paths, <<u, p, f>> \in X, Append(p, i) \in D
          PROVE  <<f, i>> \in cut
        <3>1. depth(p) < 3
            BY <2>2, <1>10, EntryOf
        <3>2. Front(Append(p, i)) = p /\ Last(Append(p, i)) = i
            BY <3>1, Below
        <3>3. PICK v \in V : Append(p, i) = Path(v)
            BY <2>2, <1>2
        <3>4. f \in at(T, Front(Path(v))) /\ i = Last(Path(v))
            BY <3>2, <3>3, <2>2, <1>3 DEF Target
        <3> QED
            BY <3>4, <1>5
    <2>3. ASSUME f \in F PROVE FALSE
        <3>1. PICK p \in D : p \in Paths /\ <<u, p, f>> \in X
            BY <2>3, <1>6 DEF Gone
        <3>2. depth(p) < 3
            BY <3>1, <1>10, EntryOf
        <3>3. depth(p) = 3
            BY <3>1, <1>2
        <3> QED
            BY <3>2, <3>3
    <2>4. ASSUME <<f, i>> \in cut
          PROVE  \E p \in Paths : <<u, p, f>> \in X /\ Append(p, i) \in D
        <3>1. PICK v \in V : f \in at(T, Front(Path(v))) /\ i = Last(Path(v))
            BY <2>4, <1>5
        <3>2. Front(Path(v)) \in Paths /\ <<u, Front(Path(v)), f>> \in X
            BY <3>1, <1>3
        <3>3. Append(Front(Path(v)), Last(Path(v))) = Path(v)
            BY <1>2, Above
        <3> QED
            BY <3>1, <3>2, <3>3, <1>2
    <2> QED
        BY <2>1, <2>2, <2>3, <2>4
<1>11. g.entry \subseteq m.entry
    BY <1>7, <1>8
<1>12. g.free = m.free \cup Gone(X, u, D) /\ g.page = {x \in m.page : x[1] \notin Gone(X, u, D)}
    BY <1>6, <1>7, <1>8
<1>13. Held(g, pruned(X, u, D))
    BY <1>8, <1>9, <1>10, <1>11, <1>12, Pruned
<1> QED
    BY <1>9, <1>12, <1>13 DEF g, D, Emptied

\* ~UserMemory of a memory that was cleared: nothing of it is left.
LEMMA Destroyed ==
    ASSUME NEW X, Planted(X), NEW m, Held(m, X), NEW u \in Proc, NEW r, <<u, PDP, r>> \in X,
           <<u, <<0, 0>>, FirstPT>> \in X,
           \A p \in Paths, f \in Target : <<u, p, f>> \in X => p \in Base
    PROVE  LET g == free(m, frames(tree(m, r), {PDP, PD0})) IN
           /\ Downwards(X, u, Paths) /\ Held(g, pruned(X, u, Paths))
           /\ Emptied(m, g, Gone(X, u, Paths))
<1> DEFINE T == tree(m, r)
           F == frames(T, {PDP, PD0})
           g == free(m, F)
<1>1. T = TreeOf(X, u)
    BY TreeIs
<1>2. \A P, f : f \in frames(T, P) <=> f \in Frame /\ \E p \in P : p \in Paths /\ <<u, p, f>> \in X
    <2> HIDE DEF T
    <2> QED
        BY <1>1, TreeParts
<1>3. F = Gone(X, u, Paths)
    <2> DEFINE P == {PDP, PD0}
    <2>0. F = frames(T, P)
        OBVIOUS
    <2> HIDE DEF F, T, P
    <2>1. \A f : f \in F <=> f \in Frame /\ \E p \in P : p \in Paths /\ <<u, p, f>> \in X
        BY <2>0, <1>2
    <2> USE DEF P
    <2>2. \A f : f \in Gone(X, u, Paths) <=> f \in Frame /\ \E p \in Paths : <<u, p, f>> \in X
        BY DEF Gone
    <2>3. ASSUME NEW f \in Frame, NEW p \in Paths, <<u, p, f>> \in X
          PROVE  p \in {PDP, PD0}
        <3>1. p \in Base /\ p # <<0, 0>>
            BY <2>3, NotFirst DEF Target
        <3> QED
            BY <3>1 DEF Base
    <2> QED
        BY <2>1, <2>2, <2>3
<1> HIDE DEF F, T
<1>4. /\ g = [free |-> g.free, entry |-> g.entry, page |-> g.page]
      /\ g.free = m.free \cup F
      /\ g.entry = {e \in m.entry : e[1] \notin F}
      /\ g.page = {x \in m.page : x[1] \notin F}
    BY FreeIs
<1> HIDE DEF g
<1>5. Downwards(X, u, Paths)
    BY DEF Downwards
<1>6. ASSUME NEW f \in Frame, NEW i \in Idx, NEW h \in Target, <<f, i, h>> \in m.entry
      PROVE  <<f, i, h>> \in g.entry <=> \A p \in Paths : <<u, p, f>> \in X => Append(p, i) \notin Paths
    <2>1. <<f, i, h>> \in g.entry <=> f \notin F
        BY <1>4, <1>6
    <2>2. f \in F <=> \E p \in Paths : <<u, p, f>> \in X
        BY <1>3 DEF Gone
    <2>3. ASSUME NEW p \in Paths, <<u, p, f>> \in X PROVE Append(p, i) \in Paths
        BY <2>3, <1>6, EntryOf, Below
    <2> QED
        BY <2>1, <2>2, <2>3
<1>7. g.entry \subseteq m.entry
    BY <1>4
<1>8. g.free = m.free \cup Gone(X, u, Paths) /\ g.page = {x \in m.page : x[1] \notin Gone(X, u, Paths)}
    BY <1>3, <1>4
<1>9. Held(g, pruned(X, u, Paths))
    BY <1>4, <1>5, <1>6, <1>7, <1>8, Pruned
<1> QED
    BY <1>5, <1>8, <1>9 DEF g, F, T, Emptied

-----------------------------------------------------------------------------
(* Making mappings *)

\* There are finitely many paths.
LEMMA PathsFinite == IsFiniteSet(Paths)
<1> DEFINE digit(r, k) == IF k <= Len(r) THEN r[k] + 1 ELSE 0
           B == Fan + 1
           W == 0..Fan
           S == (W \X W) \X W
           f == [p \in Paths |-> <<<<digit(p, 1), digit(p, 2)>>, digit(p, 3)>>]
<1>1. \A p \in Paths, k \in 1..3 : digit(p, k) \in W
    <2> TAKE p \in Paths, k \in 1..3
    <2>1. k <= Len(p) => p[k] \in Nat /\ p[k] < Fan
        BY PathTyped
    <2>2. \A n \in Nat : n < Fan => n + 1 \in W
        BY SizesTyped
    <2>3. 0 \in W
        BY SizesTyped
    <2> QED
        BY <2>1, <2>2, <2>3, Zenon
<1>2. \A p \in Paths : preorder(p) = (digit(p, 1) * B + digit(p, 2)) * B + digit(p, 3)
    BY DEF preorder
<1>3. IsFiniteSet(W)
    BY SizesTyped, FS_Interval
<1> HIDE DEF digit, B, W
<1>4. IsFiniteSet(S)
    BY <1>3, FS_Product
<1>5. f \in Injection(Paths, S)
    <2>1. f \in [Paths -> S]
        BY <1>1
    <2>2. ASSUME NEW p \in Paths, NEW q \in Paths, f[p] = f[q] PROVE p = q
        <3>1. digit(p, 1) = digit(q, 1) /\ digit(p, 2) = digit(q, 2) /\ digit(p, 3) = digit(q, 3)
            BY <2>2
        <3>2. preorder(p) = preorder(q)
            BY <3>1, <1>2
        <3> QED
            BY <3>2, PreorderUnique
    <2> HIDE DEF f, S
    <2> QED
        BY <2>1, <2>2 DEF Injection, IsInjective
<1> QED
    BY <1>4, <1>5, FS_Injection

\* Nodes that are told apart by their paths are finitely many.
LEMMA NodesFinite ==
    ASSUME NEW N, \A x \in N : x[1] \in Paths, \A x, y \in N : x[1] = y[1] => x = y
    PROVE  IsFiniteSet(N)
<1> DEFINE f == [x \in N |-> x[1]]
<1>1. f \in Injection(N, Paths)
    BY DEF Injection, IsInjective
<1> QED
    BY <1>1, PathsFinite, FS_Injection

\* The pages to map: of u, not mapped yet, beyond the identity map, each with one content.
Pages(X, u, V) ==
    /\ \A x \in V : /\ x = <<x[1], x[2]>> /\ x[1] \in Vpn /\ x[1] >= Fan /\ x[2] \in Content
                    /\ \A g \in Target : <<u, Path(x[1]), g>> \notin X
    /\ \A x, y \in V : x[1] = y[1] => x = y

\* createMapping plants the pages of V and the tables they need, and no node twice.
LEMMA MissingNodes ==
    ASSUME NEW X, Planted(X), NEW m, Held(m, X), NEW u \in Proc, NEW r \in Frame, <<u, PDP, r>> \in X,
           NEW V, Pages(X, u, V)
    PROVE  LET N == missing(m, r, V) IN
           /\ Nodes(X, u, N)
           /\ \A v \in Vpn : (\E x \in N : x[1] = Path(v)) <=> \E y \in V : y[1] = v
           /\ \A v \in Vpn : \A c : (\E x \in N : x[1] = Path(v) /\ c \in x[2]) <=> <<v, c>> \in V
           /\ createMapping(m, r, V) = graft(m, TreeOf(X, u), N)
<1> DEFINE T == tree(m, r)
           K == (UNION {Prefixes(Front(Path(x[1]))) : x \in V}) \ nodes(T)
           A == {<<p, {}>> : p \in K}
           P == {<<Path(x[1]), {x[2]}>> : x \in V}
           N == missing(m, r, V)
<1>1. T = TreeOf(X, u)
    BY TreeIs
<1>2. N = A \cup P
    BY DEF missing
<1>3. \A p : p \in nodes(T) <=> p \in Paths /\ \E f \in Frame : <<u, p, f>> \in X
    <2> HIDE DEF T
    <2> QED
        BY <1>1, TreeParts
<1>4. ASSUME NEW x \in V
      PROVE  /\ x = <<x[1], x[2]>> /\ x[1] \in Vpn /\ x[2] \in Content
             /\ Path(x[1]) \in Paths /\ depth(Path(x[1])) = 3 /\ Path(x[1]) # PDP
             /\ Front(Path(x[1])) \in Paths /\ depth(Front(Path(x[1]))) = 2 /\ Front(Path(x[1])) # <<0, 0>>
             /\ \A g \in Target : <<u, Path(x[1]), g>> \notin X
    <2>1. /\ x = <<x[1], x[2]>> /\ x[1] \in Vpn /\ x[2] \in Content /\ x[1] >= Fan
          /\ \A g \in Target : <<u, Path(x[1]), g>> \notin X
        BY DEF Pages
    <2>2. /\ Path(x[1]) \in Paths /\ depth(Path(x[1])) = 3 /\ Path(x[1]) # PDP
          /\ Front(Path(x[1])) # <<0, 0>>
        BY <2>1, PathOfPage DEF depth
    <2>3. Front(Path(x[1])) \in Paths /\ depth(Path(x[1])) = depth(Front(Path(x[1]))) + 1
        BY <2>2, Above
    <2>4. depth(Front(Path(x[1]))) = 2
        <3>1. depth(Front(Path(x[1]))) \in Nat
            BY <2>3, Depths
        <3> QED
            BY <2>2, <2>3, <3>1
    <2> QED
        BY <2>1, <2>2, <2>3, <2>4
<1> HIDE DEF T
<1>5. \A p : p \in K <=> p \notin nodes(T) /\ \E x \in V : p \in Prefixes(Front(Path(x[1])))
    <2> DEFINE U == UNION {Prefixes(Front(Path(x[1]))) : x \in V}
    <2>1. \A p : p \in U <=> \E x \in V : p \in Prefixes(Front(Path(x[1])))
        OBVIOUS
    <2>2. K = U \ nodes(T)
        OBVIOUS
    <2> HIDE DEF U, K
    <2> QED
        BY <2>1, <2>2
<1> HIDE DEF K
<1>6. ASSUME NEW p \in K
      PROVE  /\ p \in Paths /\ depth(p) # 3 /\ \A g \in Target : <<u, p, g>> \notin X
             /\ \/ p = PDP
                \/ \E g \in Frame : <<u, Front(p), g>> \in X
                \/ Front(p) \in K
    <2>1. PICK x \in V : p \in Prefixes(Front(Path(x[1])))
        BY <1>5
    <2>2. /\ p \in Paths /\ depth(p) <= 2
          /\ depth(p) = 2 => p = Front(Path(x[1]))
          /\ p # PDP => Front(p) \in Prefixes(Front(Path(x[1])))
        <3>1. Front(Path(x[1])) \in Paths /\ Len(Front(Path(x[1]))) = 2
            BY <1>4 DEF depth
        <3> QED
            BY <2>1, <3>1, PrefixesGoUp DEF depth
    <2>3. depth(p) # 3
        BY <2>2
    <2>4. ASSUME NEW g \in Target, <<u, p, g>> \in X PROVE FALSE
        <3>1. g \notin Frame
            BY <2>4, <2>2, <1>3, <1>5
        <3>2. g = FirstPT
            BY <3>1 DEF Target
        <3>3. p = <<0, 0>>
            BY <3>2, <2>2, <2>4 DEF Planted
        <3>4. depth(p) = 2
            BY <3>3, Depths
        <3> QED
            BY <3>3, <3>4, <2>2, <1>4
    <2>5. ASSUME p # PDP, Front(p) \notin K
          PROVE  \E g \in Frame : <<u, Front(p), g>> \in X
        BY <2>2, <2>5, <1>3, <1>5
    <2> QED
        BY <2>2, <2>3, <2>4, <2>5
<1>7. /\ \A x \in N : (\E p \in K : x = <<p, {}>>) \/ (\E y \in V : x = <<Path(y[1]), {y[2]}>>)
      /\ \A p \in K : <<p, {}>> \in N
      /\ \A y \in V : <<Path(y[1]), {y[2]}>> \in N
    BY <1>2
<1> HIDE DEF N, A, P
<1>8. ASSUME NEW x \in V
      PROVE  \/ \E g \in Frame : <<u, Front(Path(x[1])), g>> \in X
             \/ Front(Path(x[1])) \in K
    <2>1. Front(Path(x[1])) \in Prefixes(Front(Path(x[1])))
        BY <1>4, PrefixesOwn
    <2> QED
        BY <2>1, <1>3, <1>5
<1>9. ASSUME NEW x \in N
      PROVE  /\ x = <<x[1], x[2]>> /\ x[1] \in Paths /\ x[2] \subseteq Content
             /\ depth(x[1]) = 3 <=> x[2] # {}
             /\ \A g \in Target : <<u, x[1], g>> \notin X
             /\ \/ x[1] = PDP
                \/ \E g \in Frame : <<u, Front(x[1]), g>> \in X
                \/ \E y \in N : y[1] = Front(x[1])
    <2>1. \A p \in K : \E y \in N : y[1] = p
        <3> TAKE p \in K
        <3>1. <<p, {}>>[1] = p
            OBVIOUS
        <3> QED
            BY <3>1, <1>7
    <2>2. ASSUME NEW p \in K, x = <<p, {}>>
          PROVE  /\ x = <<x[1], x[2]>> /\ x[1] = p /\ x[2] = {} /\ x[2] \subseteq Content
                 /\ depth(x[1]) # 3
        <3>1. x[1] = p /\ x[2] = {} /\ x = <<x[1], x[2]>>
            BY <2>2
        <3> QED
            BY <3>1, <1>6
    <2>3. CASE \E p \in K : x = <<p, {}>>
        <3>1. PICK p \in K : x = <<p, {}>>
            BY <2>3
        <3>2. /\ x = <<x[1], x[2]>> /\ x[1] = p /\ x[2] = {} /\ x[2] \subseteq Content
              /\ depth(x[1]) # 3
            BY <3>1, <2>2
        <3>3. x[1] \in Paths /\ \A g \in Target : <<u, x[1], g>> \notin X
            BY <3>2, <1>6
        <3>4. \/ x[1] = PDP
              \/ \E g \in Frame : <<u, Front(x[1]), g>> \in X
              \/ \E y \in N : y[1] = Front(x[1])
            BY <3>2, <1>6, <2>1
        <3> QED
            BY <3>2, <3>3, <3>4
    <2>4. CASE \E y \in V : x = <<Path(y[1]), {y[2]}>>
        <3>1. PICK y \in V : x = <<Path(y[1]), {y[2]}>>
            BY <2>4
        <3>2. x[1] = Path(y[1]) /\ x[2] = {y[2]} /\ x = <<x[1], x[2]>>
            BY <3>1
        <3>3. x[2] \subseteq Content /\ x[2] # {}
            BY <3>2, <1>4
        <3>4. /\ x[1] \in Paths /\ depth(x[1]) = 3
              /\ \A g \in Target : <<u, x[1], g>> \notin X
            BY <3>2, <1>4
        <3>5. \/ \E g \in Frame : <<u, Front(x[1]), g>> \in X
              \/ \E z \in N : z[1] = Front(x[1])
            BY <3>2, <1>8, <2>1
        <3> QED
            BY <3>2, <3>3, <3>4, <3>5
    <2> QED
        BY <2>3, <2>4, <1>7
<1>10. ASSUME NEW x \in N, NEW y \in N, x[1] = y[1]
       PROVE  x = y
    <2>1. CASE x[2] = {} /\ y[2] = {}
        BY <2>1, <1>9, <1>10
    <2>2. CASE x[2] # {} \/ y[2] # {}
        <3>1. x[2] # {} /\ y[2] # {}
            BY <2>2, <1>9, <1>10
        <3>2. PICK a \in V : x = <<Path(a[1]), {a[2]}>>
            BY <3>1, <1>7
        <3>3. PICK b \in V : y = <<Path(b[1]), {b[2]}>>
            BY <3>1, <1>7
        <3>4. Path(a[1]) = Path(b[1])
            BY <3>2, <3>3, <1>10
        <3>5. a[1] = b[1]
            BY <3>4, <1>4, PathUnique
        <3> QED
            BY <3>2, <3>3, <3>5 DEF Pages
    <2> QED
        BY <2>1, <2>2
<1>11. Nodes(X, u, N)
    <2>1. IsFiniteSet(N)
        BY <1>9, <1>10, NodesFinite
    <2> QED
        BY <2>1, <1>9, <1>10 DEF Nodes
<1>12. ASSUME NEW v \in Vpn, NEW x \in N, x[1] = Path(v)
       PROVE  \E y \in V : y[1] = v /\ x[2] = {y[2]}
    <2>1. depth(x[1]) = 3
        BY <1>12, PathOfPage DEF depth
    <2>2. PICK y \in V : x = <<Path(y[1]), {y[2]}>>
        BY <2>1, <1>7, <1>9
    <2>3. Path(y[1]) = Path(v) /\ x[2] = {y[2]}
        BY <2>2, <1>12
    <2>4. y[1] = v
        BY <2>3, <1>4, PathUnique
    <2> QED
        BY <2>3, <2>4
<1>13. ASSUME NEW v \in Vpn
       PROVE  (\E x \in N : x[1] = Path(v)) <=> \E y \in V : y[1] = v
    <2>1. ASSUME NEW y \in V, y[1] = v PROVE \E x \in N : x[1] = Path(v)
        <3>1. <<Path(y[1]), {y[2]}>>[1] = Path(v)
            BY <2>1
        <3> QED
            BY <3>1, <1>7
    <2> QED
        BY <2>1, <1>12
<1>14. ASSUME NEW v \in Vpn, NEW c
       PROVE  (\E x \in N : x[1] = Path(v) /\ c \in x[2]) <=> <<v, c>> \in V
    <2>1. ASSUME <<v, c>> \in V PROVE \E x \in N : x[1] = Path(v) /\ c \in x[2]
        <3>1. <<Path(v), {c}>> \in N
            BY <2>1, <1>7
        <3> QED
            BY <3>1
    <2>2. ASSUME NEW x \in N, x[1] = Path(v), c \in x[2] PROVE <<v, c>> \in V
        <3>1. PICK y \in V : y[1] = v /\ x[2] = {y[2]}
            BY <2>2, <1>12
        <3>2. y = <<y[1], y[2]>> /\ c = y[2]
            BY <2>2, <3>1, <1>4
        <3> QED
            BY <3>1, <3>2
    <2> QED
        BY <2>1, <2>2
<1>15. createMapping(m, r, V) = graft(m, TreeOf(X, u), N)
    BY <1>1 DEF createMapping, N, T
<1> QED
    BY <1>11, <1>13, <1>14, <1>15 DEF N

\* copyPDs of the memory of u into the cleared memory of c.
LEMMA CopiedNodes ==
    ASSUME NEW X, Planted(X), NEW m, Held(m, X), NEW u \in Proc, NEW c \in Proc,
           NEW s \in Frame, <<u, PDP, s>> \in X, <<u, <<0, 0>>, FirstPT>> \in X,
           NEW r \in Frame, <<c, PDP, r>> \in X, NEW g0 \in Frame, <<c, PD0, g0>> \in X,
           \A p \in Paths, f \in Target : <<c, p, f>> \in X => p \in Base
    PROVE  LET N == copies(m, s) IN
           /\ Nodes(X, c, N)
           /\ \A v \in Vpn : (\E x \in N : x[1] = Path(v)) <=> v \in Has(X, u)
           /\ \A v \in UserPage, d \in Content :
                  (\E x \in N : x[1] = Path(v) /\ d \in x[2]) <=> <<v, d>> \in sees(X, m, u)
           /\ copyPDs(m, r, s) = graft(m, TreeOf(X, c), N)
<1> DEFINE S == tree(m, s)
           inside(p) == UNION {held(m, f) : f \in at(S, p)}
           K == nodes(S) \ {PDP, PD0}
           N == copies(m, s)
<1>1. S = TreeOf(X, u) /\ tree(m, r) = TreeOf(X, c)
    BY TreeIs
<1>2. N = {<<p, inside(p)>> : p \in K}
    BY DEF copies
<1>3. /\ \A p : p \in nodes(S) <=> p \in Paths /\ \E f \in Frame : <<u, p, f>> \in X
      /\ \A p, f : f \in at(S, p) <=> p \in Paths /\ f \in Target /\ <<u, p, f>> \in X
    <2> HIDE DEF S
    <2> QED
        BY <1>1, TreeParts
<1> HIDE DEF S
<1>4. ASSUME NEW p, NEW d
      PROVE  d \in inside(p) <=> \E f \in at(S, p) : <<f, d>> \in m.page
    <2>1. \A f : d \in held(m, f) <=> <<f, d>> \in m.page
        <3> TAKE f
        <3>1. d \in held(m, f) <=> \E x \in m.page : x[1] = f /\ x[2] = d
            BY DEF held
        <3>2. \A x \in m.page : x = <<x[1], x[2]>>
            BY DEF Held
        <3> QED
            BY <3>1, <3>2
    <2>2. d \in inside(p) <=> \E f \in at(S, p) : d \in held(m, f)
        OBVIOUS
    <2> QED
        BY <2>1, <2>2
<1>5. /\ \A x \in N : \E p \in K : x = <<p, inside(p)>>
      /\ \A p \in K : <<p, inside(p)>> \in N
    BY <1>2
<1> HIDE DEF N, inside
<1>6. ASSUME NEW p \in K
      PROVE  /\ p \in Paths /\ \A g \in Target : <<c, p, g>> \notin X
             /\ p # PDP /\ \/ \E g \in Frame : <<c, Front(p), g>> \in X
                           \/ Front(p) \in K
    <2>1. PICK f \in Frame : p \in Paths /\ <<u, p, f>> \in X /\ p # PDP /\ p # PD0
        BY <1>3
    <2>2. p \notin Base
        BY <2>1, NotFirst DEF Base
    <2>3. PICK h \in Frame : <<u, Front(p), h>> \in X
        BY <2>1 DEF Planted, Target
    <2>4. Front(p) \in Paths
        BY <2>1, Above
    <2>5. Front(p) \in nodes(S)
        BY <2>3, <2>4, <1>3
    <2>6. Front(p) \in {PDP, PD0} => \E g \in Frame : <<c, Front(p), g>> \in X
        OBVIOUS
    <2> QED
        BY <2>1, <2>2, <2>5, <2>6
<1>7. ASSUME NEW p \in K
      PROVE  inside(p) \subseteq Content /\ (depth(p) = 3 <=> inside(p) # {})
    <2>1. PICK f \in Frame : p \in Paths /\ <<u, p, f>> \in X
        BY <1>3
    <2>2. f \in at(S, p)
        BY <2>1, <1>3 DEF Target
    <2>3. inside(p) \subseteq Content
        <3>1. m.page \subseteq Frame \X Content
            BY DEF Held
        <3>2. ASSUME NEW d \in inside(p) PROVE d \in Content
            <4>1. PICK h \in at(S, p) : <<h, d>> \in m.page
                BY <1>4
            <4> QED
                BY <3>1, <4>1
        <3> QED
            BY <3>2
    <2>4. ASSUME depth(p) = 3 PROVE inside(p) # {}
        <3>1. PICK d \in Content : <<f, d>> \in m.page
            BY <2>1, <2>4 DEF Held
        <3>2. d \in inside(p)
            BY <3>1, <2>2, <1>4
        <3> QED
            BY <3>2
    <2>5. ASSUME NEW d \in inside(p) PROVE depth(p) = 3
        <3>1. PICK h \in at(S, p) : <<h, d>> \in m.page
            BY <1>4
        <3>2. h \in Frame /\ d \in Content /\ <<u, p, h>> \in X
            BY <3>1, <1>3 DEF Held
        <3>3. PICK w \in Proc, q \in Paths : depth(q) = 3 /\ <<w, q, h>> \in X
            BY <3>1, <3>2 DEF Held
        <3>4. q = p
            BY <3>2, <3>3, <2>1 DEF Planted
        <3> QED
            BY <3>3, <3>4
    <2> QED
        BY <2>3, <2>4, <2>5
<1> HIDE DEF K
<1>8. ASSUME NEW x \in N
      PROVE  /\ x = <<x[1], x[2]>> /\ x[1] \in Paths /\ x[2] \subseteq Content
             /\ depth(x[1]) = 3 <=> x[2] # {}
             /\ \A g \in Target : <<c, x[1], g>> \notin X
             /\ \/ x[1] = PDP
                \/ \E g \in Frame : <<c, Front(x[1]), g>> \in X
                \/ \E y \in N : y[1] = Front(x[1])
    <2>1. PICK p \in K : x = <<p, inside(p)>>
        BY <1>5
    <2>2. x[1] = p /\ x[2] = inside(p) /\ x = <<x[1], x[2]>>
        BY <2>1
    <2>3. \A q \in K : \E y \in N : y[1] = q
        <3> TAKE q \in K
        <3>1. <<q, inside(q)>>[1] = q
            OBVIOUS
        <3> QED
            BY <3>1, <1>5
    <2>4. x[2] \subseteq Content /\ (depth(x[1]) = 3 <=> x[2] # {})
        BY <2>2, <1>7
    <2>5. x[1] \in Paths /\ \A g \in Target : <<c, x[1], g>> \notin X
        BY <2>2, <1>6
    <2>6. \/ \E g \in Frame : <<c, Front(x[1]), g>> \in X
          \/ \E y \in N : y[1] = Front(x[1])
        BY <2>2, <2>3, <1>6
    <2> QED
        BY <2>2, <2>4, <2>5, <2>6
<1>9. \A x, y \in N : x[1] = y[1] => x = y
    <2>1. \A x \in N : x[1] \in K /\ x = <<x[1], inside(x[1])>>
        <3> TAKE x \in N
        <3>1. PICK p \in K : x = <<p, inside(p)>>
            BY <1>5
        <3>2. x[1] = p
            BY <3>1
        <3> QED
            BY <3>1, <3>2
    <2> QED
        BY <2>1
<1>10. Nodes(X, c, N)
    <2>1. IsFiniteSet(N)
        BY <1>8, <1>9, NodesFinite
    <2> QED
        BY <2>1, <1>8, <1>9 DEF Nodes
<1>11. ASSUME NEW v \in Vpn
       PROVE  /\ Path(v) \in K <=> v \in Has(X, u)
              /\ \A x \in N : x[1] = Path(v) => Path(v) \in K /\ x[2] = inside(Path(v))
    <2>1. Path(v) \in Paths /\ Path(v) # PDP /\ Path(v) # PD0
        BY PathOfPage, Depths DEF depth
    <2>2. Path(v) \in K <=> \E f \in Frame : <<u, Path(v), f>> \in X
        BY <2>1, <1>3 DEF K
    <2>3. ASSUME NEW x \in N, x[1] = Path(v) PROVE Path(v) \in K /\ x[2] = inside(Path(v))
        <3>1. PICK p \in K : x = <<p, inside(p)>>
            BY <1>5
        <3>2. x[1] = p /\ x[2] = inside(p)
            BY <3>1
        <3> QED
            BY <3>2, <2>3
    <2> QED
        BY <2>2, <2>3 DEF Has
<1>12. ASSUME NEW v \in Vpn
       PROVE  (\E x \in N : x[1] = Path(v)) <=> v \in Has(X, u)
    <2>1. ASSUME v \in Has(X, u) PROVE \E x \in N : x[1] = Path(v)
        <3>1. <<Path(v), inside(Path(v))>> \in N
            BY <2>1, <1>5, <1>11
        <3> QED
            BY <3>1
    <2> QED
        BY <2>1, <1>11
<1>13. ASSUME NEW v \in UserPage, NEW d \in Content
       PROVE  (\E x \in N : x[1] = Path(v) /\ d \in x[2]) <=> <<v, d>> \in sees(X, m, u)
    <2>0. v \in Vpn
        BY UserPages
    <2>1. ASSUME NEW x \in N, x[1] = Path(v), d \in x[2] PROVE <<v, d>> \in sees(X, m, u)
        <3>1. d \in inside(Path(v))
            BY <2>0, <2>1, <1>11
        <3>2. PICK f \in at(S, Path(v)) : <<f, d>> \in m.page
            BY <3>1, <1>4
        <3>3. f \in Frame /\ <<u, Path(v), f>> \in X
            BY <3>2, <1>3 DEF Held
        <3> QED
            BY <3>2, <3>3, Sees
    <2>2. ASSUME <<v, d>> \in sees(X, m, u) PROVE \E x \in N : x[1] = Path(v) /\ d \in x[2]
        <3>1. PICK f \in Frame : <<u, Path(v), f>> \in X /\ <<f, d>> \in m.page
            BY <2>2, Sees
        <3>2. Path(v) \in Paths /\ f \in at(S, Path(v))
            BY <2>0, <3>1, <1>3, PathOfPage DEF Target
        <3>3. d \in inside(Path(v))
            BY <3>1, <3>2, <1>4
        <3>4. v \in Has(X, u)
            BY <2>0, <3>1 DEF Has
        <3>5. <<Path(v), inside(Path(v))>> \in N
            BY <2>0, <3>4, <1>5, <1>11
        <3> QED
            BY <3>3, <3>5
    <2> QED
        BY <2>1, <2>2
<1>14. copyPDs(m, r, s) = graft(m, TreeOf(X, c), N)
    BY <1>1 DEF copyPDs, N
<1> QED
    BY <1>10, <1>12, <1>13, <1>14 DEF N

-----------------------------------------------------------------------------
(* Writing *)

\* A write in a page leaves the trees as they are.
LEMMA Rewritten ==
    ASSUME NEW X, NEW m, Held(m, X), NEW u \in Proc, NEW q \in Paths, depth(q) = 3,
           NEW f \in Frame, <<u, q, f>> \in X, NEW c \in Content
    PROVE  LET g == [m EXCEPT !.page = {x \in @ : x[1] # f} \cup {<<f, c>>}] IN
           /\ Held(g, X)
           /\ \A h, d : <<h, d>> \in g.page <=> (<<h, d>> \in m.page /\ h # f) \/ (h = f /\ d = c)
<1> DEFINE g == [m EXCEPT !.page = {x \in @ : x[1] # f} \cup {<<f, c>>}]
<1>2. /\ g = [free |-> g.free, entry |-> g.entry, page |-> g.page]
      /\ g.free = m.free /\ g.entry = m.entry
      /\ g.page = {x \in m.page : x[1] # f} \cup {<<f, c>>}
    <2>1. m = [free |-> m.free, entry |-> m.entry, page |-> m.page]
        BY DEF Held
    <2> DEFINE P == {x \in m.page : x[1] # f} \cup {<<f, c>>}
    <2>2. g = [m EXCEPT !.page = P]
        OBVIOUS
    <2> HIDE DEF g, P
    <2>3. g = [free |-> m.free, entry |-> m.entry, page |-> P]
        BY <2>1, <2>2
    <2>4. g.free = m.free /\ g.entry = m.entry /\ g.page = P /\ g = [free |-> g.free, entry |-> g.entry, page |-> g.page]
        BY <2>3
    <2> QED
        BY <2>4 DEF P
<1> HIDE DEF g
<1>3. \A h, d : <<h, d>> \in g.page <=> (<<h, d>> \in m.page /\ h # f) \/ (h = f /\ d = c)
    BY <1>2
<1>4. Held(g, X)
    <2>1. g.page \subseteq Frame \X Content
        BY <1>2 DEF Held
    <2>2. ASSUME NEW h \in Frame, NEW d \in Content, <<h, d>> \in g.page
          PROVE  \E w \in Proc, p \in Paths : depth(p) = 3 /\ <<w, p, h>> \in X
        <3>1. CASE h = f
            BY <3>1
        <3>2. CASE h # f
            BY <3>2, <2>2, <1>3 DEF Held
        <3> QED
            BY <3>1, <3>2
    <2>3. ASSUME NEW w \in Proc, NEW p \in Paths, NEW h \in Frame, depth(p) = 3, <<w, p, h>> \in X
          PROVE  \E d \in Content : <<h, d>> \in g.page
        <3>1. PICK d \in Content : <<h, d>> \in m.page
            BY <2>3 DEF Held
        <3> QED
            BY <3>1, <1>3
    <2>4. g.entry \subseteq Frame \X Idx \X Target
        BY <1>2 DEF Held
    <2>5. \A h \in Frame, i \in Idx, k \in Target :
              <<h, i, k>> \in g.entry <=>
                  \E w \in Proc, p \in Paths :
                      depth(p) < 3 /\ <<w, p, h>> \in X /\ <<w, Append(p, i), k>> \in X
        BY <1>2, Zenon DEF Held
    <2>6. g.free = {h \in Frame : \A w \in Proc, p \in Paths : <<w, p, h>> \notin X}
        BY <1>2 DEF Held
    <2> QED
        BY <1>2, <2>1, <2>2, <2>3, <2>4, <2>5, <2>6 DEF Held
<1> QED
    BY <1>3, <1>4 DEF g

\* A write changes what one process has in one page.
LEMMA Written ==
    ASSUME NEW X, Planted(X), NEW m, Held(m, X), NEW u \in Proc, NEW v \in UserPage,
           NEW f \in Frame, <<u, Path(v), f>> \in X, NEW c \in Content
    PROVE  LET g == [m EXCEPT !.page = {x \in @ : x[1] # f} \cup {<<f, c>>}] IN
           /\ Held(g, X)
           /\ \A w \in Proc : w # u => sees(X, g, w) = sees(X, m, w)
           /\ sees(X, g, u) = {x \in sees(X, m, u) : x[1] # v} \cup {<<v, c>>}
<1> DEFINE g == [m EXCEPT !.page = {x \in @ : x[1] # f} \cup {<<f, c>>}]
<1>1. v \in Vpn /\ Path(v) \in Paths /\ depth(Path(v)) = 3
    BY UserPages, PathOfPage DEF depth
<1>2. /\ Held(g, X)
      /\ \A h, d : <<h, d>> \in g.page <=> (<<h, d>> \in m.page /\ h # f) \/ (h = f /\ d = c)
    BY <1>1, Rewritten
<1> HIDE DEF g
<1>3. \A h, d : <<h, d>> \in g.page <=> (<<h, d>> \in m.page /\ h # f) \/ (h = f /\ d = c)
    BY <1>2
<1>4. Held(g, X)
    BY <1>2
<1>5. ASSUME NEW w \in Proc, NEW z \in UserPage, NEW h \in Frame, <<w, Path(z), h>> \in X
      PROVE  h = f <=> w = u /\ z = v
    <2>1. z \in Vpn /\ Path(z) \in Paths
        BY UserPages, PathOfPage
    <2>2. ASSUME h = f PROVE w = u /\ z = v
        <3>1. w = u /\ Path(z) = Path(v)
            BY <2>1, <2>2, <1>1, <1>5 DEF Planted
        <3> QED
            BY <3>1, <2>1, <1>1, PathUnique
    <2>3. ASSUME w = u, z = v PROVE h = f
        BY <2>3, <1>1, <1>5 DEF Planted, Target
    <2> QED
        BY <2>2, <2>3
<1>6. ASSUME NEW w \in Proc, w # u
      PROVE  sees(X, g, w) = sees(X, m, w)
    <2>1. \A z \in UserPage, d \in Content, h \in Frame : <<w, Path(z), h>> \in X =>
              (<<h, d>> \in g.page <=> <<h, d>> \in m.page)
        BY <1>3, <1>5, <1>6
    <2> QED
        BY <2>1, SameSees
<1>7. sees(X, g, u) = {x \in sees(X, m, u) : x[1] # v} \cup {<<v, c>>}
    <2>1. sees(X, g, u) \subseteq UserPage \X Content /\ sees(X, m, u) \subseteq UserPage \X Content
        BY Sees
    <2>2. ASSUME NEW z \in UserPage, NEW d \in Content, <<z, d>> \in sees(X, g, u)
          PROVE  (<<z, d>> \in sees(X, m, u) /\ z # v) \/ (z = v /\ d = c)
        <3>1. PICK h \in Frame : <<u, Path(z), h>> \in X /\ <<h, d>> \in g.page
            BY <2>2, Sees
        <3>2. h = f <=> z = v
            BY <3>1, <1>5
        <3>3. (<<h, d>> \in m.page /\ h # f) \/ (h = f /\ d = c)
            BY <3>1, <1>3
        <3> QED
            BY <3>1, <3>2, <3>3, Sees
    <2>3. ASSUME NEW z \in UserPage, NEW d \in Content, <<z, d>> \in sees(X, m, u), z # v
          PROVE  <<z, d>> \in sees(X, g, u)
        <3>1. PICK h \in Frame : <<u, Path(z), h>> \in X /\ <<h, d>> \in m.page
            BY <2>3, Sees
        <3>2. <<h, d>> \in g.page
            BY <3>1, <2>3, <1>3, <1>5
        <3> QED
            BY <3>1, <3>2, Sees
    <2>4. <<v, c>> \in sees(X, g, u)
        <3>1. <<f, c>> \in g.page
            BY <1>3
        <3> QED
            BY <3>1, Sees
    <2> DEFINE R == {x \in sees(X, m, u) : x[1] # v} \cup {<<v, c>>}
    <2>5. ASSUME NEW x \in sees(X, g, u) PROVE x \in R
        <3>1. x = <<x[1], x[2]>> /\ x[1] \in UserPage /\ x[2] \in Content
            BY <2>1
        <3> QED
            BY <3>1, <2>2
    <2>6. ASSUME NEW x \in R PROVE x \in sees(X, g, u)
        <3>1. CASE x = <<v, c>>
            BY <3>1, <2>4
        <3>2. CASE x \in sees(X, m, u) /\ x[1] # v
            <4>1. x = <<x[1], x[2]>> /\ x[1] \in UserPage /\ x[2] \in Content
                BY <2>1, <3>2
            <4> QED
                BY <4>1, <3>2, <2>3
        <3> QED
            BY <3>1, <3>2
    <2> QED
        BY <2>5, <2>6
<1> QED
    BY <1>4, <1>6, <1>7 DEF g

-----------------------------------------------------------------------------
(* The active memory *)

Registers(a) == a = [PML4 |-> a.PML4, TLB |-> a.TLB]

ActiveInv ==
    /\ pdp = [w \in Proc |-> pdp[w]]
    /\ phase = [w \in Proc |-> phase[w]]
    /\ Registers(mmu)
    /\ ActiveAlive

-----------------------------------------------------------------------------
(* The MMU *)

\* What switchUser leaves in PML4 is the PDP it is given.
LEMMA Switched ==
    ASSUME NEW a, NEW r, Registers(a)
    PROVE  Registers(switchUser(a, r)) /\ switchUser(a, r).PML4 = r
BY DEF Registers, switchUser

\* After leave the PDP is not active, and the active one changed only if it was this.
LEMMA Left ==
    ASSUME NEW a, NEW r, Registers(a)
    PROVE  /\ Registers(leave(a, r))
           /\ leave(a, r).PML4 = IF a.PML4 = r THEN DefaultPDP ELSE a.PML4
BY Switched DEF leave

\* An invalidation changes the TLB only.
LEMMA Invalidated ==
    ASSUME NEW a, NEW V, Registers(a)
    PROVE  Registers(invlpg(a, V)) /\ invlpg(a, V).PML4 = a.PML4
BY DEF Registers, invlpg

-----------------------------------------------------------------------------
(* The steps *)

\* A process that activates its own memory.
LEMMA Activated ==
    ASSUME NEW w \in Proc, phase'[w] = "alive", mmu'.PML4 = pdp'[w]
    PROVE  ActiveAlive'
BY DEF ActiveAlive

\* Nothing that ActiveAlive is about changes.
LEMMA Untouched ==
    ASSUME ActiveInv, UNCHANGED <<pdp, phase>>, Registers(mmu'), mmu'.PML4 = mmu.PML4
    PROVE  ActiveInv'
BY DEF ActiveInv, ActiveAlive

\* The end of u: its memory is not active afterwards, so the active one, if not the
\* default, is that of another, and alive.
LEMMA Ended ==
    ASSUME ActiveInv, NEW u \in Proc, mmu' = leave(mmu, pdp[u]), phase'[u] # "alive",
           \A w \in Proc : w # u => phase'[w] = phase[w] /\ pdp'[w] = pdp[w]
    PROVE  ActiveAlive' /\ Registers(mmu)'
BY Left DEF ActiveInv, ActiveAlive

\* A new process does not disturb the active one.
LEMMA Forked ==
    ASSUME ActiveInv, NEW u \in Proc, NEW c \in Proc, fork(u, c)
    PROVE  ActiveInv'
<1>1. \A w \in Proc : w # c => phase'[w] = phase[w] /\ pdp'[w] = pdp[w]
    BY DEF ActiveInv, fork
<1>2. phase[c] # "alive" /\ mmu' = mmu
    BY DEF fork
<1>3. ActiveAlive'
    BY <1>1, <1>2 DEF ActiveInv, ActiveAlive
<1>4. pdp' = [w \in Proc |-> pdp'[w]] /\ phase' = [w \in Proc |-> phase'[w]]
    BY DEF ActiveInv, fork
<1> QED
    BY <1>2, <1>3, <1>4 DEF ActiveInv

\* Every step keeps the registers and the active memory right.
LEMMA ActiveStep ==
    ASSUME ActiveInv, [Next]_vars
    PROVE  ActiveInv'
<1>1. CASE start
    <2>1. InitProc \in Proc
        BY BoundsAssumption
    <2>2. pdp' = [w \in Proc |-> pdp'[w]] /\ phase' = [w \in Proc |-> phase'[w]]
        BY <1>1 DEF ActiveInv, start
    <2>3. Registers(mmu') /\ mmu'.PML4 = pdp'[InitProc] /\ phase'[InitProc] = "alive"
        BY <1>1, <2>1, Switched DEF ActiveInv, start
    <2> QED
        BY <2>1, <2>2, <2>3, Activated DEF ActiveInv
<1>2. ASSUME NEW u \in Proc, NEW c \in Proc, fork(u, c)
      PROVE  ActiveInv'
    BY <1>2, Forked
<1>3. ASSUME NEW u \in Proc, exec(u)
      PROVE  ActiveInv'
    <2>1. Registers(leave(mmu, pdp[u]))
        BY Left DEF ActiveInv
    <2>2. Registers(mmu') /\ mmu'.PML4 = pdp[u]
        BY <1>3, <2>1, Switched DEF exec
    <2>3. phase[u] = "alive" /\ UNCHANGED <<pdp, phase>>
        BY <1>3 DEF exec, Current
    <2> QED
        BY <2>2, <2>3, Activated DEF ActiveInv
<1>4. ASSUME NEW u \in Proc, terminate(u)
      PROVE  ActiveInv'
    <2>1. /\ phase' = [w \in Proc |-> phase'[w]] /\ UNCHANGED pdp
          /\ phase'[u] # "alive" /\ mmu' = leave(mmu, pdp[u])
          /\ \A w \in Proc : w # u => phase'[w] = phase[w]
        BY <1>4 DEF ActiveInv, terminate
    <2> QED
        BY <2>1, Ended DEF ActiveInv
<1>5. ASSUME NEW u \in Proc, destroy(u)
      PROVE  ActiveInv'
    <2>1. /\ phase' = [w \in Proc |-> phase'[w]] /\ pdp' = [w \in Proc |-> pdp'[w]]
          /\ phase'[u] # "alive" /\ mmu' = leave(mmu, pdp[u])
          /\ \A w \in Proc : w # u => phase'[w] = phase[w] /\ pdp'[w] = pdp[w]
        BY <1>5 DEF ActiveInv, destroy
    <2> QED
        BY <2>1, Ended DEF ActiveInv
<1>6. ASSUME NEW u \in Proc, prepare(u)
      PROVE  ActiveInv'
    <2>1. Registers(mmu') /\ mmu'.PML4 = pdp[u]
        BY <1>6, Switched DEF ActiveInv, prepare
    <2>2. phase[u] = "alive" /\ UNCHANGED <<pdp, phase>>
        BY <1>6 DEF prepare
    <2> QED
        BY <2>1, <2>2, Activated DEF ActiveInv
<1>7. ASSUME NEW u \in Proc, NEW d \in Dists, brkGrow(u, d)
      PROVE  ActiveInv'
    <2>1. PICK V : mmu' = invlpg(mmu, V)
        BY <1>7 DEF brkGrow
    <2>2. UNCHANGED <<pdp, phase>>
        BY <1>7 DEF brkGrow
    <2> QED
        BY <2>1, <2>2, Invalidated, Untouched DEF ActiveInv
<1>8. ASSUME NEW u \in Proc, NEW d \in Dists, brkShrink(u, d) \/ brkSame(u, d)
      PROVE  ActiveInv'
    BY <1>8 DEF brkShrink, brkSame, ActiveInv, ActiveAlive
<1>9. ASSUME NEW u \in Proc, NEW v \in Stored, NEW c \in Data, store(u, v, c)
      PROVE  ActiveInv'
    <2>1. PICK f : mmu' = [mmu EXCEPT !.TLB[v] = f]
        BY <1>9 DEF store
    <2>2. UNCHANGED <<pdp, phase>>
        BY <1>9 DEF store
    <2>3. Registers(mmu') /\ mmu'.PML4 = mmu.PML4
        BY <2>1 DEF ActiveInv, Registers
    <2> QED
        BY <2>2, <2>3, Untouched
<1>10. CASE UNCHANGED vars
    BY <1>10 DEF vars, ActiveInv, ActiveAlive
<1> QED
    BY <1>1, <1>2, <1>3, <1>4, <1>5, <1>6, <1>7, <1>8, <1>9, <1>10 DEF Next

-----------------------------------------------------------------------------
(* The heap *)

\* The pages of a heap follow each other from HeapPage on.
LEMMA HeapFrom ==
    ASSUME NEW n \in Nat, NEW k \in Nat
    PROVE  /\ HeapPages(0, n) = {HeapPage + i : i \in 0..n - 1}
           /\ \A v : v \in HeapPages(0, n) <=> v \in Nat /\ HeapPage <= v /\ v < HeapPage + n
           /\ \A v : v \in HeapPages(PageSize * n, k) <=> v \in Nat /\ HeapPage + n <= v /\ v < HeapPage + n + k
<1>1. 0 \div PageSize = 0 /\ (PageSize * n) \div PageSize = n
    BY DEF PageSize
<1>2. HeapPage \in Nat
    BY LayoutAssumption DEF Vpn
<1>3. HeapPages(0, n) = {HeapPage + i : i \in 0..n - 1}
    <2>1. HeapPage + 0 = HeapPage
        BY <1>2
    <2> QED
        BY <1>1, <2>1 DEF HeapPages
<1>4. HeapPages(PageSize * n, k) = {HeapPage + n + i : i \in 0..k - 1}
    BY <1>1 DEF HeapPages
<1>5. ASSUME NEW a \in Nat, NEW l \in Nat, NEW v
      PROVE  v \in {a + i : i \in 0..l - 1} <=> v \in Nat /\ a <= v /\ v < a + l
    <2>1. ASSUME v \in Nat, a <= v, v < a + l PROVE v \in {a + i : i \in 0..l - 1}
        <3>1. v - a \in 0..l - 1 /\ v = a + (v - a)
            BY <2>1
        <3> QED
            BY <3>1
    <2> QED
        BY <2>1
<1>6. \A v : v \in HeapPages(0, n) <=> v \in Nat /\ HeapPage <= v /\ v < HeapPage + n
    BY <1>2, <1>3, <1>5
<1>7. \A v : v \in HeapPages(PageSize * n, k) <=> v \in Nat /\ HeapPage + n <= v /\ v < HeapPage + n + k
    <2>1. HeapPage + n \in Nat
        BY <1>2
    <2> QED
        BY <1>4, <1>5, <2>1
<1> QED
    BY <1>3, <1>6, <1>7

\* The heap of b bytes is made of whole pages, below the stack, and is what the break
\* d needs or one page more.
BreakIs(b, d) ==
    \E n \in Nat : /\ b = PageSize * n /\ HeapPages(0, n) \subseteq Vpn \ StackPages
                   /\ d \in Nat /\ d <= b /\ b <= d + PageSize

\* A heap is made of whole pages that are below the stack, and reaches its break.
LEMMA BreakPages ==
    ASSUME NEW b, NEW d, BreakIs(b, d)
    PROVE  /\ b \in Nat /\ d \in Nat /\ b \div PageSize \in Nat /\ b = PageSize * (b \div PageSize)
           /\ b \div PageSize \in Vpn
           /\ HeapPages(0, b \div PageSize) \subseteq Vpn \ StackPages
           /\ d <= b /\ b <= d + PageSize
<1>1. PICK n \in Nat : /\ b = PageSize * n /\ HeapPages(0, n) \subseteq Vpn \ StackPages
                       /\ d \in Nat /\ d <= b /\ b <= d + PageSize
    BY DEF BreakIs
<1>2. b \div PageSize = n /\ b \in Nat
    BY <1>1 DEF PageSize
<1>3. n \in Vpn
    <2>1. HeapPage \in Nat /\ 1 <= HeapPage /\ HeapPage \in Vpn
        BY LayoutAssumption DEF Vpn
    <2>v. \A j \in Vpn, i \in Nat : i <= j => i \in Vpn
        <3>1. \A a \in Int : \A j \in 0..a, i \in Nat : i <= j => i \in 0..a
            OBVIOUS
        <3>2. \A a \in Nat : a * a * a - 1 \in Int
            OBVIOUS
        <3>3. Fan * Fan * Fan - 1 \in Int
            BY <3>2, SizesTyped, Zenon
        <3> QED
            BY <3>1, <3>3, Zenon DEF Vpn
    <2>2. CASE n = 0
        BY <2>1, <2>2, <2>v
    <2>3. CASE n # 0
        <3>1. HeapPage + n - 1 \in HeapPages(0, n)
            BY <2>1, <2>3, HeapFrom
        <3>2. HeapPage + n - 1 \in Vpn
            BY <3>1, <1>1
        <3> QED
            BY <2>1, <3>2, <2>v
    <2> QED
        BY <2>2, <2>3
<1> QED
    BY <1>1, <1>2, <1>3

\* The heap of a program that was just loaded.
LEMMA NoBreak == BreakIs(0, 0)
<1>1. HeapPages(0, 0) = {}
    BY HeapFrom, LayoutAssumption DEF Vpn
<1> QED
    BY <1>1 DEF BreakIs, PageSize

\* brk beyond the heap adds the pages up to the new break, which the heap had not.
LEMMA BreakGrows ==
    ASSUME NEW b, NEW e, BreakIs(b, e), NEW d \in Dists, d > b
    PROVE  LET k == nbNewPages(b, d)
               n == b \div PageSize
           IN  /\ BreakIs(grown(b, d), d)
               /\ HeapPages(0, grown(b, d) \div PageSize) = HeapPages(0, n) \cup HeapPages(b, k)
               /\ HeapPages(0, n) \cap HeapPages(b, k) = {}
               /\ HeapPages(b, k) \subseteq Vpn
<1> DEFINE n == b \div PageSize
           k == nbNewPages(b, d)
<1>1. b \in Nat /\ n \in Nat /\ b = PageSize * n /\ d \in Nat
    BY BreakPages, BoundsAssumption
<1>2. k \in Nat /\ nbNewPages(0, d) = n + k /\ grown(b, d) = PageSize * (n + k)
    <2>1. k = (d - b + 4095) \div 4096 /\ nbNewPages(0, d) = (d + 4095) \div 4096
        BY <1>1 DEF nbNewPages, PageSize
    <2>2. b = 4096 * n
        BY <1>1 DEF PageSize
    <2> HIDE DEF n, k
    <2>3. k \in Nat /\ (d + 4095) \div 4096 = n + k
        BY <1>1, <2>1, <2>2
    <2>4. grown(b, d) = b + k * 4096
        BY DEF grown, k, PageSize
    <2> QED
        BY <1>1, <2>1, <2>2, <2>3, <2>4 DEF PageSize
<1>3. d <= grown(b, d) /\ grown(b, d) <= d + PageSize
    <2>1. k = (d - b + 4095) \div 4096
        BY <1>1 DEF nbNewPages, PageSize
    <2>2. grown(b, d) = b + k * 4096
        BY DEF grown, PageSize
    <2> HIDE DEF k
    <2>3. k \in Int /\ k * 4096 <= d - b + 4095 /\ d - b + 4095 < k * 4096 + 4096
        BY <1>1, <2>1
    <2> QED
        BY <1>1, <2>2, <2>3 DEF PageSize
<1>4. HeapPages(0, n + k) \subseteq Vpn \ StackPages
    BY <1>2, HeapAssumption
<1>5. grown(b, d) \div PageSize = n + k
    BY <1>1, <1>2 DEF PageSize
<1> HIDE DEF k, n
<1>6. n + k \in Nat
    BY <1>1, <1>2
<1>7. HeapPage \in Nat
    BY LayoutAssumption DEF Vpn
<1>8. /\ \A v : v \in HeapPages(0, n + k) <=> v \in Nat /\ HeapPage <= v /\ v < HeapPage + (n + k)
      /\ \A v : v \in HeapPages(0, n) <=> v \in Nat /\ HeapPage <= v /\ v < HeapPage + n
      /\ \A v : v \in HeapPages(b, k) <=> v \in Nat /\ HeapPage + n <= v /\ v < HeapPage + n + k
    BY <1>1, <1>2, <1>6, HeapFrom
<1>9. \A v : v \in HeapPages(0, n + k) <=> v \in HeapPages(0, n) \/ v \in HeapPages(b, k)
    BY <1>1, <1>2, <1>7, <1>8
<1>10. \A v : ~(v \in HeapPages(0, n) /\ v \in HeapPages(b, k))
    BY <1>1, <1>7, <1>8
<1>11. BreakIs(grown(b, d), d)
    BY <1>1, <1>2, <1>3, <1>4, <1>6 DEF BreakIs
<1> QED
    BY <1>4, <1>5, <1>9, <1>10, <1>11 DEF n, k

\* brk below the heap removes whole pages, and keeps the one the break is in.
LEMMA BreakShrinks ==
    ASSUME NEW b, NEW e, BreakIs(b, e), NEW d \in Dists, d + PageSize < b
    PROVE  LET k == nbPages(b, d)
               n == b \div PageSize
               c == b - k * PageSize
           IN  /\ BreakIs(c, d)
               /\ HeapPages(0, n) = HeapPages(0, c \div PageSize) \cup HeapPages(c, k)
               /\ HeapPages(0, c \div PageSize) \cap HeapPages(c, k) = {}
               /\ HeapPages(c, k) \subseteq Vpn \ StackPages
<1> DEFINE n == b \div PageSize
           k == nbPages(b, d)
           c == b - k * PageSize
<1>1. /\ b \in Nat /\ n \in Nat /\ b = PageSize * n /\ d \in Nat
      /\ HeapPages(0, n) \subseteq Vpn \ StackPages
    BY BreakPages, BoundsAssumption
<1>2. k \in Nat /\ k <= n /\ c = PageSize * (n - k) /\ d <= c /\ c <= d + PageSize
    <2>1. k = (b - d) \div 4096 /\ b = 4096 * n /\ c = b - k * 4096 /\ d + 4096 < b
        BY <1>1 DEF nbPages, PageSize
    <2> HIDE DEF n, k, c
    <2>2. k \in Nat /\ k * 4096 <= b - d /\ b - d < k * 4096 + 4096
        BY <1>1, <2>1
    <2>3. k <= n
        BY <1>1, <2>1, <2>2
    <2> QED
        BY <1>1, <2>1, <2>2, <2>3 DEF PageSize
<1> HIDE DEF n, k, c
<1>3. n - k \in Nat /\ c \div PageSize = n - k
    BY <1>1, <1>2 DEF PageSize
<1>4. HeapPage \in Nat
    BY LayoutAssumption DEF Vpn
<1>5. /\ \A v : v \in HeapPages(0, n) <=> v \in Nat /\ HeapPage <= v /\ v < HeapPage + n
      /\ \A v : v \in HeapPages(0, n - k) <=> v \in Nat /\ HeapPage <= v /\ v < HeapPage + (n - k)
      /\ \A v : v \in HeapPages(c, k) <=> v \in Nat /\ HeapPage + (n - k) <= v /\ v < HeapPage + (n - k) + k
    BY <1>1, <1>2, <1>3, HeapFrom
<1>6. \A v : v \in HeapPages(0, n) <=> v \in HeapPages(0, n - k) \/ v \in HeapPages(c, k)
    BY <1>1, <1>2, <1>3, <1>4, <1>5
<1>7. \A v : ~(v \in HeapPages(0, n - k) /\ v \in HeapPages(c, k))
    BY <1>1, <1>2, <1>3, <1>4, <1>5
<1>8. HeapPages(0, n - k) \subseteq Vpn \ StackPages /\ HeapPages(c, k) \subseteq Vpn \ StackPages
    BY <1>1, <1>6
<1>9. BreakIs(c, d)
    BY <1>1, <1>2, <1>3, <1>8 DEF BreakIs
<1> QED
    BY <1>3, <1>6, <1>7, <1>8, <1>9 DEF n, k, c

-----------------------------------------------------------------------------
(* The processes *)

\* The pages of a program with n pages of heap.
Program(n) == {ProgramPage} \cup StackPages \cup HeapPages(0, n)

\* r is the PDP of u, which has the first PD.
Rooted(X, u, r) ==
    /\ r \in Frame /\ <<u, PDP, r>> \in X
    /\ \E g \in Frame : <<u, PD0, g>> \in X
    /\ <<u, <<0, 0>>, FirstPT>> \in X

Bare(X, u) == \A p \in Paths, f \in Target : <<u, p, f>> \in X => p \in Base

\* Process u in phase ph, with PDP r, a heap of b bytes and the break d.
ProcessIs(X, u, ph, r, b, d) ==
    /\ ph \in {"none", "alive", "zombie"}
    /\ BreakIs(b, d)
    /\ ph = "none" => r = None /\ b = 0 /\ d = 0 /\ \A p \in Paths, f \in Target : <<u, p, f>> \notin X
    /\ ph # "none" => Rooted(X, u, r)
    /\ ph = "zombie" => Bare(X, u)
    /\ ph = "alive" => Has(X, u) = Program(b \div PageSize)

\* What the TLB has of a page of the active memory is what its tables say.
Cached(X, a, r, ph) ==
    \A u \in Proc, v \in Vpn :
        ph[u] = "alive" /\ r[u] = a.PML4 /\ v \in Has(X, u) /\ a.TLB[v] # None
            => <<u, Path(v), a.TLB[v]>> \in X

Typed ==
    /\ mmu.TLB \in [Vpn -> Frame \cup {None}]
    /\ pdp = [u \in Proc |-> pdp[u]] /\ phase = [u \in Proc |-> phase[u]]
    /\ Brk = [u \in Proc |-> Brk[u]] /\ dist = [u \in Proc |-> dist[u]]
    /\ allocs \in 0..MaxAllocs

\* X says which node each frame is, in the present state.
Consistent(X) ==
    /\ Planted(X) /\ Held(mem, X)
    /\ Typed /\ Cached(X, mmu, pdp, phase)
    /\ \A u \in Proc : ProcessIs(X, u, phase[u], pdp[u], Brk[u], dist[u])

MemoryInv == ActiveInv /\ wild \in BOOLEAN /\ \E X : Consistent(X)

\* What the processes see.
view(X, m, ph) == [w \in Proc |-> IF ph[w] = "alive" THEN sees(X, m, w) ELSE {}]

\* The process that runs grows, shrinks, loads or writes, or a new one gets a memory.
Changes(W, Z) ==
    \E u \in Proc :
        /\ \A w \in Proc : w # u => Z[w] = W[w]
        /\ \/ Z[u] = W[u]
           \/ W[u] = {} /\ \E w \in Active : Z[u] = W[w]
           \/ W[u] = {} /\ \A x \in Z[u] : x[2] \in {Image, Junk}
           \/ u \in Active /\ W[u] \subseteq Z[u]
                /\ \A x \in Z[u] \ W[u] : x[2] = Junk /\ \A y \in W[u] : y[1] # x[1]
           \/ u \in Active /\ Z[u] \subseteq W[u]
           \/ u \in Active /\ \A x \in Z[u] : x[2] \in {Image, Junk}
           \/ u \in Active /\ \E v \in UserPage, c \in Content :
                  /\ \E y \in W[u] : y[1] = v
                  /\ Z[u] = {x \in W[u] : x[1] # v} \cup {<<v, c>>}

\* The segment, the stack and the heap of a program do not overlap.
LEMMA ProgramPages ==
    ASSUME NEW n \in Nat, HeapPages(0, n) \subseteq Vpn \ StackPages
    PROVE  Program(n) \subseteq UserPage /\ ProgramPage \notin StackPages \cup HeapPages(0, n)
<1>1. /\ ProgramPage \in Vpn /\ ProgramPage \in Nat /\ HeapPage \in Nat /\ ProgramPage < HeapPage
      /\ StackPages \subseteq Vpn /\ Vpn \subseteq Nat
      /\ \A v \in StackPages : v \in Nat /\ ProgramPage < v
    BY LayoutAssumption DEF Vpn
<1>2. \A v \in HeapPages(0, n) : v \in Vpn /\ v \in Nat /\ ProgramPage < v
    BY <1>1, HeapFrom
<1>3. ASSUME NEW v \in Program(n) PROVE v \in UserPage
    <2>1. v \in Vpn /\ v >= ProgramPage
        <3>1. CASE v = ProgramPage
            BY <3>1, <1>1
        <3>2. CASE v \in StackPages
            BY <3>2, <1>1
        <3>3. CASE v \in HeapPages(0, n)
            BY <3>3, <1>1, <1>2
        <3> QED
            BY <3>1, <3>2, <3>3 DEF Program
    <2> QED
        BY <2>1 DEF UserPage
<1>4. ProgramPage \notin StackPages \cup HeapPages(0, n)
    BY <1>1, <1>2
<1> QED
    BY <1>3, <1>4

\* A process is as it was if its nodes are.
LEMMA Undisturbed ==
    ASSUME NEW X, NEW Y, NEW w, \A p, f : <<w, p, f>> \in Y <=> <<w, p, f>> \in X,
           NEW ph, NEW r, NEW b, NEW d, ProcessIs(X, w, ph, r, b, d)
    PROVE  ProcessIs(Y, w, ph, r, b, d)
<1>1. Has(Y, w) = Has(X, w)
    BY DEF Has
<1> QED
    BY <1>1 DEF ProcessIs, Rooted, Bare

\* The PDPs of two processes are different.
LEMMA RootsDiffer ==
    ASSUME NEW X, Planted(X), NEW u \in Proc, NEW w \in Proc, NEW r,
           Rooted(X, u, r), Rooted(X, w, r)
    PROVE  u = w
BY Depths DEF Rooted, Planted

\* A TLB that was flushed says nothing.
LEMMA Flushed ==
    ASSUME NEW X, NEW r, NEW ph, NEW a, a.TLB = NoTLB
    PROVE  a.TLB \in [Vpn -> Frame \cup {None}] /\ Cached(X, a, r, ph)
BY DEF NoTLB, Cached

\* switchUser and leave keep the TLB or flush it.
LEMMA SwitchedTLB ==
    ASSUME NEW a, NEW r
    PROVE  /\ switchUser(a, r) = a \/ switchUser(a, r).TLB = NoTLB
           /\ leave(a, r) = a \/ leave(a, r).TLB = NoTLB
           /\ r # a.PML4 => switchUser(a, r).TLB = NoTLB
BY DEF switchUser, leave

\* Only u changes.
LEMMA OneChanges ==
    ASSUME NEW X, Consistent(X), NEW Y, Planted(Y), Held(mem', Y), NEW u \in Proc,
           \A w \in Proc : \A p, f : w # u => (<<w, p, f>> \in Y <=> <<w, p, f>> \in X),
           Typed', Cached(Y, mmu', pdp', phase'),
           \A w \in Proc : w # u => /\ phase'[w] = phase[w] /\ pdp'[w] = pdp[w]
                                    /\ Brk'[w] = Brk[w] /\ dist'[w] = dist[w],
           ProcessIs(Y, u, phase'[u], pdp'[u], Brk'[u], dist'[u])
    PROVE  Consistent(Y)'
<1>1. ASSUME NEW w \in Proc
      PROVE  ProcessIs(Y, w, phase'[w], pdp'[w], Brk'[w], dist'[w])
    <2>1. CASE w = u
        BY <2>1
    <2>2. CASE w # u
        <3>1. ProcessIs(X, w, phase[w], pdp[w], Brk[w], dist[w])
            BY DEF Consistent
        <3>2. ProcessIs(Y, w, phase[w], pdp[w], Brk[w], dist[w])
            BY <2>2, <3>1, Undisturbed
        <3> QED
            BY <2>2, <3>2
    <2> QED
        BY <2>1, <2>2
<1> QED
    BY <1>1 DEF Consistent

-----------------------------------------------------------------------------
(* What the operations do to a process *)

\* A memory that was cleared or constructed has no page.
LEMMA BareHas ==
    ASSUME NEW X, NEW u, Bare(X, u)
    PROVE  /\ Has(X, u) = {}
           /\ \A m : sees(X, m, u) = {}
           /\ \A v \in Vpn, g \in Target : <<u, Path(v), g>> \notin X
<1>1. ASSUME NEW v \in Vpn, NEW g \in Target, <<u, Path(v), g>> \in X PROVE FALSE
    <2>1. Path(v) \in Paths /\ depth(Path(v)) = 3
        BY PathOfPage DEF depth
    <2>2. depth(Path(v)) < 3
        BY <1>1, <2>1, BaseAbove DEF Bare
    <2> QED
        BY <2>1, <2>2
<1>2. Frame \subseteq Target
    BY DEF Target
<1> QED
    BY <1>1, <1>2, UserPages DEF Has, sees

\* loadFromBytes in a memory that was cleared or constructed.
LEMMA LoadedInto ==
    ASSUME NEW X, Planted(X), NEW m, Held(m, X), NEW u \in Proc, NEW r, Rooted(X, u, r), Bare(X, u),
           Room(m, missing(m, r, Loaded))
    PROVE  \E Y : /\ Planted(Y) /\ Held(loadFromBytes(m, r), Y)
                  /\ Rooted(Y, u, r) /\ Has(Y, u) = Program(0)
                  /\ \A w \in Proc : \A p, f : w # u => (<<w, p, f>> \in Y <=> <<w, p, f>> \in X)
                  /\ \A w \in Proc : w # u => sees(Y, loadFromBytes(m, r), w) = sees(X, m, w)
                  /\ \A x \in sees(Y, loadFromBytes(m, r), u) : x[2] \in {Image, Junk}
<1> DEFINE N == missing(m, r, Loaded)
           Y == planted(X, m, u, N)
           g == graft(m, TreeOf(X, u), N)
<1>1. \A x \in Loaded : x = <<x[1], x[2]>> /\ x[1] \in {ProgramPage} \cup StackPages /\ x[2] \in {Image, Junk}
    BY DEF Loaded
<1>2. \A v : v \in {ProgramPage} \cup StackPages <=> \E x \in Loaded : x[1] = v
    <2>1. \A v \in StackPages : <<v, Junk>> \in Loaded /\ <<v, Junk>>[1] = v
        BY DEF Loaded
    <2>2. <<ProgramPage, Image>> \in Loaded /\ <<ProgramPage, Image>>[1] = ProgramPage
        BY DEF Loaded
    <2>3. ASSUME NEW v \in {ProgramPage} \cup StackPages PROVE \E x \in Loaded : x[1] = v
        <3>1. CASE v = ProgramPage
            BY <3>1, <2>2
        <3>2. CASE v \in StackPages
            BY <3>2, <2>1
        <3> QED
            BY <3>1, <3>2
    <2> QED
        BY <1>1, <2>3
<1>3. /\ ProgramPage \notin StackPages /\ {ProgramPage} \cup StackPages \subseteq UserPage
      /\ Program(0) = {ProgramPage} \cup StackPages
    <2>1. HeapPages(0, 0) = {}
        BY HeapFrom, LayoutAssumption DEF Vpn
    <2> QED
        BY <2>1, ProgramPages DEF Program
<1>4. \A x, y \in Loaded : x[1] = y[1] => x = y
    BY <1>3 DEF Loaded
<1>5. Pages(X, u, Loaded)
    <2>1. \A v \in UserPage : v \in Vpn /\ v >= Fan
        BY UserPages
    <2>2. Image \in Content /\ Junk \in Content
        BY DEF Content
    <2>3. \A v \in Vpn, h \in Target : <<u, Path(v), h>> \notin X
        BY BareHas
    <2>4. ASSUME NEW x \in Loaded
          PROVE  /\ x = <<x[1], x[2]>> /\ x[1] \in Vpn /\ x[1] >= Fan /\ x[2] \in Content
                 /\ \A h \in Target : <<u, Path(x[1]), h>> \notin X
        <3>1. x = <<x[1], x[2]>> /\ x[1] \in UserPage /\ x[2] \in Content
            BY <1>1, <1>3, <2>2
        <3> QED
            BY <3>1, <2>1, <2>3
    <2> QED
        BY <2>4, <1>4 DEF Pages
<1>6. r \in Frame /\ <<u, PDP, r>> \in X
    BY DEF Rooted
<1>7. /\ Nodes(X, u, N) /\ loadFromBytes(m, r) = g
      /\ \A v \in Vpn : (\E x \in N : x[1] = Path(v)) <=> \E y \in Loaded : y[1] = v
      /\ \A v \in Vpn : \A c : (\E x \in N : x[1] = Path(v) /\ c \in x[2]) <=> <<v, c>> \in Loaded
    BY <1>5, <1>6, MissingNodes DEF loadFromBytes
<1>8. Cardinality(N) <= Cardinality(m.free)
    BY DEF Room
<1> HIDE DEF N
<1>9. Planted(Y) /\ Held(g, Y)
    BY <1>7, <1>8, GrownPlanted, Grafted
<1>10. /\ \A w, p, f : <<w, p, f>> \in X => <<w, p, f>> \in Y
       /\ \A w, p, f : <<w, p, f>> \in Y =>
              <<w, p, f>> \in X \/ (w = u /\ f \in Frame /\ \E x \in N : p = x[1])
       /\ \A w \in Proc : w # u => Has(Y, w) = Has(X, w) /\ sees(Y, g, w) = sees(X, m, w)
       /\ \A v \in Vpn : v \in Has(Y, u) <=> v \in Has(X, u) \/ \E x \in N : x[1] = Path(v)
       /\ \A v \in UserPage, c \in Content : <<v, c>> \in sees(Y, g, u) <=>
              <<v, c>> \in sees(X, m, u) \/ \E x \in N : x[1] = Path(v) /\ c \in x[2]
    BY <1>7, <1>8, GrownSees
<1> HIDE DEF Y, g
<1>11. Rooted(Y, u, r)
    BY <1>10 DEF Rooted
<1>12. Has(Y, u) = Program(0)
    <2>1. Has(Y, u) \subseteq Vpn /\ Program(0) \subseteq Vpn
        BY <1>3, UserPages DEF Has
    <2>2. \A v \in Vpn : v \in Has(Y, u) <=> \E y \in Loaded : y[1] = v
        BY <1>7, <1>10, BareHas
    <2> QED
        BY <2>1, <2>2, <1>2, <1>3
<1>13. ASSUME NEW x \in sees(Y, g, u) PROVE x[2] \in {Image, Junk}
    <2>1. x = <<x[1], x[2]>> /\ x[1] \in UserPage /\ x[1] \in Vpn /\ x[2] \in Content
        BY Sees, UserPages
    <2>2. <<x[1], x[2]>> \in Loaded
        BY <2>1, <1>7, <1>10, BareHas
    <2> QED
        BY <2>1, <2>2, <1>1
<1>14. \A w \in Proc : \A p, f : w # u => (<<w, p, f>> \in Y <=> <<w, p, f>> \in X)
    BY <1>10
<1> QED
    BY <1>7, <1>9, <1>10, <1>11, <1>12, <1>13, <1>14

\* copyPDs of the memory of u into that of c, which was cleared.
LEMMA CopiedInto ==
    ASSUME NEW X, Planted(X), NEW m, Held(m, X), NEW u \in Proc, NEW c \in Proc, u # c,
           NEW s, Rooted(X, u, s), NEW r, Rooted(X, c, r), Bare(X, c), Room(m, copies(m, s))
    PROVE  \E Y : /\ Planted(Y) /\ Held(copyPDs(m, r, s), Y)
                  /\ Rooted(Y, c, r) /\ Has(Y, c) = Has(X, u)
                  /\ \A w \in Proc : \A p, f : w # c => (<<w, p, f>> \in Y <=> <<w, p, f>> \in X)
                  /\ \A w \in Proc : w # c => sees(Y, copyPDs(m, r, s), w) = sees(X, m, w)
                  /\ sees(Y, copyPDs(m, r, s), c) = sees(X, m, u)
<1> DEFINE N == copies(m, s)
           Y == planted(X, m, c, N)
           g == graft(m, TreeOf(X, c), N)
<1>1. /\ Nodes(X, c, N) /\ copyPDs(m, r, s) = g
      /\ \A v \in Vpn : (\E x \in N : x[1] = Path(v)) <=> v \in Has(X, u)
      /\ \A v \in UserPage, d \in Content :
             (\E x \in N : x[1] = Path(v) /\ d \in x[2]) <=> <<v, d>> \in sees(X, m, u)
    <2>1. s \in Frame /\ <<u, PDP, s>> \in X /\ <<u, <<0, 0>>, FirstPT>> \in X
        BY DEF Rooted
    <2>2. r \in Frame /\ <<c, PDP, r>> \in X
        BY DEF Rooted
    <2>3. PICK g0 \in Frame : <<c, PD0, g0>> \in X
        BY DEF Rooted
    <2>4. \A p \in Paths, f \in Target : <<c, p, f>> \in X => p \in Base
        BY DEF Bare
    <2> QED
        BY <2>1, <2>2, <2>3, <2>4, CopiedNodes
<1>2. Cardinality(N) <= Cardinality(m.free)
    BY DEF Room
<1> HIDE DEF N
<1>3. Planted(Y) /\ Held(g, Y)
    BY <1>1, <1>2, GrownPlanted, Grafted
<1>4. /\ \A w, p, f : <<w, p, f>> \in X => <<w, p, f>> \in Y
      /\ \A w, p, f : <<w, p, f>> \in Y =>
             <<w, p, f>> \in X \/ (w = c /\ f \in Frame /\ \E x \in N : p = x[1])
      /\ \A w \in Proc : w # c => Has(Y, w) = Has(X, w) /\ sees(Y, g, w) = sees(X, m, w)
      /\ \A v \in Vpn : v \in Has(Y, c) <=> v \in Has(X, c) \/ \E x \in N : x[1] = Path(v)
      /\ \A v \in UserPage, d \in Content : <<v, d>> \in sees(Y, g, c) <=>
             <<v, d>> \in sees(X, m, c) \/ \E x \in N : x[1] = Path(v) /\ d \in x[2]
    BY <1>1, <1>2, GrownSees
<1> HIDE DEF Y, g
<1>5. Rooted(Y, c, r)
    BY <1>4 DEF Rooted
<1>6. Has(X, c) = {} /\ sees(X, m, c) = {}
    BY BareHas
<1>7. Has(Y, c) = Has(X, u)
    <2>1. Has(Y, c) \subseteq Vpn /\ Has(X, u) \subseteq Vpn
        BY DEF Has
    <2>2. \A v \in Vpn : v \in Has(Y, c) <=> v \in Has(X, u)
        BY <1>1, <1>4, <1>6
    <2> QED
        BY <2>1, <2>2
<1>8. sees(Y, g, c) = sees(X, m, u)
    <2>1. sees(Y, g, c) \subseteq UserPage \X Content /\ sees(X, m, u) \subseteq UserPage \X Content
        BY Sees
    <2>2. ASSUME NEW v \in UserPage, NEW d \in Content
          PROVE  <<v, d>> \in sees(Y, g, c) <=> <<v, d>> \in sees(X, m, u)
        <3>1. <<v, d>> \in sees(Y, g, c) <=> \E x \in N : x[1] = Path(v) /\ d \in x[2]
            BY <1>4, <1>6
        <3> QED
            BY <3>1, <1>1
    <2> QED
        BY <2>1, <2>2
<1>9. \A w \in Proc : \A p, f : w # c => (<<w, p, f>> \in Y <=> <<w, p, f>> \in X)
    BY <1>4
<1> QED
    BY <1>1, <1>3, <1>4, <1>5, <1>7, <1>8, <1>9

\* clear.
LEMMA ClearedOf ==
    ASSUME NEW X, Planted(X), NEW m, Held(m, X), NEW u \in Proc, NEW r, Rooted(X, u, r)
    PROVE  \E Y : /\ Planted(Y) /\ Held(clear(m, r), Y) /\ Rooted(Y, u, r) /\ Bare(Y, u)
                  /\ \A w \in Proc : \A p, f : w # u => (<<w, p, f>> \in Y <=> <<w, p, f>> \in X)
                  /\ \A w \in Proc : w # u => sees(Y, clear(m, r), w) = sees(X, m, w)
<1> DEFINE D == Cut
           Y == pruned(X, u, D)
           g == clear(m, r)
<1>1. <<u, PDP, r>> \in X /\ <<u, <<0, 0>>, FirstPT>> \in X
    BY DEF Rooted
<1>2. /\ Downwards(X, u, D) /\ Held(g, Y)
      /\ Emptied(m, g, Gone(X, u, D))
    BY <1>1, Cleared
<1> HIDE DEF D, g
<1>3. Planted(Y)
    BY <1>2, PrunedPlanted
<1>4. /\ \A w, p, f : <<w, p, f>> \in Y <=> <<w, p, f>> \in X /\ ~(w = u /\ p \in D)
      /\ \A w \in Proc : w # u => sees(Y, g, w) = sees(X, m, w)
    BY <1>2, PrunedSees
<1> HIDE DEF Y, g
<1>5. Rooted(Y, u, r)
    BY <1>4 DEF Rooted, D, Cut, Base
<1>6. Bare(Y, u)
    BY <1>4 DEF Bare, D, Cut
<1> QED
    BY <1>2, <1>3, <1>4, <1>5, <1>6 DEF g

-----------------------------------------------------------------------------
(* The steps *)

\* What a step keeps, and what it does to what the processes see.
Steps(X) == \E Y : Consistent(Y)' /\ Changes(view(X, mem, phase), view(Y, mem', phase'))

\* A process that runs sees its pages, any other none.
LEMMA ViewAt ==
    ASSUME NEW X, NEW m, NEW ph, NEW w \in Proc
    PROVE  /\ ph[w] = "alive" => view(X, m, ph)[w] = sees(X, m, w)
           /\ ph[w] # "alive" => view(X, m, ph)[w] = {}
BY DEF view

\* The view of a process that a step leaves alone.
LEMMA ViewOthers ==
    ASSUME NEW X, NEW m, NEW ph, NEW Y, NEW g, NEW ph1, NEW u \in Proc,
           \A w \in Proc : w # u => ph1[w] = ph[w] /\ sees(Y, g, w) = sees(X, m, w)
    PROVE  \A w \in Proc : w # u => view(Y, g, ph1)[w] = view(X, m, ph)[w]
BY DEF view

\* The memory of a process that runs.
LEMMA AliveIs ==
    ASSUME NEW X, Consistent(X), NEW u \in Proc, phase[u] = "alive"
    PROVE  /\ Planted(X) /\ Held(mem, X) /\ Rooted(X, u, pdp[u])
           /\ Has(X, u) = Program(Brk[u] \div PageSize) /\ BreakIs(Brk[u], dist[u])
BY DEF Consistent, ProcessIs

\* A process that does not exist has no node.
LEMMA NoneIs ==
    ASSUME NEW X, Consistent(X), NEW u \in Proc, phase[u] = "none"
    PROVE  /\ Planted(X) /\ Held(mem, X) /\ \A p \in Paths, f \in Target : <<u, p, f>> \notin X
           /\ Brk[u] = 0 /\ dist[u] = 0
BY DEF Consistent, ProcessIs

\* A free frame is the PDP of no process, nor the active one.
LEMMA NotActive ==
    ASSUME NEW X, Consistent(X), ActiveInv, NEW r \in mem.free
    PROVE  r # mmu.PML4 /\ \A u \in Proc : phase[u] # "none" => pdp[u] # r
<1>1. r \in Frame /\ \A w \in Proc, p \in Paths : <<w, p, r>> \notin X
    BY DEF Consistent, Held
<1>2. \A u \in Proc : phase[u] # "none" => <<u, PDP, pdp[u]>> \in X
    BY DEF Consistent, ProcessIs, Rooted
<1>3. \A u \in Proc : phase[u] # "none" => pdp[u] # r
    BY <1>1, <1>2, Depths
<1>4. r # DefaultPDP
    BY <1>1, FramesAre
<1> QED
    BY <1>3, <1>4 DEF ActiveInv, ActiveAlive

\* A memory that was just constructed is bare.
LEMMA BareAfterConstruct ==
    ASSUME NEW X, NEW Y, NEW u \in Proc, NEW r \in Frame,
           \A p \in Paths, f \in Target : <<u, p, f>> \notin X,
           \A w, p, f : <<w, p, f>> \in Y => <<w, p, f>> \in X \/ (w = u /\ p \in {PDP, PD0, <<0, 0>>}),
           <<u, PDP, r>> \in Y, \E f \in Frame : <<u, PD0, f>> \in Y, <<u, <<0, 0>>, FirstPT>> \in Y
    PROVE  Rooted(Y, u, r) /\ Bare(Y, u)
BY DEF Rooted, Bare, Base

\* The bound on allocations.
LEMMA AllocsBounded ==
    ASSUME NEW X, Consistent(X), Allocating
    PROVE  allocs' \in 0..MaxAllocs
<1>1. allocs \in 0..MaxAllocs
    BY DEF Consistent, Typed
<1> QED
    BY <1>1, BoundsAssumption DEF Allocating

\* kmain makes init: a constructed memory is loaded.
LEMMA StartSteps ==
    ASSUME NEW X, Consistent(X), ActiveInv, start
    PROVE  Steps(X)
<1> DEFINE u == InitProc
           r == alloc(mem, 0)
           m == construct(mem)
<1>1. u \in Proc /\ phase[u] = "none"
    BY BoundsAssumption DEF start
<1>2. /\ Planted(X) /\ Held(mem, X) /\ \A p \in Paths, f \in Target : <<u, p, f>> \notin X
      /\ Brk[u] = 0 /\ dist[u] = 0
    BY <1>1, NoneIs
<1>3. /\ RoomToConstruct(mem) /\ Room(m, missing(m, r, Loaded)) /\ mem' = loadFromBytes(m, r)
      /\ mmu' = switchUser(mmu, r) /\ pdp' = [pdp EXCEPT ![u] = r]
      /\ phase' = [phase EXCEPT ![u] = "alive"] /\ allocs' \in 0..MaxAllocs
      /\ UNCHANGED <<Brk, dist>>
    <2>1. allocs' \in 0..MaxAllocs
        BY AllocsBounded DEF start
    <2> QED
        BY <2>1 DEF start
<1> HIDE DEF u
<1>4. PICK Z : /\ Planted(Z) /\ Held(m, Z) /\ r \in mem.free
               /\ \A w, p, f : <<w, p, f>> \in X => <<w, p, f>> \in Z
               /\ \A w, p, f : <<w, p, f>> \in Z => <<w, p, f>> \in X \/ (w = u /\ p \in {PDP, PD0, <<0, 0>>})
               /\ <<u, PDP, r>> \in Z /\ \E f \in Frame : <<u, PD0, f>> \in Z
               /\ <<u, <<0, 0>>, FirstPT>> \in Z
               /\ \A w \in Proc : w # u => Has(Z, w) = Has(X, w) /\ sees(Z, m, w) = sees(X, mem, w)
    BY <1>1, <1>2, <1>3, Constructed
<1> HIDE DEF m, r
<1>5. r \in Frame
    BY <1>2, <1>4 DEF Held
<1>6. Rooted(Z, u, r) /\ Bare(Z, u)
    BY <1>1, <1>2, <1>4, <1>5, BareAfterConstruct
<1>7. PICK Y : /\ Planted(Y) /\ Held(mem', Y) /\ Rooted(Y, u, r) /\ Has(Y, u) = Program(0)
               /\ \A w \in Proc : \A p, f : w # u => (<<w, p, f>> \in Y <=> <<w, p, f>> \in Z)
               /\ \A w \in Proc : w # u => sees(Y, mem', w) = sees(Z, m, w)
               /\ \A x \in sees(Y, mem', u) : x[2] \in {Image, Junk}
    BY <1>1, <1>3, <1>4, <1>6, LoadedInto
<1>8. mmu'.TLB = NoTLB
    BY <1>3, <1>4, NotActive, SwitchedTLB
<1>9. Typed' /\ Cached(Y, mmu', pdp', phase')
    <2>1. mmu'.TLB \in [Vpn -> Frame \cup {None}] /\ Cached(Y, mmu', pdp', phase')
        BY <1>8, Flushed
    <2>2. /\ pdp' = [w \in Proc |-> pdp'[w]] /\ phase' = [w \in Proc |-> phase'[w]]
          /\ Brk' = [w \in Proc |-> Brk'[w]] /\ dist' = [w \in Proc |-> dist'[w]]
        BY <1>3 DEF Consistent, Typed
    <2> QED
        BY <2>1, <2>2, <1>3 DEF Typed
<1>10. /\ phase'[u] = "alive" /\ pdp'[u] = r /\ Brk'[u] = 0 /\ dist'[u] = 0
       /\ \A w \in Proc : w # u => /\ phase'[w] = phase[w] /\ pdp'[w] = pdp[w]
                                   /\ Brk'[w] = Brk[w] /\ dist'[w] = dist[w]
    BY <1>1, <1>2, <1>3 DEF Consistent, Typed
<1>11. ProcessIs(Y, u, phase'[u], pdp'[u], Brk'[u], dist'[u])
    <2>1. 0 \div PageSize = 0
        BY DEF PageSize
    <2> QED
        BY <2>1, <1>7, <1>10, NoBreak DEF ProcessIs
<1>12. Consistent(Y)'
    <2>1. \A w \in Proc : \A p, f : w # u => (<<w, p, f>> \in Y <=> <<w, p, f>> \in X)
        BY <1>4, <1>7
    <2> QED
        BY <2>1, <1>1, <1>7, <1>9, <1>10, <1>11, OneChanges
<1>13. Changes(view(X, mem, phase), view(Y, mem', phase'))
    <2>1. \A w \in Proc : w # u => view(Y, mem', phase')[w] = view(X, mem, phase)[w]
        BY <1>1, <1>4, <1>7, <1>10, ViewOthers
    <2>2. view(Y, mem', phase')[u] = sees(Y, mem', u) /\ view(X, mem, phase)[u] = {}
        BY <1>1, <1>10, ViewAt
    <2> QED
        BY <2>1, <2>2, <1>1, <1>7 DEF Changes
<1> QED
    BY <1>12, <1>13 DEF Steps

\* exec: the memory is cleared and loaded, and the TLB is flushed on the way.
LEMMA ExecSteps ==
    ASSUME NEW X, Consistent(X), ActiveInv, NEW u \in Proc, exec(u)
    PROVE  Steps(X)
<1> DEFINE r == pdp[u]
           m == clear(mem, r)
<1>1. phase[u] = "alive" /\ mmu.PML4 = r
    BY DEF exec, Current
<1>2. Planted(X) /\ Held(mem, X) /\ Rooted(X, u, r)
    BY <1>1, AliveIs
<1>3. /\ Room(m, missing(m, r, Loaded)) /\ mem' = loadFromBytes(m, r)
      /\ mmu' = switchUser(leave(mmu, r), r)
      /\ Brk' = [Brk EXCEPT ![u] = 0] /\ dist' = [dist EXCEPT ![u] = 0] /\ allocs' \in 0..MaxAllocs
      /\ UNCHANGED <<pdp, phase>>
    <2>1. allocs' \in 0..MaxAllocs
        BY AllocsBounded DEF exec
    <2> QED
        BY <2>1 DEF exec
<1>4. PICK Z : /\ Planted(Z) /\ Held(m, Z) /\ Rooted(Z, u, r) /\ Bare(Z, u)
               /\ \A w \in Proc : \A p, f : w # u => (<<w, p, f>> \in Z <=> <<w, p, f>> \in X)
               /\ \A w \in Proc : w # u => sees(Z, m, w) = sees(X, mem, w)
    BY <1>2, ClearedOf
<1> HIDE DEF m, r
<1>5. PICK Y : /\ Planted(Y) /\ Held(mem', Y) /\ Rooted(Y, u, r) /\ Has(Y, u) = Program(0)
               /\ \A w \in Proc : \A p, f : w # u => (<<w, p, f>> \in Y <=> <<w, p, f>> \in Z)
               /\ \A w \in Proc : w # u => sees(Y, mem', w) = sees(Z, m, w)
               /\ \A x \in sees(Y, mem', u) : x[2] \in {Image, Junk}
    BY <1>3, <1>4, LoadedInto
<1>6. mmu'.TLB = NoTLB
    <2>1. r # DefaultPDP
        BY <1>2, FramesAre DEF Rooted
    <2>2. Registers(mmu)
        BY DEF ActiveInv
    <2>3. leave(mmu, r).PML4 = DefaultPDP
        BY <1>1, <2>2, Left
    <2> QED
        BY <2>1, <2>3, <1>3, SwitchedTLB
<1>7. Typed' /\ Cached(Y, mmu', pdp', phase')
    <2>1. mmu'.TLB \in [Vpn -> Frame \cup {None}] /\ Cached(Y, mmu', pdp', phase')
        BY <1>6, Flushed
    <2>2. /\ pdp' = [w \in Proc |-> pdp'[w]] /\ phase' = [w \in Proc |-> phase'[w]]
          /\ Brk' = [w \in Proc |-> Brk'[w]] /\ dist' = [w \in Proc |-> dist'[w]]
        BY <1>3 DEF Consistent, Typed
    <2> QED
        BY <2>1, <2>2, <1>3 DEF Typed
<1>8. /\ phase'[u] = "alive" /\ pdp'[u] = r /\ Brk'[u] = 0 /\ dist'[u] = 0
      /\ \A w \in Proc : w # u => /\ phase'[w] = phase[w] /\ pdp'[w] = pdp[w]
                                  /\ Brk'[w] = Brk[w] /\ dist'[w] = dist[w]
    BY <1>1, <1>3 DEF Consistent, Typed, r
<1>9. ProcessIs(Y, u, phase'[u], pdp'[u], Brk'[u], dist'[u])
    <2>1. 0 \div PageSize = 0
        BY DEF PageSize
    <2> QED
        BY <2>1, <1>5, <1>8, NoBreak DEF ProcessIs
<1>10. Consistent(Y)'
    <2>1. \A w \in Proc : \A p, f : w # u => (<<w, p, f>> \in Y <=> <<w, p, f>> \in X)
        BY <1>4, <1>5
    <2> QED
        BY <2>1, <1>5, <1>7, <1>8, <1>9, OneChanges
<1>11. Changes(view(X, mem, phase), view(Y, mem', phase'))
    <2>1. \A w \in Proc : w # u => view(Y, mem', phase')[w] = view(X, mem, phase)[w]
        BY <1>4, <1>5, <1>8, ViewOthers
    <2>2. view(Y, mem', phase')[u] = sees(Y, mem', u)
        BY <1>8, ViewAt
    <2>3. u \in Active
        BY <1>1 DEF Active, Current, r
    <2> DEFINE Before == view(X, mem, phase)
           After == view(Y, mem', phase')
    <2>4. \A x \in After[u] : x[2] \in {Image, Junk}
        BY <2>2, <1>5
    <2>5. \A w \in Proc : w # u => After[w] = Before[w]
        BY <2>1
    <2> HIDE DEF Before, After
    <2>6. Changes(Before, After)
        BY <2>4, <2>5, <2>3 DEF Changes
    <2> QED
        BY <2>6 DEF Before, After
<1> QED
    BY <1>10, <1>11 DEF Steps

\* fork: the new memory is constructed, cleared, and gets a copy of every page.
LEMMA ForkSteps ==
    ASSUME NEW X, Consistent(X), ActiveInv, NEW u \in Proc, NEW c \in Proc, fork(u, c)
    PROVE  Steps(X)
<1> DEFINE r == alloc(mem, 0)
           m0 == construct(mem)
           m == clear(m0, r)
           N == copies(m, pdp[u])
<1>1. phase[u] = "alive" /\ mmu.PML4 = pdp[u] /\ phase[c] = "none" /\ u # c
    BY DEF fork, Current
<1>2. /\ RoomToConstruct(mem) /\ Room(m, N) /\ mem' = copyPDs(m, r, pdp[u])
      /\ pdp' = [pdp EXCEPT ![c] = r] /\ phase' = [phase EXCEPT ![c] = "alive"]
      /\ Brk' = [Brk EXCEPT ![c] = Brk[u]] /\ dist' = [dist EXCEPT ![c] = dist[u]]
      /\ allocs' \in 0..MaxAllocs /\ mmu' = mmu
    <2>1. allocs' \in 0..MaxAllocs
        BY AllocsBounded DEF fork
    <2> QED
        BY <2>1 DEF fork
<1>3. /\ Planted(X) /\ Held(mem, X) /\ Rooted(X, u, pdp[u])
      /\ Has(X, u) = Program(Brk[u] \div PageSize) /\ BreakIs(Brk[u], dist[u])
      /\ \A p \in Paths, f \in Target : <<c, p, f>> \notin X
    BY <1>1, AliveIs, NoneIs
<1>4. PICK Z0 : /\ Planted(Z0) /\ Held(m0, Z0) /\ r \in mem.free
                /\ \A w, p, f : <<w, p, f>> \in X => <<w, p, f>> \in Z0
                /\ \A w, p, f : <<w, p, f>> \in Z0 => <<w, p, f>> \in X \/ (w = c /\ p \in {PDP, PD0, <<0, 0>>})
                /\ <<c, PDP, r>> \in Z0 /\ \E f \in Frame : <<c, PD0, f>> \in Z0
                /\ <<c, <<0, 0>>, FirstPT>> \in Z0
                /\ \A w \in Proc : w # c => Has(Z0, w) = Has(X, w) /\ sees(Z0, m0, w) = sees(X, mem, w)
    BY <1>2, <1>3, Constructed
<1> HIDE DEF m0, r
<1>5. r \in Frame
    BY <1>3, <1>4 DEF Held
<1>6. Rooted(Z0, c, r)
    BY <1>3, <1>4, <1>5, BareAfterConstruct
<1>7. PICK Z : /\ Planted(Z) /\ Held(m, Z) /\ Rooted(Z, c, r) /\ Bare(Z, c)
               /\ \A w \in Proc : \A p, f : w # c => (<<w, p, f>> \in Z <=> <<w, p, f>> \in Z0)
               /\ \A w \in Proc : w # c => sees(Z, m, w) = sees(Z0, m0, w)
    BY <1>4, <1>6, ClearedOf
<1> HIDE DEF m
<1>8. \A w \in Proc : \A p, f : w # c => (<<w, p, f>> \in Z <=> <<w, p, f>> \in X)
    BY <1>4, <1>7
<1>9. Rooted(Z, u, pdp[u]) /\ Has(Z, u) = Has(X, u)
    BY <1>1, <1>3, <1>8 DEF Rooted, Has
<1>10. PICK Y : /\ Planted(Y) /\ Held(mem', Y) /\ Rooted(Y, c, r) /\ Has(Y, c) = Has(X, u)
                /\ \A w \in Proc : \A p, f : w # c => (<<w, p, f>> \in Y <=> <<w, p, f>> \in Z)
                /\ \A w \in Proc : w # c => sees(Y, mem', w) = sees(Z, m, w)
                /\ sees(Y, mem', c) = sees(Z, m, u)
    BY <1>1, <1>2, <1>7, <1>9, CopiedInto
<1>11. \A w \in Proc : \A p, f : w # c => (<<w, p, f>> \in Y <=> <<w, p, f>> \in X)
    BY <1>8, <1>10
<1>12. \A w \in Proc : w # c => sees(Y, mem', w) = sees(X, mem, w) /\ Has(Y, w) = Has(X, w)
    <2>1. \A w \in Proc : w # c => sees(Y, mem', w) = sees(X, mem, w)
        BY <1>4, <1>7, <1>10
    <2>2. \A w \in Proc : w # c => Has(Y, w) = Has(X, w)
        BY <1>11 DEF Has
    <2> QED
        BY <2>1, <2>2
<1>13. sees(Y, mem', c) = sees(X, mem, u)
    BY <1>1, <1>4, <1>7, <1>10
<1>14. /\ phase'[c] = "alive" /\ pdp'[c] = r /\ Brk'[c] = Brk[u] /\ dist'[c] = dist[u]
       /\ \A w \in Proc : w # c => /\ phase'[w] = phase[w] /\ pdp'[w] = pdp[w]
                                   /\ Brk'[w] = Brk[w] /\ dist'[w] = dist[w]
    BY <1>2 DEF Consistent, Typed
<1>15. Typed' /\ Cached(Y, mmu', pdp', phase')
    <2>1. /\ pdp' = [w \in Proc |-> pdp'[w]] /\ phase' = [w \in Proc |-> phase'[w]]
          /\ Brk' = [w \in Proc |-> Brk'[w]] /\ dist' = [w \in Proc |-> dist'[w]]
          /\ mmu'.TLB \in [Vpn -> Frame \cup {None}]
        BY <1>2 DEF Consistent, Typed
    <2>2. r # mmu.PML4
        BY <1>4, NotActive
    <2>3. Cached(X, mmu, pdp, phase)
        BY DEF Consistent
    <2>4. ASSUME NEW w \in Proc, NEW v \in Vpn, phase'[w] = "alive", pdp'[w] = mmu'.PML4,
                 v \in Has(Y, w), mmu'.TLB[v] # None
          PROVE  <<w, Path(v), mmu'.TLB[v]>> \in Y
        <3>1. w # c
            BY <2>2, <2>4, <1>2, <1>14
        <3>2. v \in Has(X, w)
            BY <3>1, <2>4, <1>12
        <3>3. <<w, Path(v), mmu.TLB[v]>> \in X
            BY <2>3, <2>4, <3>1, <3>2, <1>2, <1>14 DEF Cached
        <3> QED
            BY <3>1, <3>3, <1>2, <1>11
    <2>5. Cached(Y, mmu', pdp', phase')
        BY <2>4 DEF Cached
    <2> QED
        BY <2>1, <2>5, <1>2 DEF Typed
<1>16. ProcessIs(Y, c, phase'[c], pdp'[c], Brk'[c], dist'[c])
    BY <1>3, <1>10, <1>14 DEF ProcessIs
<1>17. Consistent(Y)'
    BY <1>10, <1>11, <1>14, <1>15, <1>16, OneChanges
<1>18. Changes(view(X, mem, phase), view(Y, mem', phase'))
    <2>1. \A w \in Proc : w # c => view(Y, mem', phase')[w] = view(X, mem, phase)[w]
        BY <1>12, <1>14, ViewOthers
    <2>2. /\ view(Y, mem', phase')[c] = sees(Y, mem', c) /\ view(X, mem, phase)[c] = {}
          /\ view(X, mem, phase)[u] = sees(X, mem, u)
        BY <1>1, <1>14, ViewAt
    <2>3. u \in Active
        BY <1>1 DEF Active, Current
    <2> QED
        BY <2>1, <2>2, <2>3, <1>13 DEF Changes
<1> QED
    BY <1>17, <1>18 DEF Steps

\* exit: the memory is cleared and no longer active.
LEMMA TerminateSteps ==
    ASSUME NEW X, Consistent(X), ActiveInv, NEW u \in Proc, terminate(u)
    PROVE  Steps(X)
<1> DEFINE r == pdp[u]
<1>1. phase[u] = "alive" /\ mmu.PML4 = r
    BY DEF terminate, Current
<1>2. Planted(X) /\ Held(mem, X) /\ Rooted(X, u, r) /\ BreakIs(Brk[u], dist[u])
    BY <1>1, AliveIs
<1>3. /\ mem' = clear(mem, r) /\ mmu' = leave(mmu, r) /\ phase' = [phase EXCEPT ![u] = "zombie"]
      /\ UNCHANGED <<pdp, Brk, dist, allocs>>
    BY DEF terminate
<1>4. PICK Y : /\ Planted(Y) /\ Held(mem', Y) /\ Rooted(Y, u, r) /\ Bare(Y, u)
               /\ \A w \in Proc : \A p, f : w # u => (<<w, p, f>> \in Y <=> <<w, p, f>> \in X)
               /\ \A w \in Proc : w # u => sees(Y, mem', w) = sees(X, mem, w)
    BY <1>2, <1>3, ClearedOf
<1>5. mmu'.TLB = NoTLB
    <2>1. r # DefaultPDP
        BY <1>2, FramesAre DEF Rooted
    <2>2. Registers(mmu)
        BY DEF ActiveInv
    <2>3. leave(mmu, r).PML4 = DefaultPDP
        BY <1>1, <2>2, Left
    <2>4. leave(mmu, r) # mmu
        BY <2>1, <2>3, <1>1
    <2> QED
        BY <2>4, <1>3, SwitchedTLB
<1>6. Typed' /\ Cached(Y, mmu', pdp', phase')
    <2>1. mmu'.TLB \in [Vpn -> Frame \cup {None}] /\ Cached(Y, mmu', pdp', phase')
        BY <1>5, Flushed
    <2>2. /\ pdp' = [w \in Proc |-> pdp'[w]] /\ phase' = [w \in Proc |-> phase'[w]]
          /\ Brk' = [w \in Proc |-> Brk'[w]] /\ dist' = [w \in Proc |-> dist'[w]]
          /\ allocs' \in 0..MaxAllocs
        BY <1>3 DEF Consistent, Typed
    <2> QED
        BY <2>1, <2>2 DEF Typed
<1>7. /\ phase'[u] = "zombie" /\ pdp'[u] = r /\ Brk'[u] = Brk[u] /\ dist'[u] = dist[u]
      /\ \A w \in Proc : w # u => /\ phase'[w] = phase[w] /\ pdp'[w] = pdp[w]
                                  /\ Brk'[w] = Brk[w] /\ dist'[w] = dist[w]
    BY <1>3 DEF Consistent, Typed
<1>8. ProcessIs(Y, u, phase'[u], pdp'[u], Brk'[u], dist'[u])
    BY <1>2, <1>4, <1>7 DEF ProcessIs
<1>9. Consistent(Y)'
    BY <1>4, <1>6, <1>7, <1>8, OneChanges
<1>10. Changes(view(X, mem, phase), view(Y, mem', phase'))
    <2>1. \A w \in Proc : w # u => view(Y, mem', phase')[w] = view(X, mem, phase)[w]
        BY <1>4, <1>7, ViewOthers
    <2>2. view(Y, mem', phase')[u] = {}
        BY <1>7, ViewAt
    <2>3. u \in Active
        BY <1>1 DEF Active, Current
    <2> QED
        BY <2>1, <2>2, <2>3 DEF Changes
<1> QED
    BY <1>9, <1>10 DEF Steps

\* ~UserMemory, after clear.
LEMMA DestroyedOf ==
    ASSUME NEW X, Planted(X), NEW m, Held(m, X), NEW u \in Proc, NEW r, Rooted(X, u, r), Bare(X, u),
           NEW g, g = free(m, frames(tree(m, r), {PDP, PD0}))
    PROVE  \E Y : /\ Planted(Y) /\ Held(g, Y)
                  /\ \A p \in Paths, f \in Target : <<u, p, f>> \notin Y
                  /\ \A w \in Proc : \A p, f : w # u => (<<w, p, f>> \in Y <=> <<w, p, f>> \in X)
                  /\ \A w \in Proc : w # u => sees(Y, g, w) = sees(X, m, w)
<1> DEFINE D == Paths
           Y == pruned(X, u, D)
<1>1. /\ <<u, PDP, r>> \in X /\ <<u, <<0, 0>>, FirstPT>> \in X
      /\ \A p \in Paths, f \in Target : <<u, p, f>> \in X => p \in Base
    BY DEF Rooted, Bare
<1>2. /\ Downwards(X, u, D) /\ Held(g, Y)
      /\ Emptied(m, g, Gone(X, u, D))
    BY <1>1, Destroyed
<1> HIDE DEF D
<1>3. Planted(Y)
    BY <1>2, PrunedPlanted
<1>4. /\ \A w, p, f : <<w, p, f>> \in Y <=> <<w, p, f>> \in X /\ ~(w = u /\ p \in D)
      /\ \A w \in Proc : w # u => sees(Y, g, w) = sees(X, m, w)
    BY ONLY Planted(X), u \in Proc, <1>2, PrunedSees
<1> HIDE DEF Y
<1>5. \A p \in Paths, f \in Target : <<u, p, f>> \notin Y
    BY <1>4 DEF D
<1> QED
    BY <1>2, <1>3, <1>4, <1>5

\* wait: what clear left of the memory of a zombie is freed.
LEMMA DestroySteps ==
    ASSUME NEW X, Consistent(X), ActiveInv, NEW u \in Proc, destroy(u)
    PROVE  Steps(X)
<1> DEFINE r == pdp[u]
           m == clear(mem, r)
<1>1. phase[u] = "zombie"
    BY DEF destroy
<1>2. Planted(X) /\ Held(mem, X) /\ Rooted(X, u, r)
    BY <1>1 DEF Consistent, ProcessIs
<1>3. /\ mem' = free(m, frames(tree(m, r), {PDP, PD0})) /\ mmu' = leave(mmu, r)
      /\ pdp' = [pdp EXCEPT ![u] = None] /\ phase' = [phase EXCEPT ![u] = "none"]
      /\ Brk' = [Brk EXCEPT ![u] = 0] /\ dist' = [dist EXCEPT ![u] = 0] /\ UNCHANGED allocs
    BY DEF destroy
<1>4. PICK Z : /\ Planted(Z) /\ Held(m, Z) /\ Rooted(Z, u, r) /\ Bare(Z, u)
               /\ \A w \in Proc : \A p, f : w # u => (<<w, p, f>> \in Z <=> <<w, p, f>> \in X)
               /\ \A w \in Proc : w # u => sees(Z, m, w) = sees(X, mem, w)
    BY <1>2, ClearedOf
<1> HIDE DEF m, r
<1>5. PICK Y : /\ Planted(Y) /\ Held(mem', Y)
               /\ \A p \in Paths, f \in Target : <<u, p, f>> \notin Y
               /\ \A w \in Proc : \A p, f : w # u => (<<w, p, f>> \in Y <=> <<w, p, f>> \in Z)
               /\ \A w \in Proc : w # u => sees(Y, mem', w) = sees(Z, m, w)
    <2>1. mem' = free(m, frames(tree(m, r), {PDP, PD0}))
        BY <1>3
    <2>2. Planted(Z) /\ Held(m, Z) /\ Rooted(Z, u, r) /\ Bare(Z, u)
        BY <1>4
    <2> QED
        BY ONLY u \in Proc, <2>1, <2>2, DestroyedOf
<1>6. /\ phase'[u] = "none" /\ pdp'[u] = None /\ Brk'[u] = 0 /\ dist'[u] = 0
      /\ \A w \in Proc : w # u => /\ phase'[w] = phase[w] /\ pdp'[w] = pdp[w]
                                  /\ Brk'[w] = Brk[w] /\ dist'[w] = dist[w]
    BY <1>3 DEF Consistent, Typed
<1>7. \A w \in Proc : \A p, f : w # u => (<<w, p, f>> \in Y <=> <<w, p, f>> \in X)
    BY <1>4, <1>5
<1>8. mmu'.TLB \in [Vpn -> Frame \cup {None}] /\ Cached(Y, mmu', pdp', phase')
    <2>1. CASE mmu'.TLB = NoTLB
        BY <2>1, Flushed
    <2>2. CASE mmu' = mmu
        <3>1. Cached(X, mmu, pdp, phase) /\ mmu.TLB \in [Vpn -> Frame \cup {None}]
            BY DEF Consistent, Typed
        <3>2. ASSUME NEW w \in Proc, NEW v \in Vpn, phase'[w] = "alive", pdp'[w] = mmu'.PML4,
                     v \in Has(Y, w), mmu'.TLB[v] # None
              PROVE  <<w, Path(v), mmu'.TLB[v]>> \in Y
            <4>1. w # u
                BY <3>2, <1>6
            <4>2. v \in Has(X, w)
                BY <4>1, <3>2, <1>7 DEF Has
            <4>3. <<w, Path(v), mmu.TLB[v]>> \in X
                BY <2>2, <3>1, <3>2, <4>1, <4>2, <1>6 DEF Cached
            <4> QED
                BY <2>2, <4>1, <4>3, <1>7
        <3> QED
            BY <2>2, <3>1, <3>2 DEF Cached
    <2> QED
        BY <2>1, <2>2, <1>3, SwitchedTLB
<1>9. Typed'
    <2>1. /\ pdp' = [w \in Proc |-> pdp'[w]] /\ phase' = [w \in Proc |-> phase'[w]]
          /\ Brk' = [w \in Proc |-> Brk'[w]] /\ dist' = [w \in Proc |-> dist'[w]]
          /\ allocs' \in 0..MaxAllocs
        BY <1>3 DEF Consistent, Typed
    <2> QED
        BY <2>1, <1>8 DEF Typed
<1>10. ProcessIs(Y, u, phase'[u], pdp'[u], Brk'[u], dist'[u])
    BY <1>5, <1>6, NoBreak DEF ProcessIs
<1>11. Consistent(Y)'
    BY <1>5, <1>6, <1>7, <1>8, <1>9, <1>10, OneChanges
<1>12. Changes(view(X, mem, phase), view(Y, mem', phase'))
    <2>1. \A w \in Proc : w # u => view(Y, mem', phase')[w] = view(X, mem, phase)[w]
        BY <1>4, <1>5, <1>6, ViewOthers
    <2>2. view(Y, mem', phase')[u] = {} /\ view(X, mem, phase)[u] = {}
        BY <1>1, <1>6, ViewAt
    <2> QED
        BY <2>1, <2>2 DEF Changes
<1> QED
    BY <1>11, <1>12 DEF Steps

\* A switch changes the registers of the MMU only.
LEMMA PrepareSteps ==
    ASSUME NEW X, Consistent(X), ActiveInv, NEW u \in Proc, prepare(u)
    PROVE  Steps(X)
<1>1. mmu' = switchUser(mmu, pdp[u]) /\ UNCHANGED <<mem, pdp, phase, Brk, dist, allocs>>
    BY DEF prepare
<1>2. mmu'.TLB \in [Vpn -> Frame \cup {None}] /\ Cached(X, mmu', pdp', phase')
    <2>1. CASE mmu'.TLB = NoTLB
        BY <2>1, Flushed
    <2>2. CASE mmu' = mmu
        <3>1. Cached(X, mmu, pdp, phase) /\ mmu.TLB \in [Vpn -> Frame \cup {None}]
            BY DEF Consistent, Typed
        <3>2. pdp' = pdp /\ phase' = phase
            BY <1>1
        <3> QED
            BY <2>2, <3>1, <3>2, Zenon
    <2> QED
        BY <2>1, <2>2, <1>1, SwitchedTLB
<1>3. Consistent(X)'
    BY <1>1, <1>2 DEF Consistent, Typed
<1>4. Changes(view(X, mem, phase), view(X, mem', phase'))
    BY <1>1 DEF Changes
<1> QED
    BY <1>3, <1>4 DEF Steps

\* brk within the last page of the heap.
LEMMA BrkSameSteps ==
    ASSUME NEW X, Consistent(X), ActiveInv, NEW u \in Proc, NEW d \in Dists, brkSame(u, d)
    PROVE  Steps(X)
<1>1. /\ phase[u] = "alive" /\ d <= Brk[u] /\ d + PageSize >= Brk[u]
      /\ dist' = [dist EXCEPT ![u] = d] /\ UNCHANGED <<mem, mmu, pdp, phase, Brk, allocs>>
    BY DEF brkSame, Current
<1>2. ProcessIs(X, u, "alive", pdp[u], Brk[u], dist[u]) /\ Planted(X) /\ Held(mem, X)
    BY <1>1 DEF Consistent
<1>3. ProcessIs(X, u, "alive", pdp[u], Brk[u], d)
    <2>1. BreakIs(Brk[u], dist[u])
        BY <1>2 DEF ProcessIs
    <2>2. d \in Nat
        BY BoundsAssumption
    <2>3. BreakIs(Brk[u], d)
        BY <2>1, <2>2, <1>1 DEF BreakIs
    <2> QED
        BY <1>2, <2>3 DEF ProcessIs
<1>4. /\ dist'[u] = d /\ dist' = [w \in Proc |-> dist'[w]]
      /\ \A w \in Proc : w # u => dist'[w] = dist[w]
    BY <1>1 DEF Consistent, Typed
<1>5. Typed' /\ Cached(X, mmu', pdp', phase')
    BY <1>1, <1>4 DEF Consistent, Typed
<1>6. Consistent(X)'
    BY <1>1, <1>2, <1>3, <1>4, <1>5, OneChanges
<1>7. Changes(view(X, mem, phase), view(X, mem', phase'))
    BY <1>1 DEF Changes
<1> QED
    BY <1>6, <1>7 DEF Steps

-----------------------------------------------------------------------------
(* brk *)

\* The pages of V, not written yet, and that u has none of them.
Blank(V) == V \X {Junk}
Lacks(X, u, V) == \A v \in V : v \notin Has(X, u)

\* Pages that are not written yet are added to a memory.
LEMMA PagesAdded ==
    ASSUME NEW X, Planted(X), NEW m, Held(m, X), NEW u \in Proc, NEW r, Rooted(X, u, r),
           NEW V \in SUBSET UserPage, Lacks(X, u, V),
           Room(m, missing(m, r, Blank(V))), NEW g, g = createMapping(m, r, Blank(V))
    PROVE  \E Y : /\ Planted(Y) /\ Held(g, Y) /\ Rooted(Y, u, r) /\ Has(Y, u) = Has(X, u) \cup V
                  /\ \A p, f : <<u, p, f>> \in X => <<u, p, f>> \in Y
                  /\ \A w \in Proc : \A p, f : w # u => (<<w, p, f>> \in Y <=> <<w, p, f>> \in X)
                  /\ \A w \in Proc : w # u => sees(Y, g, w) = sees(X, m, w)
                  /\ sees(X, m, u) \subseteq sees(Y, g, u)
                  /\ \A x \in sees(Y, g, u) \ sees(X, m, u) :
                         x[2] = Junk /\ \A y \in sees(X, m, u) : y[1] # x[1]
<1> DEFINE W == Blank(V)
           N == missing(m, r, W)
           Y == planted(X, m, u, N)
           h == graft(m, TreeOf(X, u), N)
<1>1. r \in Frame /\ <<u, PDP, r>> \in X
    BY DEF Rooted
<1>w. W = V \X {Junk} /\ Room(m, missing(m, r, W)) /\ g = createMapping(m, r, W)
    BY DEF Blank
<1>l. \A v \in V : v \notin Has(X, u)
    BY DEF Lacks
<1> HIDE DEF W
<1>2. \A x \in W : x = <<x[1], x[2]>> /\ x[1] \in V /\ x[2] = Junk
    BY <1>w
<1>3. /\ \A v \in V : <<v, Junk>> \in W
      /\ \A v, c : <<v, c>> \in W <=> v \in V /\ c = Junk
    BY <1>w
<1>4. \A v \in V, f \in Target : <<u, Path(v), f>> \notin X
    <2> SUFFICES ASSUME NEW v \in V, NEW f \in Target, <<u, Path(v), f>> \in X PROVE FALSE
        OBVIOUS
    <2>1. v \in Vpn /\ Path(v) \in Paths /\ depth(Path(v)) = 3
        BY UserPages, PathOfPage DEF depth
    <2>2. f \notin Frame
        BY <2>1, <1>l DEF Has
    <2>3. f = FirstPT
        BY <2>2 DEF Target
    <2>4. Path(v) = <<0, 0>>
        BY <2>1, <2>3 DEF Planted
    <2> QED
        BY <2>1, <2>4, Depths
<1>5. Pages(X, u, W)
    <2>1. \A v \in V : v \in Vpn /\ v >= Fan
        BY UserPages
    <2>2. Junk \in Content
        BY DEF Content
    <2>3. ASSUME NEW x \in W
          PROVE  /\ x = <<x[1], x[2]>> /\ x[1] \in Vpn /\ x[1] >= Fan /\ x[2] \in Content
                 /\ \A f \in Target : <<u, Path(x[1]), f>> \notin X
        BY <1>2, <1>4, <2>1, <2>2
    <2>4. \A x, y \in W : x[1] = y[1] => x = y
        <3> TAKE x, y \in W
        <3>1. x = <<x[1], Junk>> /\ y = <<y[1], Junk>>
            BY <1>2
        <3> QED
            BY <3>1
    <2> QED
        BY <2>3, <2>4 DEF Pages
<1>6. /\ Nodes(X, u, N) /\ g = h
      /\ \A v \in Vpn : (\E x \in N : x[1] = Path(v)) <=> \E y \in W : y[1] = v
      /\ \A v \in Vpn : \A c : (\E x \in N : x[1] = Path(v) /\ c \in x[2]) <=> <<v, c>> \in W
    <2>1. /\ Nodes(X, u, N) /\ createMapping(m, r, W) = h
          /\ \A v \in Vpn : (\E x \in N : x[1] = Path(v)) <=> \E y \in W : y[1] = v
          /\ \A v \in Vpn : \A c : (\E x \in N : x[1] = Path(v) /\ c \in x[2]) <=> <<v, c>> \in W
        BY ONLY Planted(X), Held(m, X), u \in Proc, <1>1, <1>5, MissingNodes
    <2> HIDE DEF N, h
    <2> QED
        BY <2>1, <1>w
<1>7. Cardinality(N) <= Cardinality(m.free)
    BY <1>w DEF Room
<1> HIDE DEF N
<1>8. Planted(Y) /\ Held(h, Y)
    BY <1>6, <1>7, GrownPlanted, Grafted
<1>9. /\ \A w, p, f : <<w, p, f>> \in X => <<w, p, f>> \in Y
      /\ \A w, p, f : <<w, p, f>> \in Y =>
              <<w, p, f>> \in X \/ (w = u /\ f \in Frame /\ \E x \in N : p = x[1])
      /\ \A w \in Proc : w # u => Has(Y, w) = Has(X, w) /\ sees(Y, h, w) = sees(X, m, w)
      /\ \A v \in Vpn : v \in Has(Y, u) <=> v \in Has(X, u) \/ \E x \in N : x[1] = Path(v)
      /\ \A v \in UserPage, c \in Content : <<v, c>> \in sees(Y, h, u) <=>
              <<v, c>> \in sees(X, m, u) \/ \E x \in N : x[1] = Path(v) /\ c \in x[2]
    BY <1>6, <1>7, GrownSees
<1> HIDE DEF Y, h
<1>10. Rooted(Y, u, r)
    BY <1>9 DEF Rooted
<1>11. Has(Y, u) = Has(X, u) \cup V
    <2>1. Has(Y, u) \subseteq Vpn /\ Has(X, u) \subseteq Vpn /\ V \subseteq Vpn
        BY UserPages DEF Has
    <2>2. \A v \in Vpn : (\E y \in W : y[1] = v) <=> v \in V
        <3>1. \A v \in V : <<v, Junk>> \in W /\ <<v, Junk>>[1] = v
            BY <1>3
        <3> QED
            BY <3>1, <1>2
    <2>3. \A v \in Vpn : v \in Has(Y, u) <=> v \in Has(X, u) \/ v \in V
        BY <2>2, <1>6, <1>9
    <2> QED
        BY <2>1, <2>3
<1>12. ASSUME NEW v \in UserPage, NEW c \in Content
       PROVE  <<v, c>> \in sees(Y, g, u) <=> <<v, c>> \in sees(X, m, u) \/ (v \in V /\ c = Junk)
    <2>1. v \in Vpn
        BY UserPages
    <2>2. (\E x \in N : x[1] = Path(v) /\ c \in x[2]) <=> v \in V /\ c = Junk
        BY <2>1, <1>3, <1>6
    <2> QED
        BY <2>2, <1>6, <1>9
<1>13. sees(Y, g, u) \subseteq UserPage \X Content /\ sees(X, m, u) \subseteq UserPage \X Content
    BY Sees
<1>14. sees(X, m, u) \subseteq sees(Y, g, u)
    BY <1>12, <1>13
<1>15. ASSUME NEW x \in sees(Y, g, u), x \notin sees(X, m, u)
       PROVE  x[2] = Junk /\ \A y \in sees(X, m, u) : y[1] # x[1]
    <2>1. x = <<x[1], x[2]>> /\ x[1] \in UserPage /\ x[2] \in Content
        BY SeesPair
    <2>2. x[1] \in V /\ x[2] = Junk
        BY <2>1, <1>12, <1>15
    <2>3. ASSUME NEW y \in sees(X, m, u), y[1] = x[1] PROVE FALSE
        <3>1. PICK f \in Frame : <<u, Path(y[1]), f>> \in X
            BY SeesPair
        <3> QED
            BY <3>1, <2>2, <2>3, <1>4 DEF Target
    <2> QED
        BY <2>2, <2>3
<1>16. \A w \in Proc : \A p, f : w # u => (<<w, p, f>> \in Y <=> <<w, p, f>> \in X)
    BY <1>9
<1>17. Held(g, Y) /\ \A w \in Proc : w # u => sees(Y, g, w) = sees(X, m, w)
    BY <1>6, <1>8, <1>9
<1> QED
    BY <1>8, <1>9, <1>10, <1>11, <1>14, <1>15, <1>16, <1>17

\* Pages are taken from a memory.
LEMMA PagesRemoved ==
    ASSUME NEW X, Planted(X), NEW m, Held(m, X), NEW u \in Proc, NEW r, Rooted(X, u, r),
           NEW V \in SUBSET Vpn, NEW g, g = freeMapping(m, r, V)
    PROVE  \E Y : /\ Planted(Y) /\ Held(g, Y) /\ Rooted(Y, u, r) /\ Has(Y, u) = Has(X, u) \ V
                  /\ \A v \in Vpn : \A f : v \notin V => (<<u, Path(v), f>> \in Y <=> <<u, Path(v), f>> \in X)
                  /\ \A w \in Proc : \A p, f : w # u => (<<w, p, f>> \in Y <=> <<w, p, f>> \in X)
                  /\ \A w \in Proc : w # u => sees(Y, g, w) = sees(X, m, w)
                  /\ sees(Y, g, u) \subseteq sees(X, m, u)
<1> DEFINE D == {Path(v) : v \in V}
           Y == pruned(X, u, D)
<1>1. <<u, PDP, r>> \in X
    BY DEF Rooted
<1>2. /\ Downwards(X, u, D) /\ Held(g, Y)
      /\ Emptied(m, g, Gone(X, u, D))
    BY <1>1, Unmapped
<1>3. \A v \in Vpn : Path(v) \in D <=> v \in V
    BY PathUnique
<1>4. \A p \in Base : p \notin D
    <2>1. \A v \in V : depth(Path(v)) = 3
        BY PathOfPage DEF depth
    <2>2. \A p \in Base : depth(p) < 3
        BY BaseAbove
    <2> QED
        BY <2>1, <2>2
<1> HIDE DEF D
<1>5. Planted(Y)
    BY <1>2, PrunedPlanted
<1>6. /\ \A w, p, f : <<w, p, f>> \in Y <=> <<w, p, f>> \in X /\ ~(w = u /\ p \in D)
      /\ \A w \in Proc : w # u => sees(Y, g, w) = sees(X, m, w)
      /\ \A v \in Vpn : v \in Has(Y, u) <=> v \in Has(X, u) /\ Path(v) \notin D
      /\ sees(Y, g, u) \subseteq sees(X, m, u)
    BY ONLY Planted(X), u \in Proc, <1>2, PrunedSees
<1> HIDE DEF Y
<1>7. Rooted(Y, u, r)
    BY <1>4, <1>6 DEF Rooted, Base
<1>8. Has(Y, u) = Has(X, u) \ V
    <2>1. Has(Y, u) \subseteq Vpn /\ Has(X, u) \subseteq Vpn
        BY DEF Has
    <2> QED
        BY <2>1, <1>3, <1>6
<1>9. \A v \in Vpn : \A f : v \notin V => (<<u, Path(v), f>> \in Y <=> <<u, Path(v), f>> \in X)
    BY <1>3, <1>6
<1> QED
    BY <1>2, <1>5, <1>6, <1>7, <1>8, <1>9

\* brk beyond the heap: the TLB forgets what the new pages translated to.
LEMMA BrkGrowSteps ==
    ASSUME NEW X, Consistent(X), ActiveInv, NEW u \in Proc, NEW d \in Dists, brkGrow(u, d)
    PROVE  Steps(X)
<1> DEFINE r == pdp[u]
           b == Brk[u]
           V == HeapPages(b, nbNewPages(b, d))
<1>1. phase[u] = "alive" /\ mmu.PML4 = r /\ d > b
    BY DEF brkGrow, Current
<1>2. /\ Planted(X) /\ Held(mem, X) /\ Rooted(X, u, r)
      /\ Has(X, u) = Program(b \div PageSize) /\ BreakIs(b, dist[u])
    BY <1>1, AliveIs
<1>3. /\ Room(mem, missing(mem, r, V \X {Junk})) /\ mem' = createMapping(mem, r, V \X {Junk})
      /\ mmu' = invlpg(mmu, V)
      /\ Brk' = [Brk EXCEPT ![u] = grown(b, d)] /\ dist' = [dist EXCEPT ![u] = d]
      /\ UNCHANGED <<pdp, phase>>
    BY DEF brkGrow, Consistent, Typed
<1>a. allocs' \in 0..MaxAllocs
    BY AllocsBounded DEF brkGrow
<1>4. /\ BreakIs(grown(b, d), d)
      /\ HeapPages(0, grown(b, d) \div PageSize) = HeapPages(0, b \div PageSize) \cup V
      /\ HeapPages(0, b \div PageSize) \cap V = {}
      /\ HeapPages(0, b \div PageSize) \subseteq Vpn \ StackPages
      /\ HeapPages(0, grown(b, d) \div PageSize) \subseteq Vpn \ StackPages
      /\ b \div PageSize \in Nat /\ grown(b, d) \div PageSize \in Nat
    <2>1. /\ BreakIs(grown(b, d), d)
          /\ HeapPages(0, grown(b, d) \div PageSize) = HeapPages(0, b \div PageSize) \cup V
          /\ HeapPages(0, b \div PageSize) \cap V = {}
        BY <1>1, <1>2, BreakGrows
    <2> HIDE DEF V
    <2> QED
        BY <2>1, <1>2, BreakPages
<1> HIDE DEF r, b, V
<1>5. V \subseteq UserPage /\ Program(grown(b, d) \div PageSize) = Program(b \div PageSize) \cup V
    <2>1. Program(grown(b, d) \div PageSize) \subseteq UserPage
        BY <1>4, ProgramPages
    <2> QED
        BY <2>1, <1>4 DEF Program
<1>6. \A v \in V : v \notin Has(X, u)
    <2>1. ProgramPage \notin StackPages \cup HeapPages(0, grown(b, d) \div PageSize)
        BY <1>4, ProgramPages
    <2> QED
        BY <2>1, <1>2, <1>4 DEF Program
<1>7. PICK Y : /\ Planted(Y) /\ Held(mem', Y) /\ Rooted(Y, u, r) /\ Has(Y, u) = Has(X, u) \cup V
               /\ \A p, f : <<u, p, f>> \in X => <<u, p, f>> \in Y
               /\ \A w \in Proc : \A p, f : w # u => (<<w, p, f>> \in Y <=> <<w, p, f>> \in X)
               /\ \A w \in Proc : w # u => sees(Y, mem', w) = sees(X, mem, w)
               /\ sees(X, mem, u) \subseteq sees(Y, mem', u)
               /\ \A x \in sees(Y, mem', u) \ sees(X, mem, u) :
                      x[2] = Junk /\ \A y \in sees(X, mem, u) : y[1] # x[1]
    <2>1. Planted(X) /\ Held(mem, X) /\ Rooted(X, u, r)
        BY <1>2
    <2>2. Room(mem, missing(mem, r, Blank(V))) /\ mem' = createMapping(mem, r, Blank(V))
        BY <1>3 DEF Blank
    <2>4. Lacks(X, u, V)
        BY <1>6 DEF Lacks
    <2>3. V \in SUBSET UserPage
        BY <1>5
    <2> QED
        BY ONLY u \in Proc, <2>1, <2>2, <2>3, <2>4, PagesAdded
<1>8. /\ phase' = phase /\ pdp' = pdp /\ phase'[u] = "alive" /\ pdp'[u] = r
      /\ Brk'[u] = grown(b, d) /\ dist'[u] = d
      /\ \A w \in Proc : w # u => /\ phase'[w] = phase[w] /\ pdp'[w] = pdp[w]
                                  /\ Brk'[w] = Brk[w] /\ dist'[w] = dist[w]
    BY <1>1, <1>3 DEF Consistent, Typed, r
<1>9. /\ Cached(X, mmu, pdp, phase) /\ mmu.TLB \in [Vpn -> Frame \cup {None}]
      /\ mmu'.PML4 = mmu.PML4
      /\ mmu'.TLB = [v \in Vpn |-> IF v \in V THEN None ELSE mmu.TLB[v]]
    BY <1>3 DEF Consistent, Typed, ActiveInv, Registers, invlpg
<1>10. Cached(Y, mmu', pdp', phase')
    <2>1. ASSUME NEW w \in Proc, NEW v \in Vpn, phase'[w] = "alive", pdp'[w] = mmu'.PML4,
                 v \in Has(Y, w), mmu'.TLB[v] # None
          PROVE  <<w, Path(v), mmu'.TLB[v]>> \in Y
        <3>1. v \notin V /\ mmu'.TLB[v] = mmu.TLB[v]
            BY <2>1, <1>9
        <3>2. v \in Has(X, w)
            <4>1. CASE w = u
                BY <4>1, <3>1, <2>1, <1>7
            <4>2. CASE w # u
                BY <4>2, <2>1, <1>7 DEF Has
            <4> QED
                BY <4>1, <4>2
        <3>3. <<w, Path(v), mmu.TLB[v]>> \in X
            BY <3>1, <3>2, <2>1, <1>8, <1>9 DEF Cached
        <3> QED
            BY <3>1, <3>3, <1>7
    <2> QED
        BY <2>1 DEF Cached
<1>11. Typed'
    <2>1. mmu'.TLB \in [Vpn -> Frame \cup {None}]
        BY <1>9
    <2>2. /\ pdp' = [w \in Proc |-> pdp'[w]] /\ phase' = [w \in Proc |-> phase'[w]]
          /\ Brk' = [w \in Proc |-> Brk'[w]] /\ dist' = [w \in Proc |-> dist'[w]]
        BY <1>3 DEF Consistent, Typed
    <2> QED
        BY <2>1, <2>2, <1>a DEF Typed
<1>12. ProcessIs(Y, u, phase'[u], pdp'[u], Brk'[u], dist'[u])
    BY <1>2, <1>4, <1>5, <1>7, <1>8 DEF ProcessIs
<1>13. Consistent(Y)'
    BY <1>7, <1>8, <1>10, <1>11, <1>12, OneChanges
<1>14. Changes(view(X, mem, phase), view(Y, mem', phase'))
    <2>1. \A w \in Proc : w # u => view(Y, mem', phase')[w] = view(X, mem, phase)[w]
        BY <1>7, <1>8, ViewOthers
    <2>2. view(Y, mem', phase')[u] = sees(Y, mem', u) /\ view(X, mem, phase)[u] = sees(X, mem, u)
        BY <1>1, <1>8, ViewAt
    <2>3. u \in Active
        BY <1>1 DEF Active, Current, r
    <2> DEFINE W == view(X, mem, phase)
           Z == view(Y, mem', phase')
    <2>4. W[u] \subseteq Z[u] /\ \A x \in Z[u] \ W[u] : x[2] = Junk /\ \A y \in W[u] : y[1] # x[1]
        BY <2>2, <1>7
    <2>5. \A w \in Proc : w # u => Z[w] = W[w]
        BY <2>1
    <2> HIDE DEF W, Z
    <2>6. Changes(W, Z)
        BY <2>4, <2>5, <2>3 DEF Changes
    <2> QED
        BY <2>6 DEF W, Z
<1> QED
    BY <1>13, <1>14 DEF Steps

\* brk below the heap: the TLB still translates the pages that are freed, but the program
\* has them no more.
LEMMA BrkShrinkSteps ==
    ASSUME NEW X, Consistent(X), ActiveInv, NEW u \in Proc, NEW d \in Dists, brkShrink(u, d)
    PROVE  Steps(X)
<1> DEFINE r == pdp[u]
           b == Brk[u]
           k == nbPages(b, d)
           c == b - k * PageSize
           V == HeapPages(c, k)
<1>1. phase[u] = "alive" /\ mmu.PML4 = r /\ d + PageSize < b
    BY DEF brkShrink, Current
<1>2. /\ Planted(X) /\ Held(mem, X) /\ Rooted(X, u, r)
      /\ Has(X, u) = Program(b \div PageSize) /\ BreakIs(b, dist[u])
    BY <1>1, AliveIs
<1>3. /\ mem' = freeMapping(mem, r, V)
      /\ Brk' = [Brk EXCEPT ![u] = c] /\ dist' = [dist EXCEPT ![u] = d]
      /\ UNCHANGED <<mmu, pdp, phase, allocs>>
    BY DEF brkShrink, Consistent, Typed
<1>4. /\ BreakIs(c, d)
      /\ HeapPages(0, b \div PageSize) = HeapPages(0, c \div PageSize) \cup V
      /\ HeapPages(0, c \div PageSize) \cap V = {}
      /\ V \subseteq Vpn \ StackPages
    BY <1>1, <1>2, BreakShrinks
<1>5. HeapPages(0, b \div PageSize) \subseteq Vpn \ StackPages /\ b \div PageSize \in Nat
    <2> HIDE DEF b
    <2> QED
        BY <1>2, BreakPages
<1> HIDE DEF r, b, k, c, V
<1>6. Has(X, u) \ V = Program(c \div PageSize)
    <2>1. ProgramPage \notin StackPages \cup HeapPages(0, b \div PageSize)
        BY <1>5, ProgramPages
    <2> QED
        BY <2>1, <1>2, <1>4 DEF Program
<1>7. PICK Y : /\ Planted(Y) /\ Held(mem', Y) /\ Rooted(Y, u, r) /\ Has(Y, u) = Has(X, u) \ V
               /\ \A v \in Vpn : \A f : v \notin V => (<<u, Path(v), f>> \in Y <=> <<u, Path(v), f>> \in X)
               /\ \A w \in Proc : \A p, f : w # u => (<<w, p, f>> \in Y <=> <<w, p, f>> \in X)
               /\ \A w \in Proc : w # u => sees(Y, mem', w) = sees(X, mem, w)
               /\ sees(Y, mem', u) \subseteq sees(X, mem, u)
    BY <1>2, <1>3, <1>4, PagesRemoved
<1>8. /\ phase' = phase /\ pdp' = pdp /\ phase'[u] = "alive" /\ pdp'[u] = r
      /\ Brk'[u] = c /\ dist'[u] = d
      /\ \A w \in Proc : w # u => /\ phase'[w] = phase[w] /\ pdp'[w] = pdp[w]
                                  /\ Brk'[w] = Brk[w] /\ dist'[w] = dist[w]
    BY <1>1, <1>3 DEF Consistent, Typed, r
<1>9. Cached(X, mmu, pdp, phase) /\ mmu' = mmu
    BY <1>3 DEF Consistent
<1>10. Cached(Y, mmu', pdp', phase')
    <2>1. ASSUME NEW w \in Proc, NEW v \in Vpn, phase'[w] = "alive", pdp'[w] = mmu'.PML4,
                 v \in Has(Y, w), mmu'.TLB[v] # None
          PROVE  <<w, Path(v), mmu'.TLB[v]>> \in Y
        <3>1. v \in Has(X, w) /\ (w = u => v \notin V)
            <4>1. CASE w = u
                BY <4>1, <2>1, <1>7
            <4>2. CASE w # u
                BY <4>2, <2>1, <1>7 DEF Has
            <4> QED
                BY <4>1, <4>2
        <3>2. <<w, Path(v), mmu.TLB[v]>> \in X
            BY <3>1, <2>1, <1>8, <1>9 DEF Cached
        <3> QED
            BY <3>1, <3>2, <1>7, <1>9
    <2> QED
        BY <2>1 DEF Cached
<1>11. Typed'
    BY <1>3 DEF Consistent, Typed
<1>12. ProcessIs(Y, u, phase'[u], pdp'[u], Brk'[u], dist'[u])
    BY <1>4, <1>6, <1>7, <1>8 DEF ProcessIs
<1>13. Consistent(Y)'
    BY <1>7, <1>8, <1>10, <1>11, <1>12, OneChanges
<1>14. Changes(view(X, mem, phase), view(Y, mem', phase'))
    <2>1. \A w \in Proc : w # u => view(Y, mem', phase')[w] = view(X, mem, phase)[w]
        BY <1>7, <1>8, ViewOthers
    <2>2. view(Y, mem', phase')[u] = sees(Y, mem', u) /\ view(X, mem, phase)[u] = sees(X, mem, u)
        BY <1>1, <1>8, ViewAt
    <2>3. u \in Active
        BY <1>1 DEF Active, Current, r
    <2> DEFINE W == view(X, mem, phase)
           Z == view(Y, mem', phase')
    <2>4. Z[u] \subseteq W[u]
        BY <2>2, <1>7
    <2>5. \A w \in Proc : w # u => Z[w] = W[w]
        BY <2>1
    <2> HIDE DEF W, Z
    <2>6. Changes(W, Z)
        BY <2>4, <2>5, <2>3 DEF Changes
    <2> QED
        BY <2>6 DEF W, Z
<1> QED
    BY <1>13, <1>14 DEF Steps

-----------------------------------------------------------------------------
(* The processor *)

\* The pages the tables map are those of X.
LEMMA MappedIs ==
    ASSUME NEW X, Planted(X), NEW m, Held(m, X), NEW u \in Proc, NEW r, <<u, PDP, r>> \in X
    PROVE  Mapped(tree(m, r)) = Has(X, u)
<1>1. tree(m, r) = TreeOf(X, u)
    BY TreeIs
<1>2. \A v \in Vpn : Path(v) \in nodes(TreeOf(X, u)) <=> \E f \in Frame : <<u, Path(v), f>> \in X
    BY PathOfPage, TreeParts
<1> QED
    BY <1>1, <1>2 DEF Mapped, Has

\* Where an access to a page that is mapped goes: the TLB never tells another frame.
LEMMA Translated ==
    ASSUME NEW X, Consistent(X), NEW u \in Proc, phase[u] = "alive", NEW v \in Has(X, u)
    PROVE  \A f : f \in Translate(u, v, tree(mem, pdp[u])) <=> f \in Frame /\ <<u, Path(v), f>> \in X
<1>1. Planted(X) /\ Held(mem, X) /\ <<u, PDP, pdp[u]>> \in X
    BY AliveIs DEF Rooted
<1>2. tree(mem, pdp[u]) = TreeOf(X, u)
    BY <1>1, TreeIs
<1>3. v \in Vpn /\ Path(v) \in Paths /\ depth(Path(v)) = 3
    BY PathOfPage DEF Has, depth
<1>4. \A f : f \in at(TreeOf(X, u), Path(v)) <=> f \in Frame /\ <<u, Path(v), f>> \in X
    <2>1. \A f : f \in at(TreeOf(X, u), Path(v)) <=> f \in Target /\ <<u, Path(v), f>> \in X
        BY <1>1, <1>3, TreeParts
    <2>2. <<u, Path(v), FirstPT>> \notin X
        BY <1>1, <1>3, Depths DEF Planted
    <2> QED
        BY <2>1, <2>2 DEF Target
<1>5. CASE mmu.PML4 = pdp[u] /\ mmu.TLB[v] # None
    <2>1. <<u, Path(v), mmu.TLB[v]>> \in X /\ mmu.TLB[v] \in Frame
        BY <1>3, <1>5 DEF Consistent, Cached, Typed
    <2>2. \A f \in Frame : <<u, Path(v), f>> \in X => f = mmu.TLB[v]
        BY <2>1, <1>1, <1>3 DEF Planted, Target
    <2>3. Translate(u, v, tree(mem, pdp[u])) = {mmu.TLB[v]}
        BY <1>5 DEF Translate
    <2> QED
        BY <2>1, <2>2, <2>3
<1>6. CASE ~(mmu.PML4 = pdp[u] /\ mmu.TLB[v] # None)
    BY <1>2, <1>4, <1>6 DEF Translate
<1> QED
    BY <1>5, <1>6

\* A write reaches the page of the process that writes, and no other.
LEMMA StoreSteps ==
    ASSUME NEW X, Consistent(X), ActiveInv, NEW u \in Proc, NEW v, NEW c \in Data, store(u, v, c),
           ~GivenBack(u, v)
    PROVE  Steps(X)
<1> DEFINE r == pdp[u]
<1>1. phase[u] = "alive" /\ mmu.PML4 = r /\ v \in Mapped(tree(mem, r))
    BY DEF store, Current, GivenBack
<1>2. /\ Planted(X) /\ Held(mem, X) /\ Rooted(X, u, r)
      /\ Has(X, u) = Program(Brk[u] \div PageSize) /\ BreakIs(Brk[u], dist[u])
    BY <1>1, AliveIs
<1>3. PICK f \in Translate(u, v, tree(mem, r)) :
          /\ mem' = IF held(mem, f) = {} THEN mem
                    ELSE [mem EXCEPT !.page = {x \in @ : x[1] # f} \cup {<<f, c>>}]
          /\ mmu' = [mmu EXCEPT !.TLB[v] = f]
    BY DEF store
<1>4. UNCHANGED <<pdp, phase, Brk, dist, allocs>>
    BY DEF store
<1>5. v \in Has(X, u)
    BY <1>1, <1>2, MappedIs DEF Rooted
<1>6. v \in Vpn /\ v \in UserPage /\ c \in Content
    <2>1. Program(Brk[u] \div PageSize) \subseteq UserPage
        <3>1. Brk[u] \div PageSize \in Nat /\ HeapPages(0, Brk[u] \div PageSize) \subseteq Vpn \ StackPages
            BY <1>2, BreakPages
        <3> QED
            BY <3>1, ProgramPages
    <2> QED
        BY <2>1, <1>2, <1>5 DEF Content, Has
<1>7. f \in Frame /\ <<u, Path(v), f>> \in X
    BY <1>1, <1>3, <1>5, Translated
<1>8. /\ Held(mem', X)
      /\ \A w \in Proc : w # u => sees(X, mem', w) = sees(X, mem, w)
      /\ sees(X, mem', u) = {x \in sees(X, mem, u) : x[1] # v} \cup {<<v, c>>}
    <2>1. PICK a \in Content : <<f, a>> \in mem.page
        BY <1>2, <1>6, <1>7, PathOfPage DEF Held, depth
    <2>2. <<f, a>>[1] = f /\ <<f, a>>[2] = a
        OBVIOUS
    <2>3. a \in held(mem, f)
        BY <2>1, <2>2 DEF held
    <2>4. mem' = [mem EXCEPT !.page = {x \in @ : x[1] # f} \cup {<<f, c>>}]
        BY <1>3, <2>3
    <2> QED
        BY <2>4, <1>2, <1>6, <1>7, Written
<1>9. /\ mmu'.PML4 = mmu.PML4 /\ mmu'.TLB = [mmu.TLB EXCEPT ![v] = f]
      /\ mmu.TLB \in [Vpn -> Frame \cup {None}] /\ Cached(X, mmu, pdp, phase)
    BY <1>3 DEF ActiveInv, Registers, Consistent, Typed
<1>10. Cached(X, mmu', pdp', phase')
    <2>1. ASSUME NEW w \in Proc, NEW z \in Vpn, phase[w] = "alive", pdp[w] = mmu.PML4,
                 z \in Has(X, w), mmu'.TLB[z] # None
          PROVE  <<w, Path(z), mmu'.TLB[z]>> \in X
        <3>1. w = u
            BY <2>1, <1>1, <1>2, AliveIs, RootsDiffer
        <3>2. CASE z = v
            BY <3>1, <3>2, <1>6, <1>7, <1>9
        <3>3. CASE z # v
            BY <3>3, <2>1, <1>9 DEF Cached
        <3> QED
            BY <3>2, <3>3
    <2>2. pdp' = pdp /\ phase' = phase
        BY <1>4
    <2> QED
        BY <2>1, <2>2, <1>9 DEF Cached
<1>11. Typed'
    <2>1. mmu'.TLB \in [Vpn -> Frame \cup {None}]
        BY <1>6, <1>7, <1>9
    <2> QED
        BY <2>1, <1>4 DEF Consistent, Typed
<1>12. Consistent(X)'
    <2>1. \A w \in Proc : ProcessIs(X, w, phase'[w], pdp'[w], Brk'[w], dist'[w])
        BY <1>4 DEF Consistent
    <2> QED
        BY <2>1, <1>2, <1>8, <1>10, <1>11 DEF Consistent
<1>13. Changes(view(X, mem, phase), view(X, mem', phase'))
    <2>1. \A w \in Proc : w # u => view(X, mem', phase')[w] = view(X, mem, phase)[w]
        BY <1>4, <1>8, ViewOthers
    <2>2. view(X, mem', phase')[u] = sees(X, mem', u) /\ view(X, mem, phase)[u] = sees(X, mem, u)
        BY <1>1, <1>4, ViewAt
    <2>3. \E y \in sees(X, mem, u) : y[1] = v
        <3>1. Path(v) \in Paths /\ depth(Path(v)) = 3
            BY <1>6, PathOfPage DEF depth
        <3>2. PICK a \in Content : <<f, a>> \in mem.page
            BY <3>1, <1>2, <1>7 DEF Held
        <3>3. <<v, a>> \in sees(X, mem, u)
            BY <3>2, <1>6, <1>7, Sees
        <3> QED
            BY <3>3
    <2>4. u \in Active
        BY <1>1 DEF Active, Current
    <2> QED
        BY <2>1, <2>2, <2>3, <2>4, <1>6, <1>8 DEF Changes
<1> QED
    BY <1>12, <1>13 DEF Steps

\* A write through a page that was given back changes the contents of a page, if
\* anything: the trees stay as they are.
LEMMA StrayStoreKeeps ==
    ASSUME NEW X, Consistent(X), ActiveInv, NEW u \in Proc, NEW v, NEW c \in Data,
           store(u, v, c), GivenBack(u, v)
    PROVE  Consistent(X)'
<1> DEFINE T == tree(mem, pdp[u])
<1>1. phase[u] = "alive" /\ mmu.PML4 = pdp[u] /\ v \notin Mapped(T) /\ c \in Content
    BY DEF store, Current, GivenBack, Content
<1>2. Planted(X) /\ Held(mem, X) /\ <<u, PDP, pdp[u]>> \in X
    BY <1>1, AliveIs DEF Rooted
<1>3. PICK f \in Translate(u, v, T) :
          /\ mem' = IF held(mem, f) = {} THEN mem
                    ELSE [mem EXCEPT !.page = {x \in @ : x[1] # f} \cup {<<f, c>>}]
          /\ mmu' = [mmu EXCEPT !.TLB[v] = f]
    BY DEF store
<1>4. UNCHANGED <<pdp, phase, Brk, dist, allocs>>
    BY DEF store
<1>5. /\ mmu'.PML4 = mmu.PML4 /\ mmu'.TLB = [mmu.TLB EXCEPT ![v] = f]
      /\ mmu.TLB \in [Vpn -> Frame \cup {None}] /\ Cached(X, mmu, pdp, phase)
    BY <1>3 DEF ActiveInv, Registers, Consistent, Typed
<1>6. T = TreeOf(X, u) /\ Mapped(T) = Has(X, u)
    BY <1>2, TreeIs, MappedIs
<1>7. mmu'.TLB = mmu.TLB
    <2>1. CASE v \notin Vpn
        BY <2>1, <1>5
    <2>2. CASE v \in Vpn /\ mmu.TLB[v] # None
        <3>1. f = mmu.TLB[v]
            BY <2>2, <1>1, <1>3 DEF Translate
        <3> QED
            BY <3>1, <1>5
    <2>3. CASE v \in Vpn /\ mmu.TLB[v] = None
        <3> HIDE DEF T
        <3>1. Path(v) \in Paths /\ depth(Path(v)) = 3
            BY <2>3, PathOfPage DEF depth
        <3>2. f \in at(TreeOf(X, u), Path(v))
            BY <2>3, <1>3, <1>6 DEF Translate
        <3>3. f \in Target /\ <<u, Path(v), f>> \in X
            BY <3>1, <3>2, <1>2, TreeParts
        <3>4. f # FirstPT
            BY <3>1, <3>3, <1>2, Depths DEF Planted
        <3>5. v \in Has(X, u)
            BY <3>3, <3>4, <2>3 DEF Has, Target
        <3> QED
            BY <3>5, <1>1, <1>6
    <2> QED
        BY <2>1, <2>2, <2>3
<1>8. Held(mem', X)
    <2>1. CASE held(mem, f) = {}
        BY <2>1, <1>2, <1>3
    <2>2. CASE held(mem, f) # {}
        <3>1. PICK x \in mem.page : x[1] = f
            BY <2>2 DEF held
        <3>2. f \in Frame /\ x = <<f, x[2]>> /\ x[2] \in Content
            BY <3>1, <1>2 DEF Held
        <3>a. <<f, x[2]>> \in mem.page
            BY <3>1, <3>2
        <3>3. PICK w \in Proc, q \in Paths : depth(q) = 3 /\ <<w, q, f>> \in X
            BY <3>2, <3>a, <1>2 DEF Held
        <3>4. mem' = [mem EXCEPT !.page = {y \in @ : y[1] # f} \cup {<<f, c>>}]
            BY <2>2, <1>3
        <3>5. Held([mem EXCEPT !.page = {y \in @ : y[1] # f} \cup {<<f, c>>}], X)
            BY <3>2, <3>3, <1>1, <1>2, Rewritten
        <3> QED
            BY <3>4, <3>5
    <2> QED
        BY <2>1, <2>2
<1>9. Typed' /\ Cached(X, mmu', pdp', phase')
    <2>1. Typed'
        BY <1>4, <1>5, <1>7 DEF Consistent, Typed
    <2>2. Cached(X, mmu', pdp', phase')
        BY <1>4, <1>5, <1>7 DEF Cached
    <2> QED
        BY <2>1, <2>2
<1>10. \A w \in Proc : ProcessIs(X, w, phase'[w], pdp'[w], Brk'[w], dist'[w])
    BY <1>4 DEF Consistent
<1> QED
    BY <1>2, <1>8, <1>9, <1>10 DEF Consistent

-----------------------------------------------------------------------------
(* The invariant *)

\* At the start no frame is a node.
LEMMA MemoryStarts ==
    ASSUME Init
    PROVE  ActiveInv /\ wild \in BOOLEAN /\ Consistent({})
<1>1. ActiveInv
    BY DEF Init, ActiveInv, ActiveAlive, Registers
<1>2. Planted({})
    BY DEF Planted
<1>3. Held(mem, {})
    BY DEF Init, Held
<1>4. Typed /\ Cached({}, mmu, pdp, phase)
    <2>1. mmu.TLB = NoTLB /\ allocs = 0 /\ 0 \in 0..MaxAllocs
        BY BoundsAssumption DEF Init
    <2>2. mmu.TLB \in [Vpn -> Frame \cup {None}] /\ Cached({}, mmu, pdp, phase)
        BY <2>1, Flushed
    <2>3. /\ pdp = [u \in Proc |-> pdp[u]] /\ phase = [u \in Proc |-> phase[u]]
          /\ Brk = [u \in Proc |-> Brk[u]] /\ dist = [u \in Proc |-> dist[u]]
        BY DEF Init
    <2> QED
        BY <2>1, <2>2, <2>3 DEF Typed
<1>5. ASSUME NEW u \in Proc PROVE ProcessIs({}, u, phase[u], pdp[u], Brk[u], dist[u])
    <2>1. phase[u] = "none" /\ pdp[u] = None /\ Brk[u] = 0 /\ dist[u] = 0
        BY DEF Init
    <2> QED
        BY <2>1, NoBreak DEF ProcessIs
<1>6. wild \in BOOLEAN
    BY DEF Init
<1> QED
    BY <1>1, <1>2, <1>3, <1>4, <1>5, <1>6 DEF Consistent

\* Every step leads from a state that some X describes to another, and but for the
\* writes through pages that were given back it is one of a process on its own pages.
LEMMA MemoryStep ==
    ASSUME NEW X, Consistent(X), ActiveInv, [Next]_vars
    PROVE  Steps(X) \/ (StrayStore /\ Consistent(X)')
<1>1. CASE start
    BY <1>1, StartSteps
<1>2. ASSUME NEW u \in Proc, NEW c \in Proc, fork(u, c) PROVE Steps(X)
    BY <1>2, ForkSteps
<1>3. ASSUME NEW u \in Proc, exec(u) \/ terminate(u) \/ destroy(u) \/ prepare(u) PROVE Steps(X)
    BY <1>3, ExecSteps, TerminateSteps, DestroySteps, PrepareSteps
<1>4. ASSUME NEW u \in Proc, NEW d \in Dists, brkGrow(u, d) \/ brkShrink(u, d) \/ brkSame(u, d)
      PROVE  Steps(X)
    BY <1>4, BrkGrowSteps, BrkShrinkSteps, BrkSameSteps
<1>5. ASSUME NEW u \in Proc, NEW v \in Stored, NEW c \in Data, store(u, v, c)
      PROVE  Steps(X) \/ (StrayStore /\ Consistent(X)')
    <2>1. CASE GivenBack(u, v)
        <3>1. StrayStore
            BY <1>5, <2>1 DEF StrayStore
        <3>2. Consistent(X)'
            BY <1>5, <2>1, StrayStoreKeeps
        <3> QED
            BY <3>1, <3>2
    <2>2. CASE ~GivenBack(u, v)
        BY <1>5, <2>2, StoreSteps
    <2> QED
        BY <2>1, <2>2
<1>6. CASE UNCHANGED vars
    <2>1. Consistent(X)'
        BY <1>6 DEF vars, Consistent, Typed
    <2>2. Changes(view(X, mem, phase), view(X, mem', phase'))
        BY <1>6, BoundsAssumption DEF vars, Changes
    <2> QED
        BY <2>1, <2>2 DEF Steps
<1> QED
    BY <1>1, <1>2, <1>3, <1>4, <1>5, <1>6 DEF Next

\* No step but a store touches wild.
LEMMA WildStep ==
    ASSUME wild \in BOOLEAN, [Next]_vars
    PROVE  wild' \in BOOLEAN
<1>1. CASE start
    BY <1>1 DEF start
<1>2. ASSUME NEW u \in Proc, NEW c \in Proc, fork(u, c) PROVE wild' \in BOOLEAN
    BY <1>2 DEF fork
<1>3. ASSUME NEW u \in Proc, exec(u) \/ terminate(u) \/ destroy(u) \/ prepare(u)
      PROVE  wild' \in BOOLEAN
    BY <1>3 DEF exec, terminate, destroy, prepare
<1>4. ASSUME NEW u \in Proc, NEW d \in Dists, brkGrow(u, d) \/ brkShrink(u, d) \/ brkSame(u, d)
      PROVE  wild' \in BOOLEAN
    BY <1>4 DEF brkGrow, brkShrink, brkSame
<1>5. ASSUME NEW u \in Proc, NEW v \in Stored, NEW c \in Data, store(u, v, c)
      PROVE  wild' \in BOOLEAN
    BY <1>5 DEF store
<1>6. CASE UNCHANGED vars
    BY <1>6 DEF vars
<1> QED
    BY <1>1, <1>2, <1>3, <1>4, <1>5, <1>6 DEF Next

\* The invariant is inductive.
LEMMA MemoryInductive == MemoryInv /\ [Next]_vars => MemoryInv'
<1> SUFFICES ASSUME MemoryInv, [Next]_vars PROVE MemoryInv'
    OBVIOUS
<1>1. PICK X : Consistent(X)
    BY DEF MemoryInv
<1>2. PICK Y : Consistent(Y)'
    BY <1>1, MemoryStep DEF MemoryInv, Steps
<1>3. ActiveInv'
    BY ActiveStep DEF MemoryInv
<1>4. wild' \in BOOLEAN
    BY WildStep DEF MemoryInv
<1> QED
    BY <1>2, <1>3, <1>4 DEF MemoryInv

-----------------------------------------------------------------------------
(* What the invariant says *)

\* The state has its type.
LEMMA ConsistentTyped ==
    ASSUME NEW X, Consistent(X), ActiveInv, wild \in BOOLEAN
    PROVE  TypeOK
<1>1. Planted(X) /\ Held(mem, X) /\ Typed /\ Registers(mmu) /\ ActiveAlive
    BY DEF Consistent, ActiveInv
<1>2. mem \in [free : SUBSET Frame,
               entry : SUBSET (Frame \X Idx \X (Frame \cup {FirstPT})),
               page : SUBSET (Frame \X Content)]
    <2>1. mem.free \in SUBSET Frame
        BY <1>1 DEF Held
    <2>2. mem.entry \in SUBSET (Frame \X Idx \X (Frame \cup {FirstPT}))
        BY <1>1 DEF Held, Target
    <2>3. mem.page \in SUBSET (Frame \X Content)
        BY <1>1 DEF Held
    <2>4. mem = [free |-> mem.free, entry |-> mem.entry, page |-> mem.page]
        BY <1>1 DEF Held
    <2> QED
        BY <2>1, <2>2, <2>3, <2>4
<1>3. ASSUME NEW u \in Proc
      PROVE  /\ pdp[u] \in Frame \cup {None} /\ phase[u] \in {"none", "alive", "zombie"}
             /\ phase[u] # "none" => pdp[u] \in Frame
             /\ Brk[u] \in {PageSize * n : n \in Vpn} /\ dist[u] \in Nat
    <2>1. ProcessIs(X, u, phase[u], pdp[u], Brk[u], dist[u])
        BY DEF Consistent
    <2>2. BreakIs(Brk[u], dist[u]) /\ phase[u] \in {"none", "alive", "zombie"}
        BY <2>1 DEF ProcessIs
    <2>3. Brk[u] \in {PageSize * n : n \in Vpn} /\ dist[u] \in Nat
        BY <2>2, BreakPages
    <2>4. (phase[u] # "none" => pdp[u] \in Frame) /\ (phase[u] = "none" => pdp[u] = None)
        BY <2>1 DEF ProcessIs, Rooted
    <2> QED
        BY <2>2, <2>3, <2>4
<1>4. mmu \in [PML4 : Frame \cup {DefaultPDP}, TLB : [Vpn -> Frame \cup {None}]]
    <2>1. mmu.PML4 \in Frame \cup {DefaultPDP}
        BY <1>1, <1>3 DEF ActiveAlive
    <2>2. mmu.TLB \in [Vpn -> Frame \cup {None}]
        BY <1>1 DEF Typed
    <2> QED
        BY <1>1, <2>1, <2>2 DEF Registers
<1>5. /\ pdp \in [Proc -> Frame \cup {None}]
      /\ phase \in [Proc -> {"none", "alive", "zombie"}]
    BY <1>1, <1>3 DEF Typed
<1>6. Brk \in [Proc -> {PageSize * n : n \in Vpn}]
    <2> DEFINE B == {PageSize * n : n \in Vpn}
    <2>1. \A u \in Proc : Brk[u] \in B
        BY <1>3
    <2> HIDE DEF B
    <2>2. Brk \in [Proc -> B]
        BY <2>1, <1>1 DEF Typed
    <2> QED
        BY <2>2 DEF B
<1>7. dist \in [Proc -> Nat] /\ allocs \in 0..MaxAllocs
    BY <1>1, <1>3 DEF Typed
<1> QED
    BY <1>2, <1>4, <1>5, <1>6, <1>7 DEF TypeOK

\* The nodes of the trees are those of X.
LEMMA OwnedIs ==
    ASSUME NEW X, Consistent(X)
    PROVE  {x \in Owned : x[3] \in Frame} = {x \in X : x[3] \in Frame}
<1>1. Planted(X) /\ Held(mem, X)
    BY DEF Consistent
<1>2. ASSUME NEW u \in Proc, NEW f \in Frame, NEW p
      PROVE  <<p, f>> \in tree(mem, pdp[u]) <=> <<u, p, f>> \in X
    <2>1. ProcessIs(X, u, phase[u], pdp[u], Brk[u], dist[u])
        BY DEF Consistent
    <2>2. CASE phase[u] = "none"
        <3>1. pdp[u] = None /\ \A q \in Paths, g \in Target : <<u, q, g>> \notin X
            BY <2>1, <2>2 DEF ProcessIs
        <3>2. <<u, p, f>> \notin X
            BY <3>1, <1>1 DEF Planted
        <3>3. tree(mem, None) = {<<PDP, None>>}
            BY <1>1, NoTree
        <3>4. f # None
            BY FramesAre
        <3> QED
            BY <3>1, <3>2, <3>3, <3>4
    <2>3. CASE phase[u] # "none"
        <3>1. <<u, PDP, pdp[u]>> \in X
            BY <2>1, <2>3 DEF ProcessIs, Rooted
        <3>2. tree(mem, pdp[u]) = TreeOf(X, u)
            BY <3>1, <1>1, TreeIs
        <3>3. <<p, f>> \in TreeOf(X, u) <=> p \in Paths /\ f \in Target /\ <<u, p, f>> \in X
            BY DEF TreeOf
        <3>4. <<u, p, f>> \in X => p \in Paths /\ f \in Target
            BY <1>1 DEF Planted
        <3> QED
            BY <3>2, <3>3, <3>4
    <2> QED
        BY <2>2, <2>3
<1>3. \A u \in Proc : \A x \in tree(mem, pdp[u]) : x = <<x[1], x[2]>>
    <2> TAKE u \in Proc
    <2>1. ProcessIs(X, u, phase[u], pdp[u], Brk[u], dist[u])
        BY DEF Consistent
    <2>2. CASE phase[u] = "none"
        BY <2>1, <2>2, <1>1, NoTree DEF ProcessIs
    <2>3. CASE phase[u] # "none"
        <3>1. <<u, PDP, pdp[u]>> \in X
            BY <2>1, <2>3 DEF ProcessIs, Rooted
        <3>2. tree(mem, pdp[u]) = TreeOf(X, u)
            BY <3>1, <1>1, TreeIs
        <3> QED
            BY <3>2 DEF TreeOf
    <2> QED
        BY <2>2, <2>3
<1>4. ASSUME NEW x \in Owned, x[3] \in Frame PROVE x \in X
    <2>1. PICK u \in Proc : \E y \in tree(mem, pdp[u]) : x = <<u, y[1], y[2]>>
        BY DEF Owned
    <2>2. PICK y \in tree(mem, pdp[u]) : x = <<u, y[1], y[2]>>
        BY <2>1
    <2>3. y = <<y[1], y[2]>> /\ y[2] \in Frame
        BY <2>2, <1>3, <1>4
    <2> QED
        BY <2>2, <2>3, <1>2
<1>5. ASSUME NEW x \in X, x[3] \in Frame PROVE x \in Owned
    <2>1. x = <<x[1], x[2], x[3]>> /\ x[1] \in Proc
        BY <1>1 DEF Planted
    <2>2. <<x[2], x[3]>> \in tree(mem, pdp[x[1]])
        BY <2>1, <1>2, <1>5
    <2> DEFINE y == <<x[2], x[3]>>
    <2>3. y[1] = x[2] /\ y[2] = x[3]
        OBVIOUS
    <2> HIDE DEF y
    <2>4. x \in {<<x[1], z[1], z[2]>> : z \in tree(mem, pdp[x[1]])}
        BY <2>1, <2>2, <2>3 DEF y
    <2> QED
        BY <2>1, <2>4 DEF Owned
<1> QED
    BY <1>4, <1>5

\* Each frame that is not free is one node of one tree.
LEMMA ConsistentOwned ==
    ASSUME NEW X, Consistent(X)
    PROVE  FramesOwned
<1> DEFINE refs == {x \in Owned : x[3] \in Frame}
           R == {x \in X : x[3] \in Frame}
           used == {x[3] : x \in R}
<1>1. Planted(X) /\ Held(mem, X)
    BY DEF Consistent
<1>2. refs = R
    BY OwnedIs
<1>3. \A x \in R : x = <<x[1], x[2], x[3]>> /\ x[1] \in Proc /\ x[2] \in Paths /\ x[3] \in Frame
    BY <1>1 DEF Planted
<1>4. \A x, y \in R : x[3] = y[3] => x = y
    <2> TAKE x, y \in R
    <2>1. <<x[1], x[2], x[3]>> \in X /\ <<y[1], y[2], y[3]>> \in X
        BY <1>3
    <2>2. x[3] = y[3] => x[1] = y[1] /\ x[2] = y[2]
        BY <2>1, <1>1, <1>3 DEF Planted
    <2> QED
        BY <2>2, <1>3
<1>5. used = Frame \ mem.free
    <2>1. ASSUME NEW f \in used PROVE f \in Frame \ mem.free
        <3>1. PICK x \in R : f = x[3]
            OBVIOUS
        <3>2. <<x[1], x[2], f>> \in X /\ f \in Frame /\ x[1] \in Proc /\ x[2] \in Paths
            BY <3>1, <1>3
        <3> QED
            BY <3>2, <1>1 DEF Held
    <2>2. ASSUME NEW f \in Frame, f \notin mem.free PROVE f \in used
        <3>1. PICK w \in Proc, p \in Paths : <<w, p, f>> \in X
            BY <2>2, <1>1 DEF Held
        <3>2. <<w, p, f>> \in R /\ <<w, p, f>>[3] = f
            BY <3>1
        <3> QED
            BY <3>2
    <2> HIDE DEF used
    <2> QED
        BY <2>1, <2>2
<1>6. IsFiniteSet(used)
    BY <1>5, FramesFinite, FS_Subset
<1>7. Cardinality(R) = Cardinality(used)
    <2> DEFINE h == [f \in used |-> CHOOSE x \in R : x[3] = f]
    <2>1. \A f \in used : h[f] \in R /\ h[f][3] = f
        <3> TAKE f \in used
        <3>1. \E x \in R : x[3] = f
            OBVIOUS
        <3> HIDE DEF used, R
        <3>2. (CHOOSE x \in R : x[3] = f) \in R /\ (CHOOSE x \in R : x[3] = f)[3] = f
            BY <3>1
        <3> QED
            BY <3>2
    <2>2. \A x \in R : x[3] \in used
        OBVIOUS
    <2> HIDE DEF used, R
    <2>3. h \in [used -> R]
        BY <2>1
    <2>4. \A f, g \in used : h[f] = h[g] => f = g
        BY <2>1
    <2>5. \A x \in R : \E f \in used : h[f] = x
        <3> TAKE x \in R
        <3>1. x[3] \in used /\ h[x[3]] = x
            BY <2>1, <2>2, <1>4
        <3> QED
            BY <3>1
    <2> HIDE DEF h
    <2>6. h \in Bijection(used, R)
        BY <2>3, <2>4, <2>5 DEF Bijection, Injection, Surjection, IsInjective
    <2>7. ExistsBijection(used, R)
        BY <2>6 DEF ExistsBijection
    <2> QED
        BY <2>7, <1>6, FS_Bijection
<1> QED
    BY <1>2, <1>5, <1>7 DEF FramesOwned

\* The first PD is there with the identity map in slot 0, and a zombie has no more.
LEMMA ConsistentShape ==
    ASSUME NEW X, Consistent(X)
    PROVE  ClassInvariant
<1>1. Planted(X) /\ Held(mem, X)
    BY DEF Consistent
<1> SUFFICES ASSUME NEW u \in Proc, phase[u] # "none"
             PROVE  LET T == tree(mem, pdp[u]) IN
                    /\ PD0 \in nodes(T)
                    /\ at(T, <<0, 0>>) = {FirstPT}
                    /\ phase[u] = "zombie" => nodes(T) = {PDP, PD0}
    BY DEF ClassInvariant
<1> DEFINE T == tree(mem, pdp[u])
<1>2. /\ Rooted(X, u, pdp[u]) /\ (phase[u] = "zombie" => Bare(X, u))
      /\ <<u, PDP, pdp[u]>> \in X /\ pdp[u] \in Frame
    BY DEF Consistent, ProcessIs, Rooted
<1>3. T = TreeOf(X, u)
    BY <1>1, <1>2, TreeIs
<1> HIDE DEF T
<1>4. /\ \A p : p \in nodes(T) <=> p \in Paths /\ \E f \in Frame : <<u, p, f>> \in X
      /\ \A p, f : f \in at(T, p) <=> p \in Paths /\ f \in Target /\ <<u, p, f>> \in X
    BY <1>1, <1>3, TreeParts
<1>5. PDP \in Paths /\ PD0 \in Paths /\ <<0, 0>> \in Paths /\ FirstPT \in Target /\ FirstPT \notin Frame
    BY Depths, FramesAre DEF Target
<1>6. \A f \in Target : <<u, <<0, 0>>, f>> \in X <=> f = FirstPT
    BY <1>1, <1>2, <1>5 DEF Rooted, Planted
<1>7. PDP \in nodes(T) /\ PD0 \in nodes(T)
    BY <1>2, <1>4, <1>5 DEF Rooted
<1>8. at(T, <<0, 0>>) = {FirstPT}
    BY <1>4, <1>5, <1>6
<1>9. ASSUME phase[u] = "zombie" PROVE nodes(T) = {PDP, PD0}
    <2>1. ASSUME NEW p \in nodes(T) PROVE p \in {PDP, PD0}
        <3>1. PICK f \in Frame : p \in Paths /\ <<u, p, f>> \in X
            BY <1>4
        <3>2. f \in Target
            BY DEF Target
        <3>3. p \in Base
            BY <3>1, <3>2, <1>2, <1>9 DEF Bare
        <3>4. p # <<0, 0>>
            BY <3>1, <3>2, <1>5, <1>6
        <3> QED
            BY <3>3, <3>4 DEF Base
    <2> QED
        BY <2>1, <1>7
<1> QED
    BY <1>7, <1>8, <1>9 DEF T

\* A program has its segment, its stack and its heap up to the break.
LEMMA ConsistentHeap ==
    ASSUME NEW X, Consistent(X)
    PROVE  HeapMapped
<1> SUFFICES ASSUME NEW u \in Proc, phase[u] = "alive"
             PROVE  /\ Mapped(tree(mem, pdp[u])) = {ProgramPage} \cup StackPages \cup HeapPages(0, Brk[u] \div PageSize)
                    /\ dist[u] <= Brk[u] /\ Brk[u] <= dist[u] + PageSize
    BY DEF HeapMapped
<1>1. /\ Planted(X) /\ Held(mem, X) /\ Rooted(X, u, pdp[u])
      /\ Has(X, u) = Program(Brk[u] \div PageSize) /\ BreakIs(Brk[u], dist[u])
    BY AliveIs
<1>2. Mapped(tree(mem, pdp[u])) = Has(X, u)
    BY <1>1, MappedIs DEF Rooted
<1>3. dist[u] <= Brk[u] /\ Brk[u] <= dist[u] + PageSize
    BY <1>1, BreakPages
<1> QED
    BY <1>1, <1>2, <1>3 DEF Program

-----------------------------------------------------------------------------
(* The address spaces *)

\* What X says of the state of AddressSpaces.
SpaceIs(X) ==
    /\ Space \subseteq Proc \X UserPage \X Content
    /\ \A u \in Proc, v \in UserPage, c \in Content :
           <<u, v, c>> \in Space <=> <<v, c>> \in view(X, mem, phase)[u]

\* The state of AddressSpaces is what the processes see.
LEMMA SpaceIsView == \A X : Consistent(X) => SpaceIs(X)
<1> SUFFICES ASSUME NEW X, Consistent(X) PROVE SpaceIs(X)
    OBVIOUS
<1>1. Held(mem, X)
    BY DEF Consistent
<1>2. ASSUME NEW f, NEW c PROVE c \in held(mem, f) <=> <<f, c>> \in mem.page
    <2>1. c \in held(mem, f) <=> \E x \in mem.page : x[1] = f /\ x[2] = c
        BY DEF held
    <2>2. \A x \in mem.page : x = <<x[1], x[2]>>
        BY <1>1 DEF Held
    <2> QED
        BY <2>1, <2>2
<1>3. ASSUME NEW u \in Proc, phase[u] = "alive", NEW x \in Seen(u)
      PROVE  x = <<x[1], x[2], x[3]>> /\ x[1] = u /\ <<x[2], x[3]>> \in sees(X, mem, u)
    <2> DEFINE T == tree(mem, pdp[u])
    <2>0. Planted(X) /\ Held(mem, X) /\ <<u, PDP, pdp[u]>> \in X
        BY <1>3, AliveIs DEF Rooted
    <2>1. Mapped(T) = Has(X, u)
        BY <2>0, MappedIs
    <2>2. PICK v \in Mapped(T) \cap UserPage :
              x \in {u} \X {v} \X UNION {held(mem, f) : f \in Translate(u, v, T)}
        BY DEF Seen
    <2>3. PICK f \in Translate(u, v, T) : x = <<u, v, x[3]>> /\ x[3] \in held(mem, f)
        BY <2>2
    <2>4. f \in Frame /\ <<u, Path(v), f>> \in X
        BY <2>1, <2>2, <2>3, <1>3, Translated
    <2> HIDE DEF T
    <2>5. <<f, x[3]>> \in mem.page
        BY <2>3, <1>2
    <2>6. x[3] \in Content
        BY <2>5, <1>1 DEF Held
    <2>7. <<v, x[3]>> \in sees(X, mem, u)
        BY <2>2, <2>4, <2>5, <2>6, Sees
    <2>8. x[1] = u /\ x[2] = v
        BY <2>3
    <2> QED
        BY <2>3, <2>7, <2>8
<1>4. ASSUME NEW u \in Proc, phase[u] = "alive", NEW v \in UserPage, NEW c \in Content,
             <<v, c>> \in sees(X, mem, u)
      PROVE  <<u, v, c>> \in Seen(u)
    <2> DEFINE T == tree(mem, pdp[u])
    <2>0. Planted(X) /\ Held(mem, X) /\ <<u, PDP, pdp[u]>> \in X
        BY <1>4, AliveIs DEF Rooted
    <2>1. Mapped(T) = Has(X, u)
        BY <2>0, MappedIs
    <2>2. PICK f \in Frame : <<u, Path(v), f>> \in X /\ <<f, c>> \in mem.page
        BY <1>4, Sees
    <2>3. v \in Has(X, u)
        BY <2>2, UserPages DEF Has
    <2>4. f \in Translate(u, v, T)
        BY <2>2, <2>3, <1>4, Translated
    <2> HIDE DEF T
    <2>5. c \in UNION {held(mem, g) : g \in Translate(u, v, T)}
        BY <2>2, <2>4, <1>2
    <2>6. <<u, v, c>> \in {u} \X {v} \X UNION {held(mem, g) : g \in Translate(u, v, T)}
        BY <2>5
    <2>7. v \in Mapped(T) \cap UserPage
        BY <2>1, <2>3
    <2> QED
        BY <2>6, <2>7 DEF Seen, T
<1>5. ASSUME NEW x \in Space
      PROVE  /\ x = <<x[1], x[2], x[3]>> /\ x[1] \in Proc /\ phase[x[1]] = "alive"
             /\ <<x[2], x[3]>> \in sees(X, mem, x[1])
    <2>1. PICK u \in {w \in Proc : phase[w] = "alive"} : x \in Seen(u)
        BY DEF Space
    <2> QED
        BY <2>1, <1>3
<1>6. Space \subseteq Proc \X UserPage \X Content
    <2> SUFFICES ASSUME NEW x \in Space PROVE x \in Proc \X UserPage \X Content
        OBVIOUS
    <2>1. <<x[2], x[3]>> \in UserPage \X Content
        BY <1>5, Sees
    <2>2. x[2] \in UserPage /\ x[3] \in Content
        BY <2>1
    <2>3. x = <<x[1], x[2], x[3]>> /\ x[1] \in Proc
        BY <1>5
    <2>4. <<x[1], x[2], x[3]>> \in Proc \X UserPage \X Content
        BY <2>2, <2>3
    <2> QED
        BY <2>3, <2>4
<1>7. ASSUME NEW u \in Proc, NEW v \in UserPage, NEW c \in Content
      PROVE  <<u, v, c>> \in Space <=> <<v, c>> \in view(X, mem, phase)[u]
    <2>1. CASE phase[u] = "alive"
        <3>1. view(X, mem, phase)[u] = sees(X, mem, u)
            BY <2>1, ViewAt
        <3>2. ASSUME <<u, v, c>> \in Space PROVE <<v, c>> \in sees(X, mem, u)
            <4> DEFINE x == <<u, v, c>>
            <4>1. x[1] = u /\ x[2] = v /\ x[3] = c
                OBVIOUS
            <4> HIDE DEF x
            <4>2. <<x[2], x[3]>> \in sees(X, mem, x[1])
                BY <3>2, <1>5 DEF x
            <4> QED
                BY <4>1, <4>2
        <3>3. ASSUME <<v, c>> \in sees(X, mem, u) PROVE <<u, v, c>> \in Space
            BY <2>1, <3>3, <1>4 DEF Space
        <3> QED
            BY <3>1, <3>2, <3>3
    <2>2. CASE phase[u] # "alive"
        <3>1. view(X, mem, phase)[u] = {}
            BY <2>2, ViewAt
        <3>2. <<u, v, c>> \notin Space
            <4> DEFINE x == <<u, v, c>>
            <4>1. x[1] = u
                OBVIOUS
            <4> HIDE DEF x
            <4>2. x \in Space => phase[x[1]] = "alive"
                BY <1>5
            <4> QED
                BY <4>1, <4>2, <2>2 DEF x
        <3> QED
            BY <3>1, <3>2
    <2> QED
        BY <2>1, <2>2
<1> QED
    BY <1>6, <1>7 DEF SpaceIs

\* The space s is that of the views W.
Shows(s, W) ==
    /\ s \subseteq Proc \X UserPage \X Content
    /\ \A u \in Proc : W[u] \subseteq UserPage \X Content
    /\ \A u \in Proc, v \in UserPage, c \in Content : <<u, v, c>> \in s <=> <<v, c>> \in W[u]

\* The part of a process in the state of AddressSpaces.
LEMMA ShownOf ==
    ASSUME NEW s, NEW W, Shows(s, W), NEW u \in Proc
    PROVE  Spaces!Of(s, u) = W[u]
<1>1. \A x \in s : x = <<x[1], x[2], x[3]>> /\ x[2] \in UserPage /\ x[3] \in Content
    BY DEF Shows
<1>2. ASSUME NEW e \in Spaces!Of(s, u) PROVE e \in W[u]
    <2>1. PICK x \in s : x[1] = u /\ e = <<x[2], x[3]>>
        BY DEF Spaces!Of
    <2>2. <<u, x[2], x[3]>> \in s /\ x[2] \in UserPage /\ x[3] \in Content
        BY <2>1, <1>1
    <2> QED
        BY <2>1, <2>2 DEF Shows
<1>3. ASSUME NEW e \in W[u] PROVE e \in Spaces!Of(s, u)
    <2>1. e = <<e[1], e[2]>> /\ e[1] \in UserPage /\ e[2] \in Content
        BY DEF Shows
    <2> DEFINE x == <<u, e[1], e[2]>>
    <2>2. x \in s
        BY <2>1 DEF Shows
    <2>3. x[1] = u /\ x[2] = e[1] /\ x[3] = e[2]
        OBVIOUS
    <2> HIDE DEF x
    <2> QED
        BY <2>1, <2>2, <2>3 DEF Spaces!Of
<1> QED
    BY <1>2, <1>3

\* What a step does to the views is a step of AddressSpaces.
LEMMA ChangesAre ==
    ASSUME NEW s, NEW W, Shows(s, W), NEW t, NEW Z, Shows(t, Z), Changes(W, Z)
    PROVE  \E u \in Proc :
               /\ {x \in s : x[1] # u} = {x \in t : x[1] # u}
               /\ LET old == Spaces!Of(s, u)
                      new == Spaces!Of(t, u)
                  IN  \/ new = old
                      \/ Spaces!Fork(s, old, new) \/ (old = {} /\ Spaces!Load(new))
                      \/ u \in Active /\ (Spaces!Grow(old, new) \/ Spaces!Shrink(old, new)
                                          \/ Spaces!Load(new) \/ Spaces!Store(old, new))
<1>1. PICK u \in Proc :
        /\ \A w \in Proc : w # u => Z[w] = W[w]
        /\ \/ Z[u] = W[u]
           \/ W[u] = {} /\ \E w \in Active : Z[u] = W[w]
           \/ W[u] = {} /\ \A x \in Z[u] : x[2] \in {Image, Junk}
           \/ u \in Active /\ W[u] \subseteq Z[u]
                /\ \A x \in Z[u] \ W[u] : x[2] = Junk /\ \A y \in W[u] : y[1] # x[1]
           \/ u \in Active /\ Z[u] \subseteq W[u]
           \/ u \in Active /\ \A x \in Z[u] : x[2] \in {Image, Junk}
           \/ u \in Active /\ \E v \in UserPage, c \in Content :
                  /\ \E y \in W[u] : y[1] = v
                  /\ Z[u] = {x \in W[u] : x[1] # v} \cup {<<v, c>>}
    BY DEF Changes
<1>2. \A w \in Proc : Spaces!Of(s, w) = W[w] /\ Spaces!Of(t, w) = Z[w]
    BY ShownOf
<1>3. {x \in s : x[1] # u} = {x \in t : x[1] # u}
    <2>1. \A x : x \in s \/ x \in t =>
              /\ x = <<x[1], x[2], x[3]>> /\ x[1] \in Proc /\ x[2] \in UserPage /\ x[3] \in Content
        BY DEF Shows
    <2>2. ASSUME NEW w \in Proc, w # u, NEW v \in UserPage, NEW c \in Content
          PROVE  <<w, v, c>> \in s <=> <<w, v, c>> \in t
        BY <2>2, <1>1 DEF Shows
    <2>3. \A x : x \in s /\ x[1] # u <=> x \in t /\ x[1] # u
        BY <2>1, <2>2
    <2> QED
        BY <2>3
<1>4. \A x \in Z[u] : x = <<x[1], x[2]>> /\ x[1] \in UserPage /\ x[2] \in Content
    BY DEF Shows
<1>5. CASE W[u] = {} /\ \E w \in Active : Z[u] = W[w]
    <2>1. Active \subseteq Proc
        BY DEF Active
    <2>2. Spaces!Fork(s, W[u], Z[u])
        BY <2>1, <1>2, <1>5 DEF Spaces!Fork
    <2> QED
        BY <1>2, <1>3, <2>2
<1>6. CASE u \in Active /\ W[u] \subseteq Z[u]
           /\ \A x \in Z[u] \ W[u] : x[2] = Junk /\ \A y \in W[u] : y[1] # x[1]
    <2>1. ASSUME NEW x \in Z[u] \ W[u] PROVE x \in (UserPage \ Spaces!Pages(W[u])) \X {Junk}
        <3>1. x[1] \notin Spaces!Pages(W[u])
            BY <1>6 DEF Spaces!Pages
        <3>2. x = <<x[1], x[2]>> /\ x[1] \in UserPage /\ x[2] = Junk
            BY <1>4, <1>6
        <3> QED
            BY <3>1, <3>2
    <2>2. Spaces!Grow(W[u], Z[u])
        BY <2>1, <1>6 DEF Spaces!Grow
    <2> QED
        BY <1>2, <1>3, <1>6, <2>2
<1>7. CASE u \in Active /\ Z[u] \subseteq W[u]
    <2>1. Spaces!Shrink(W[u], Z[u])
        BY <1>7 DEF Spaces!Shrink
    <2> QED
        BY <1>2, <1>3, <1>7, <2>1
<1>8. CASE (W[u] = {} \/ u \in Active) /\ \A x \in Z[u] : x[2] \in {Image, Junk}
    <2>1. ASSUME NEW x \in Z[u] PROVE x \in UserPage \X {Image, Junk}
        <3>1. x = <<x[1], x[2]>> /\ x[1] \in UserPage /\ x[2] \in {Image, Junk}
            BY <1>4, <1>8
        <3> QED
            BY <3>1
    <2>2. Spaces!Load(Z[u])
        BY <2>1 DEF Spaces!Load
    <2> QED
        BY <1>2, <1>3, <1>8, <2>2
<1>9. CASE u \in Active /\ \E v \in UserPage, c \in Content :
               /\ \E y \in W[u] : y[1] = v
               /\ Z[u] = {x \in W[u] : x[1] # v} \cup {<<v, c>>}
    <2>1. PICK v \in UserPage, c \in Content :
              /\ \E y \in W[u] : y[1] = v
              /\ Z[u] = {x \in W[u] : x[1] # v} \cup {<<v, c>>}
        BY <1>9
    <2>2. v \in Spaces!Pages(W[u])
        BY <2>1 DEF Spaces!Pages
    <2>3. Z[u] = Spaces!Except(W[u], v) \cup {<<v, c>>}
        BY <2>1 DEF Spaces!Except
    <2>4. Spaces!Store(W[u], Z[u])
        BY <2>2, <2>3 DEF Spaces!Store
    <2> QED
        BY <1>2, <1>3, <1>9, <2>4
<1>10. CASE Z[u] = W[u]
    BY <1>2, <1>3, <1>10
<1> QED
    BY <1>1, <1>5, <1>6, <1>7, <1>8, <1>9, <1>10

\* A state of AddressSpaces and the views it shows.
LEMMA SpaceShows ==
    ASSUME NEW X, SpaceIs(X)
    PROVE  Shows(Space, view(X, mem, phase))
<1>1. ASSUME NEW u \in Proc PROVE view(X, mem, phase)[u] \subseteq UserPage \X Content
    <2>1. view(X, mem, phase)[u] = sees(X, mem, u) \/ view(X, mem, phase)[u] = {}
        BY ViewAt
    <2> QED
        BY <2>1, Sees
<1> QED
    BY <1>1 DEF SpaceIs, Shows

\* The same, of the next state.
LEMMA SpaceIsViewNext == \A X : Consistent(X)' => SpaceIs(X)'
<1>1. (\A X : Consistent(X) => SpaceIs(X))'
    BY SpaceIsView, PTL
<1> QED
    BY <1>1

\* Each step is one of AddressSpaces, or a write through a page that was given back.
LEMMA SpaceStep ==
    ASSUME MemoryInv, [Next]_vars, ~StrayStore
    PROVE  Spaces!Next
<1>1. PICK X : Consistent(X) /\ Steps(X)
    BY MemoryStep DEF MemoryInv
<1>2. PICK Y : Consistent(Y)' /\ Changes(view(X, mem, phase), view(Y, mem', phase'))
    BY <1>1 DEF Steps
<1>3. Shows(Space, view(X, mem, phase))
    BY <1>1, SpaceIsView, SpaceShows
<1>4. Shows(Space', view(Y, mem', phase'))
    <2>1. SpaceIs(Y)'
        BY <1>2, SpaceIsViewNext
    <2>2. ASSUME NEW u \in Proc PROVE view(Y, mem', phase')[u] \subseteq UserPage \X Content
        <3>1. view(Y, mem', phase')[u] = sees(Y, mem', u) \/ view(Y, mem', phase')[u] = {}
            BY ViewAt
        <3> QED
            BY <3>1, Sees
    <2> QED
        BY <2>1, <2>2 DEF SpaceIs, Shows
<1>5. \E u \in Proc :
          /\ {x \in Space : x[1] # u} = {x \in Space' : x[1] # u}
          /\ LET old == Spaces!Of(Space, u)
                 new == Spaces!Of(Space', u)
             IN  \/ new = old
                 \/ Spaces!Fork(Space, old, new) \/ (old = {} /\ Spaces!Load(new))
                 \/ u \in Active /\ (Spaces!Grow(old, new) \/ Spaces!Shrink(old, new)
                                     \/ Spaces!Load(new) \/ Spaces!Store(old, new))
    BY <1>2, <1>3, <1>4, ChangesAre
<1> QED
    BY <1>5 DEF Spaces!Next

-----------------------------------------------------------------------------
\* The invariant holds in every state.
LEMMA MemoryInvariant == MCSpec => []MemoryInv
<1>1. MCInit => MemoryInv
    BY MemoryStarts DEF MCInit, MemoryInv
<1>2. MemoryInv /\ [MCNext]_<<machine, vars, kernelVars>> => MemoryInv'
    <2>1. [MCNext]_<<machine, vars, kernelVars>> => [Next]_vars
        BY DEF MCNext
    <2> QED
        BY <2>1, MemoryInductive
<1> QED
    BY <1>1, <1>2, PTL DEF MCSpec

\* Every frame that PhysicalMemoryAllocator has given out is one table or page of one
\* process, and every other is free: through fork, exec, brk, exit and wait no frame
\* leaks, is freed twice or is shared, and what is left of a memory is what its
\* destructor expects.
THEOREM FramesAreOwned == MCSpec => []MemInv
<1>1. MemoryInv => MemInv
    BY ConsistentTyped, ConsistentOwned, ConsistentShape DEF MemoryInv, MemInv
<1> QED
    BY <1>1, MemoryInvariant, PTL

\* Whatever breaks a program and the processes it comes from have asked brk for, it has
\* its segment, its stack and the pages of its heap up to its break, and no others.
THEOREM HeapStaysMapped == MCSpec => []HeapMapped
<1>1. MemoryInv => HeapMapped
    BY ConsistentHeap DEF MemoryInv
<1> QED
    BY <1>1, MemoryInvariant, PTL

\* Processes are isolated: each step of the user memories is, through the page tables
\* and the TLB, a step of the running process on its own pages in AddressSpaces, or
\* the making of a new one.  The writes through pages that the program has given back
\* with brk, which freeMapping leaves in the TLB, are the one exception, and what they
\* change is isolated again from then on.
THEOREM ProcessesAreIsolated == MCSpec => ImplementsAddressSpaces
<1>1. MCInit => Spaces!Init
    <2> SUFFICES ASSUME MCInit PROVE Space = {} /\ Active = {}
        BY DEF Spaces!Init
    <2>1. \A w \in Proc : phase[w] # "alive"
        BY DEF MCInit, Init
    <2> QED
        BY <2>1 DEF Space, Active, Current
<1>2. MemoryInv /\ [MCNext]_<<machine, vars, kernelVars>> => [Spaces!Next \/ StrayStore]_<<Space, Active>>
    <2>1. [MCNext]_<<machine, vars, kernelVars>> => [Next]_vars
        BY DEF MCNext
    <2> QED
        BY <2>1, SpaceStep
<1> QED
    BY <1>1, <1>2, MemoryInvariant, PTL DEF MCSpec, ImplementsAddressSpaces

\* Through fork, exec, exit, wait and every switch, PML4 holds the PDP of a living
\* process or the default one: terminate and ~UserMemory never free tables that the
\* processor still walks.
THEOREM ActiveStaysAlive == MCSpec => []ActiveAlive
<1>1. MCInit => ActiveInv
    BY DEF MCInit, Init, ActiveInv, ActiveAlive, Registers
<1>2. ActiveInv /\ [MCNext]_<<machine, vars, kernelVars>> => ActiveInv'
    <2>1. [MCNext]_<<machine, vars, kernelVars>> => [Next]_vars
        BY DEF MCNext
    <2> QED
        BY <2>1, ActiveStep
<1>3. ActiveInv => ActiveAlive
    BY DEF ActiveInv
<1> QED
    BY <1>1, <1>2, <1>3, PTL DEF MCSpec

-----------------------------------------------------------------------------
(***************************************************************************)
(* The kernel's memory.  What FramesProofs proves of Frames, for the       *)
(* variables of MCMemory: Kernel and KernelProofs are two instances of one *)
(* text, and every operator of the one is that of the other.               *)
(***************************************************************************)
KernelProofs == INSTANCE FramesProofs WITH
    mem <- kmem, mmu <- kmmu, Fan <- KernelFan, NbFrames <- KernelFrames

\* The sets, the places and the states of the two are the same.
LEMMA SamePlaces ==
    /\ Kernel!Frame = KernelProofs!Frame
    /\ Kernel!None = KernelProofs!None
    /\ Kernel!KernelPDP = KernelProofs!KernelPDP
    /\ Kernel!Page = KernelProofs!Page
    /\ Kernel!BufferPage = KernelProofs!BufferPage
    /\ Kernel!KernelPages = KernelProofs!KernelPages
    /\ Kernel!FontFrame = KernelProofs!FontFrame
    /\ Kernel!tmpPDP = KernelProofs!tmpPDP
    /\ Kernel!tmpPD = KernelProofs!tmpPD
    /\ Kernel!tmpPT = KernelProofs!tmpPT
    /\ Kernel!Windows = KernelProofs!Windows
    /\ Kernel!St = KernelProofs!St
    /\ Kernel!Booted = KernelProofs!Booted
    /\ \A s : Kernel!SlotPage(s) = KernelProofs!SlotPage(s)
BY DEF Kernel!Frame, KernelProofs!Frame, Kernel!None, KernelProofs!None,
   Kernel!KernelPDP, KernelProofs!KernelPDP, Kernel!Page, KernelProofs!Page,
   Kernel!BufferPage, KernelProofs!BufferPage, Kernel!KernelPages,
   KernelProofs!KernelPages, Kernel!FontFrame, KernelProofs!FontFrame, Kernel!tmpPDP,
   KernelProofs!tmpPDP, Kernel!tmpPD, KernelProofs!tmpPD, Kernel!tmpPT,
   KernelProofs!tmpPT, Kernel!Windows, KernelProofs!Windows, Kernel!St, KernelProofs!St,
   Kernel!Booted, KernelProofs!Booted, Kernel!base, KernelProofs!base, Kernel!SlotPage,
   KernelProofs!SlotPage, Kernel!Min, KernelProofs!Min

\* The bitsets and the PhysicalMemoryAllocator of the two are the same.
LEMMA SameFrames ==
    /\ \A B : Kernel!bsf(B) = KernelProofs!bsf(B)
    /\ \A B : Kernel!largeBsf(B) = KernelProofs!largeBsf(B)
    /\ \A m : Kernel!alloc(m) = KernelProofs!alloc(m)
    /\ \A m, f : Kernel!free(m, f) = KernelProofs!free(m, f)
    /\ \A m : Kernel!alloc2M(m) = KernelProofs!alloc2M(m)
    /\ \A i, len : Kernel!Covered(i, len) = KernelProofs!Covered(i, len)
<1>1. \A B : Kernel!bsf(B) = KernelProofs!bsf(B)
    BY Zenon DEF Kernel!bsf, KernelProofs!bsf, Kernel!None, KernelProofs!None,
       Kernel!Min, KernelProofs!Min
<1>2. \A B : Kernel!largeBsf(B) = KernelProofs!largeBsf(B)
    BY SamePlaces DEF Kernel!largeBsf, KernelProofs!largeBsf, Kernel!Min,
       KernelProofs!Min
<1>3. \A m : Kernel!alloc(m) = KernelProofs!alloc(m)
    BY Zenon DEF Kernel!alloc, KernelProofs!alloc, Kernel!bsf, KernelProofs!bsf,
       Kernel!None, KernelProofs!None, Kernel!Min, KernelProofs!Min
<1>4. \A m, f : Kernel!free(m, f) = KernelProofs!free(m, f)
    BY Zenon DEF Kernel!free, KernelProofs!free
<1>5. \A m : Kernel!alloc2M(m) = KernelProofs!alloc2M(m)
    BY Zenon DEF Kernel!alloc2M, KernelProofs!alloc2M, Kernel!AlignUp,
       KernelProofs!AlignUp, Kernel!usr, KernelProofs!usr, Kernel!Frame,
       KernelProofs!Frame, Kernel!None, KernelProofs!None, Kernel!Max, KernelProofs!Max
<1>6. \A i, len : Kernel!Covered(i, len) = KernelProofs!Covered(i, len)
    BY Zenon DEF Kernel!Covered, KernelProofs!Covered
<1> QED
    BY <1>1, <1>2, <1>3, <1>4, <1>5, <1>6

\* So are the TLB, the windows and what is read and written through them.
LEMMA SameWindows ==
    /\ \A v, w : Kernel!invlpg(v, w) = KernelProofs!invlpg(v, w)
    /\ \A v, w, f : Kernel!act(v, w, f) = KernelProofs!act(v, w, f)
    /\ \A v, w : Kernel!freeTmp(v, w) = KernelProofs!freeTmp(v, w)
    /\ \A v, w : Kernel!Seen(v, w) = KernelProofs!Seen(v, w)
    /\ \A v, w : Kernel!Cached(v, w) = KernelProofs!Cached(v, w)
    /\ \A v, w, i : Kernel!Present(v, w, i) = KernelProofs!Present(v, w, i)
    /\ \A v, w, i : Kernel!Entry(v, w, i) = KernelProofs!Entry(v, w, i)
    /\ \A v, w, i, f : Kernel!Write(v, w, i, f) = KernelProofs!Write(v, w, i, f)
    /\ \A v, w : Kernel!Clear(v, w) = KernelProofs!Clear(v, w)
    /\ \A v, w, i : Kernel!Erase(v, w, i) = KernelProofs!Erase(v, w, i)
<1>1. \A v, w : Kernel!invlpg(v, w) = KernelProofs!invlpg(v, w)
    BY Zenon DEF Kernel!invlpg, KernelProofs!invlpg
<1>2. \A v, w, f : Kernel!act(v, w, f) = KernelProofs!act(v, w, f)
    BY Zenon DEF Kernel!act, KernelProofs!act, Kernel!invlpg, KernelProofs!invlpg,
       Kernel!None, KernelProofs!None
<1>3. \A v, w : Kernel!freeTmp(v, w) = KernelProofs!freeTmp(v, w)
    BY Zenon DEF Kernel!freeTmp, KernelProofs!freeTmp, Kernel!invlpg,
       KernelProofs!invlpg, Kernel!None, KernelProofs!None
<1>4. \A v, w : Kernel!Seen(v, w) = KernelProofs!Seen(v, w)
    BY Zenon DEF Kernel!Seen, KernelProofs!Seen
<1>5. \A v, w : Kernel!Cached(v, w) = KernelProofs!Cached(v, w)
    BY Zenon DEF Kernel!Cached, KernelProofs!Cached, Kernel!Seen, KernelProofs!Seen
<1>6. \A v, w, i : Kernel!Present(v, w, i) = KernelProofs!Present(v, w, i)
    BY Zenon DEF Kernel!Present, KernelProofs!Present, Kernel!Seen, KernelProofs!Seen
<1>7. \A v, w, i : Kernel!Entry(v, w, i) = KernelProofs!Entry(v, w, i)
    BY Zenon DEF Kernel!Entry, KernelProofs!Entry, Kernel!Seen, KernelProofs!Seen
<1>8. \A v, w, i, f : Kernel!Write(v, w, i, f) = KernelProofs!Write(v, w, i, f)
    BY <1>4, <1>5 DEF Kernel!Write, KernelProofs!Write
<1>9. \A v, w : Kernel!Clear(v, w) = KernelProofs!Clear(v, w)
    BY <1>4, <1>5 DEF Kernel!Clear, KernelProofs!Clear
<1>10. \A v, w, i : Kernel!Erase(v, w, i) = KernelProofs!Erase(v, w, i)
    <2> DEFINE E(c, s, i) == [c EXCEPT !.mem.tab = [x \in DOMAIN @ \ {<<s, i>>} |-> @[x]],
                                       !.mem.large = @ \ {<<s, i>>}]
    <2>1. \A v, w, i : Kernel!Erase(v, w, i) = E(Kernel!Cached(v, w), Kernel!Seen(v, w), i)
        BY Zenon DEF Kernel!Erase
    <2>2. \A v, w, i : KernelProofs!Erase(v, w, i)
                           = E(KernelProofs!Cached(v, w), KernelProofs!Seen(v, w), i)
        BY Zenon DEF KernelProofs!Erase
    <2> HIDE DEF E
    <2> QED
        BY <2>1, <2>2, <1>4, <1>5
<1> QED
    BY <1>1, <1>2, <1>3, <1>4, <1>5, <1>6, <1>7, <1>8, <1>9, <1>10

\* So are the calls of Paging, and the walk of the processor.
LEMMA SamePaging ==
    /\ \A a : Kernel!PDPindex(a) = KernelProofs!PDPindex(a)
    /\ \A a : Kernel!PDindex(a) = KernelProofs!PDindex(a)
    /\ \A a : Kernel!PTindex(a) = KernelProofs!PTindex(a)
    /\ \A v, w, table, i, below : Kernel!Descend(v, w, table, i, below) =
         KernelProofs!Descend(v, w, table, i, below)
    /\ \A v, a : Kernel!getPDphy(v, a) = KernelProofs!getPDphy(v, a)
    /\ \A v, a : Kernel!getPTphy(v, a) = KernelProofs!getPTphy(v, a)
    /\ \A v, phy, a : Kernel!createMapping(v, phy, a) = KernelProofs!createMapping(v,
         phy, a)
    /\ \A v, phy, a : Kernel!createMapping2M(v, phy, a) =
         KernelProofs!createMapping2M(v, phy, a)
    /\ \A v, a : Kernel!freeMapping(v, a) = KernelProofs!freeMapping(v, a)
    /\ \A m, a : Kernel!Walk(m, a) = KernelProofs!Walk(m, a)
<1>1. \A a : Kernel!PDPindex(a) = KernelProofs!PDPindex(a)
    BY DEF Kernel!PDPindex, KernelProofs!PDPindex
<1>2. \A a : Kernel!PDindex(a) = KernelProofs!PDindex(a)
    BY DEF Kernel!PDindex, KernelProofs!PDindex
<1>3. \A a : Kernel!PTindex(a) = KernelProofs!PTindex(a)
    BY DEF Kernel!PTindex, KernelProofs!PTindex
<1>4. \A v, w, table, i, below : Kernel!Descend(v, w, table, i, below) =
      KernelProofs!Descend(v, w, table, i, below)
    BY SameFrames, SameWindows DEF Kernel!Descend, KernelProofs!Descend
<1>5. \A v, a : Kernel!getPDphy(v, a) = KernelProofs!getPDphy(v, a)
    BY SamePlaces, <1>1, <1>4 DEF Kernel!getPDphy, KernelProofs!getPDphy
<1>6. \A v, a : Kernel!getPTphy(v, a) = KernelProofs!getPTphy(v, a)
    BY SamePlaces, <1>2, <1>4, <1>5 DEF Kernel!getPTphy, KernelProofs!getPTphy
<1>7. \A v, phy, a : Kernel!createMapping(v, phy, a) = KernelProofs!createMapping(v,
      phy, a)
    BY SamePlaces, SameWindows, <1>3, <1>6 DEF Kernel!createMapping,
       KernelProofs!createMapping
<1>8. \A v, phy, a : Kernel!createMapping2M(v, phy, a) = KernelProofs!createMapping2M(v,
      phy, a)
    <2> DEFINE
        Marked(s, e) == [s EXCEPT !.mem.large = @ \cup {e}]
        K(on, i, phy, a) ==
            IF Kernel!Present(on, Kernel!tmpPD, i) THEN [on EXCEPT !.stop = "already mapped"]
            ELSE Kernel!invlpg(Kernel!freeTmp(Marked(Kernel!Write(on, Kernel!tmpPD, i, phy),
                                                     <<Kernel!Seen(on, Kernel!tmpPD), i>>),
                                              Kernel!tmpPD), a)
        P(on, i, phy, a) ==
            IF KernelProofs!Present(on, KernelProofs!tmpPD, i)
            THEN [on EXCEPT !.stop = "already mapped"]
            ELSE KernelProofs!invlpg(
                     KernelProofs!freeTmp(Marked(KernelProofs!Write(on, KernelProofs!tmpPD, i, phy),
                                                 <<KernelProofs!Seen(on, KernelProofs!tmpPD), i>>),
                                          KernelProofs!tmpPD), a)
    <2>1. \A v, phy, a : Kernel!createMapping2M(v, phy, a)
              = K(Kernel!act(Kernel!getPDphy(v, a).st, Kernel!tmpPD, Kernel!getPDphy(v, a).table),
                  Kernel!PDindex(a), phy, a)
        BY Zenon DEF Kernel!createMapping2M
    <2>2. \A v, phy, a : KernelProofs!createMapping2M(v, phy, a)
              = P(KernelProofs!act(KernelProofs!getPDphy(v, a).st, KernelProofs!tmpPD,
                                   KernelProofs!getPDphy(v, a).table),
                  KernelProofs!PDindex(a), phy, a)
        BY Zenon DEF KernelProofs!createMapping2M
    <2> HIDE DEF Marked
    <2>3. \A on, i, phy, a : K(on, i, phy, a) = P(on, i, phy, a)
        BY SamePlaces, SameWindows
    <2> HIDE DEF K, P
    <2> QED
        BY <2>1, <2>2, <2>3, <1>5, <1>2, SamePlaces, SameWindows
<1>9. \A v, a : Kernel!freeMapping(v, a) = KernelProofs!freeMapping(v, a)
    BY SamePlaces, SameWindows, <1>3, <1>6 DEF Kernel!freeMapping,
       KernelProofs!freeMapping
<1>10. \A m, a : Kernel!Walk(m, a) = KernelProofs!Walk(m, a)
    BY Zenon DEF Kernel!Walk, KernelProofs!Walk, Kernel!KernelPDP,
       KernelProofs!KernelPDP, Kernel!None, KernelProofs!None, Kernel!PDPindex,
       KernelProofs!PDPindex, Kernel!PDindex, KernelProofs!PDindex, Kernel!PTindex,
       KernelProofs!PTindex
<1> QED
    BY <1>1, <1>2, <1>3, <1>4, <1>5, <1>6, <1>7, <1>8, <1>9, <1>10

\* So are the steps.
LEMMA SameSteps ==
    /\ Kernel!BootScreen <=> KernelProofs!BootScreen
    /\ Kernel!BootPageHeap <=> KernelProofs!BootPageHeap
    /\ Kernel!UserAlloc <=> KernelProofs!UserAlloc
    /\ \A f : Kernel!UserFree(f) <=> KernelProofs!UserFree(f)
    /\ \A f : Kernel!PageHeapAlloc(f) <=> KernelProofs!PageHeapAlloc(f)
    /\ \A s : Kernel!PageHeapFree(s) <=> KernelProofs!PageHeapFree(s)
    /\ \A a : Kernel!KernelMap(a) <=> KernelProofs!KernelMap(a)
    /\ \A a : Kernel!KernelUnmap(a) <=> KernelProofs!KernelUnmap(a)
    /\ \A a : Kernel!Translate(a) <=> KernelProofs!Translate(a)
    /\ Kernel!Next <=> KernelProofs!Next
    /\ Kernel!Init <=> KernelProofs!Init
<1>1. Kernel!BootScreen <=> KernelProofs!BootScreen
    BY SamePlaces, SameFrames, SamePaging DEF Kernel!BootScreen,
       KernelProofs!BootScreen, Kernel!Becomes, KernelProofs!Becomes
<1>2. Kernel!BootPageHeap <=> KernelProofs!BootPageHeap
    BY SamePlaces, SameFrames, SamePaging DEF Kernel!BootPageHeap,
       KernelProofs!BootPageHeap, Kernel!Becomes, KernelProofs!Becomes, Kernel!Left,
       KernelProofs!Left, Kernel!Cardinality, KernelProofs!Cardinality
<1>3. Kernel!UserAlloc <=> KernelProofs!UserAlloc
    BY SamePlaces, SameFrames DEF Kernel!UserAlloc, KernelProofs!UserAlloc, Kernel!Left,
       KernelProofs!Left, Kernel!Cardinality, KernelProofs!Cardinality
<1>4. \A f : Kernel!UserFree(f) <=> KernelProofs!UserFree(f)
    BY SamePlaces, SameFrames DEF Kernel!UserFree, KernelProofs!UserFree,
       Kernel!InWindow, KernelProofs!InWindow
<1>5. \A f : Kernel!PageHeapAlloc(f) <=> KernelProofs!PageHeapAlloc(f)
    BY SamePlaces, SameFrames, SamePaging DEF Kernel!PageHeapAlloc,
       KernelProofs!PageHeapAlloc, Kernel!Becomes, KernelProofs!Becomes, Kernel!Left,
       KernelProofs!Left, Kernel!Cardinality, KernelProofs!Cardinality
<1>6. \A s : Kernel!PageHeapFree(s) <=> KernelProofs!PageHeapFree(s)
    BY SamePlaces, SamePaging DEF Kernel!PageHeapFree, KernelProofs!PageHeapFree,
       Kernel!Becomes, KernelProofs!Becomes
<1>7. \A a : Kernel!KernelMap(a) <=> KernelProofs!KernelMap(a)
    BY SamePlaces, SameFrames, SamePaging DEF Kernel!KernelMap, KernelProofs!KernelMap,
       Kernel!Becomes, KernelProofs!Becomes, Kernel!Left, KernelProofs!Left,
       Kernel!Cardinality, KernelProofs!Cardinality
<1>8. \A a : Kernel!KernelUnmap(a) <=> KernelProofs!KernelUnmap(a)
    BY SamePlaces, SameFrames, SamePaging DEF Kernel!KernelUnmap,
       KernelProofs!KernelUnmap, Kernel!Becomes, KernelProofs!Becomes
<1>9. \A a : Kernel!Translate(a) <=> KernelProofs!Translate(a)
    BY SamePlaces, SamePaging DEF Kernel!Translate, KernelProofs!Translate
<1>10. Kernel!Next <=> KernelProofs!Next
    BY <1>1, <1>2, <1>3, <1>4, <1>5, <1>6, <1>7, <1>8, <1>9, SamePlaces DEF Kernel!Next,
       KernelProofs!Next
<1>11. Kernel!Init <=> KernelProofs!Init
    BY SamePlaces DEF Kernel!Init, KernelProofs!Init
<1> QED
    BY <1>1, <1>2, <1>3, <1>4, <1>5, <1>6, <1>7, <1>8, <1>9, <1>10, <1>11

\* The invariant of FramesProofs holds in every state, and gives the two of Frames.
LEMMA KernelInvariant == MCSpec => [](MapExact /\ FramesExclusive)
<1>1. KernelProofs!FramesShape
    BY KernelShape, SamePlaces DEF Kernel!FramesShape, KernelProofs!FramesShape
<1>2. MCInit => KernelProofs!KernelInv
    BY <1>1, SameSteps, KernelProofs!InitKernel DEF MCInit
<1>3. KernelProofs!KernelInv /\ [MCNext]_<<machine, vars, kernelVars>> => KernelProofs!KernelInv'
    <2>1. [MCNext]_<<machine, vars, kernelVars>> => [KernelProofs!Next]_KernelProofs!vars
        BY SameSteps DEF MCNext, kernelVars, KernelProofs!vars
    <2> QED
        BY <1>1, <2>1, KernelProofs!KernelStep
<1>4. KernelProofs!KernelInv => MapExact /\ FramesExclusive
    <2>1. KernelProofs!MapExact => Kernel!MapExact
        BY SamePlaces, SamePaging
        DEF Kernel!MapExact, KernelProofs!MapExact, Kernel!TypeOK, KernelProofs!TypeOK
    <2>2. KernelProofs!FramesExclusive => Kernel!FramesExclusive
        BY SamePlaces, SameFrames
        DEF Kernel!FramesExclusive, KernelProofs!FramesExclusive, Kernel!UsedOnce,
            KernelProofs!UsedOnce, Kernel!Uses, KernelProofs!Uses, Kernel!LeftByAlloc2M,
            KernelProofs!LeftByAlloc2M, Kernel!Tail, KernelProofs!Tail
    <2> QED
        BY <1>1, <2>1, <2>2, KernelProofs!KernelInvImplies DEF MapExact, FramesExclusive
<1> QED
    BY <1>2, <1>3, <1>4, PTL DEF MCSpec

\* Every page of the kernel leads, through the tables and through the TLB, where the
\* calls that mapped it said: between two calls of Paging no window on a table is open
\* or cached, none is opened twice, and no call meets a page mapped already or not mapped.
THEOREM MapStaysExact == MCSpec => []MapExact
BY KernelInvariant, PTL

\* A frame the PhysicalMemoryAllocator gave out has one use and is not free: user
\* memories, tables, pages of the kernel and the screen never share one, but in the last
\* word of the screen's large page, which Bitset::unset leaves in the bitset.
THEOREM FramesStayExclusive == MCSpec => []FramesExclusive
BY KernelInvariant, PTL
=============================================================================
