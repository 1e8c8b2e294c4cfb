-------------------------- MODULE ContainersProofs --------------------------
(***************************************************************************)
(* Proofs about the deque, the vector and the map of the libc++, for any   *)
(* values, any integers as keys and any number of elements.                *)
(*                                                                         *)
(* The inductive invariant says that each container holds some sequence:   *)
(* the cells of the deque from _begIndex on, around the ring, the first    *)
(* cells of the vector, and of the map rows whose keys ascend, are those   *)
(* of the sequence, and the others are without an object.  Each call is    *)
(* shown to make of a container that holds s one that holds what the       *)
(* abstract call makes of s.  For the map this needs lower_bound: its      *)
(* recursive definition has a solution, and every solution divides the     *)
(* rows into the keys below k and the others.                              *)
(***************************************************************************)
EXTENDS Containers, FiniteSetTheorems, SequenceTheorems, TLAPS

-----------------------------------------------------------------------------
(* Numbers.                                                                  *)

LEMMA Least ==
  ASSUME NEW T \in SUBSET Nat, T # {}
  PROVE  \E n \in T : \A m \in T : n <= m
<1> DEFINE Upto(n) == 0 .. n
           C == {Upto(n) : n \in T}
<1>1. IsWellFoundedOn(StrictSubsetOrdering(Nat), FiniteSubsetsOf(Nat))
  BY FS_StrictSubsetOrderingWellFounded
<1>2. \A n \in T : Upto(n) \in FiniteSubsetsOf(Nat)
  <2> TAKE n \in T
  <2>1. IsFiniteSet(0 .. n)
    BY FS_Interval
  <2>2. QED BY <2>1 DEF FiniteSubsetsOf
<1>3. \A n \in T, m \in T : m < n => <<Upto(m), Upto(n)>> \in StrictSubsetOrdering(Nat)
  <2> TAKE n \in T, m \in T
  <2>1. m < n => /\ Upto(m) \in SUBSET Nat /\ Upto(n) \in SUBSET Nat
                 /\ Upto(m) \subseteq Upto(n) /\ n \in Upto(n) /\ n \notin Upto(m)
    OBVIOUS
  <2> HIDE DEF Upto
  <2>2. QED BY <2>1 DEF StrictSubsetOrdering
<1> HIDE DEF Upto
<1>4. C # {} /\ C \subseteq FiniteSubsetsOf(Nat)
  BY <1>2
<1> HIDE DEF C
<1>5. \E x \in C : \A y \in C : ~(<<y, x>> \in StrictSubsetOrdering(Nat))
  BY <1>1, <1>4, WFMin
<1>6. PICK n \in T : \A m \in T : ~(<<Upto(m), Upto(n)>> \in StrictSubsetOrdering(Nat))
  BY <1>5 DEF C
<1>7. \A m \in T : ~(m < n)
  BY <1>3, <1>6
<1>8. QED BY <1>7

\* A set of n elements has more than n subsets.
LEMMA PowerAbove ==
  ASSUME NEW n \in Nat
  PROVE  2^n \in Nat /\ n < 2^n
<1> DEFINE S == 1 .. n
           f == [x \in S |-> {x}]
<1>1. IsFiniteSet(S) /\ Cardinality(S) = n
  <2>1. IsFiniteSet(1 .. n) /\ Cardinality(1 .. n) = IF 1 > n THEN 0 ELSE n - 1 + 1
    BY FS_Interval
  <2> QED BY <2>1
<1>2. f \in Injection(S, SUBSET S) /\ \A x \in S : f[x] # {}
  BY DEF Injection, IsInjective
<1>3. f \notin Surjection(S, SUBSET S)
  BY <1>2 DEF Surjection
<1> HIDE DEF S, f
<1>4. IsFiniteSet(SUBSET S) /\ Cardinality(SUBSET S) = 2^Cardinality(S)
  BY <1>1, FS_SUBSET
<1>5. Cardinality(SUBSET S) \in Nat
  BY <1>4, FS_CardinalityType
<1>6. /\ Cardinality(S) <= Cardinality(SUBSET S)
      /\ Cardinality(S) = Cardinality(SUBSET S) <=> f \in Surjection(S, SUBSET S)
  BY <1>2, <1>4, FS_Injection
<1> QED BY <1>1, <1>3, <1>4, <1>5, <1>6

\* The two strategies leave room for one more than was asked for.
LEMMA StrategyGrows ==
  ASSUME NEW n \in Nat
  PROVE  strategy(n) \in Nat /\ n + 1 < strategy(n) /\ vstrategy(n) = strategy(n)
<1> DEFINE T == {k \in 0 .. (n + 1) : 2^k > n + 1}
<1>1. n + 1 \in T /\ T \in SUBSET Nat
  BY PowerAbove
<1>2. \E k \in T : \A j \in T : k <= j
  BY <1>1, Least
<1>3. Min(T) \in T
  BY <1>2 DEF Min
<1>4. 2^Min(T) \in Nat /\ 2^Min(T) > n + 1
  BY <1>1, <1>3, PowerAbove
<1> QED BY <1>4 DEF strategy, vstrategy

\* An index behind the end of a ring of c places wraps around.
Wrap(i, c) == IF i < c THEN i ELSE i - c
LEMMA Wrapped ==
  ASSUME NEW c \in Nat \ {0}, NEW i \in 0 .. c + c - 1
  PROVE  i % c = Wrap(i, c) /\ Wrap(i, c) \in 0 .. c - 1
BY DEF Wrap


-----------------------------------------------------------------------------
(* Sequences.                                                                *)

LEMMA CutOut ==
  ASSUME NEW S, NEW s \in Seq(S), NEW m \in Nat, NEW k \in Nat, m <= k, k <= Len(s)
  PROVE  /\ SubSeq(s, m + 1, k) \in Seq(S) /\ Len(SubSeq(s, m + 1, k)) = k - m
         /\ \A i \in 1 .. k - m : SubSeq(s, m + 1, k)[i] = s[m + i]
<1>1. \A i \in m + 1 .. k : s[i] \in S
  OBVIOUS
<1>2. /\ SubSeq(s, m + 1, k) \in Seq(S)
      /\ Len(SubSeq(s, m + 1, k)) = IF m + 1 <= k THEN k - (m + 1) + 1 ELSE 0
      /\ \A i \in 1 .. k - (m + 1) + 1 : SubSeq(s, m + 1, k)[i] = s[m + 1 + i - 1]
  <2>1. m + 1 \in Int /\ k \in Int
    OBVIOUS
  <2> QED BY <1>1, <2>1, SubSeqProperties
<1> QED BY <1>2

LEMMA CutFirst ==
  ASSUME NEW S, NEW s \in Seq(S), NEW k \in 0 .. Len(s)
  PROVE  /\ SubSeq(s, 1, k) \in Seq(S) /\ Len(SubSeq(s, 1, k)) = k
         /\ \A i \in 1 .. k : SubSeq(s, 1, k)[i] = s[i]
<1>1. /\ SubSeq(s, 0 + 1, k) \in Seq(S) /\ Len(SubSeq(s, 0 + 1, k)) = k - 0
      /\ \A i \in 1 .. k - 0 : SubSeq(s, 0 + 1, k)[i] = s[0 + i]
  BY CutOut
<1> QED BY <1>1

\* The elements i to j - 1, counted from 0, are taken out.
Without(t, S, s, i, j) ==
  /\ t \in Seq(S) /\ Len(t) = Len(s) - (j - i)
  /\ \A k \in 0 .. Len(s) - (j - i) - 1 :
        t[k + 1] = IF k < i THEN s[k + 1] ELSE s[k + (j - i) + 1]

LEMMA TakenOut ==
  ASSUME NEW S, NEW s \in Seq(S), NEW i \in Nat, NEW j \in Nat, i <= j, j <= Len(s)
  PROVE  Without(SubSeq(s, 1, i) \o SubSeq(s, j + 1, Len(s)), S, s, i, j)
<1> DEFINE l == Len(s)
           w == j - i
           x == SubSeq(s, 1, i)
           y == SubSeq(s, j + 1, l)
<1>1. l \in Nat /\ i <= j /\ j <= l /\ w \in Nat /\ w = j - i
  OBVIOUS
<1>2. x \in Seq(S) /\ Len(x) = i /\ \A k \in 1 .. i : x[k] = s[k]
  BY CutFirst
<1>3. y \in Seq(S) /\ Len(y) = l - j /\ \A k \in 1 .. l - j : y[k] = s[j + k]
  BY CutOut
<1> HIDE DEF x, y
<1>4. /\ x \o y \in Seq(S) /\ Len(x \o y) = Len(x) + Len(y)
      /\ \A k \in 1 .. Len(x) + Len(y) :
            (x \o y)[k] = IF k <= Len(x) THEN x[k] ELSE y[k - Len(x)]
  BY <1>2, <1>3, ConcatProperties, Zenon
<1> HIDE DEF l, w
<1>5. Len(x \o y) = l - w
  BY <1>1, <1>2, <1>3, <1>4
<1>6. ASSUME NEW k \in 0 .. l - w - 1
      PROVE  (x \o y)[k + 1] = IF k < i THEN s[k + 1] ELSE s[k + w + 1]
  <2>1. k + 1 \in 1 .. Len(x) + Len(y)
    BY <1>1, <1>2, <1>3
  <2>2. (x \o y)[k + 1] = IF k + 1 <= i THEN x[k + 1] ELSE y[k + 1 - i]
    BY <1>2, <1>4, <2>1
  <2>3. k < i => k + 1 \in 1 .. i /\ k + 1 <= i
    BY <1>1
  <2>4. k >= i => /\ k + 1 - i \in 1 .. l - j /\ ~(k + 1 <= i)
                  /\ j + (k + 1 - i) = k + w + 1
    BY <1>1
  <2>5. CASE k < i
    BY <1>2, <2>2, <2>3, <2>5
  <2>6. CASE ~(k < i)
    BY <1>1, <1>3, <2>2, <2>4, <2>6
  <2> QED BY <2>5, <2>6
<1>7. Without(x \o y, S, s, i, j)
  BY <1>4, <1>5, <1>6 DEF Without, l, w
<1> QED BY <1>7 DEF x, y, l

-----------------------------------------------------------------------------
(* The deque.  Ring(d, s): the cells of d from _begIndex on hold s.           *)

\* How far behind the place b the place c is, in a ring of n.
Behind(b, n, c) == IF c >= b THEN c - b ELSE c - b + n
Cells(n, b, s) ==
  [c \in 0 .. n - 1 |-> IF Behind(b, n, c) < Len(s) THEN s[Behind(b, n, c) + 1] ELSE Hole]
Ring(d, s) ==
  /\ d = [capacity |-> d.capacity, beg |-> d.beg, end |-> d.end, data |-> d.data]
  /\ d.capacity \in Nat \ {0} /\ d.beg \in 0 .. d.capacity - 1
  /\ s \in Seq(Value) /\ Len(s) < d.capacity
  /\ d.end = Wrap(d.beg + Len(s), d.capacity)
  /\ d.data = Cells(d.capacity, d.beg, s)

\* A deque holds s: it is a ring, or has no array yet.
Contains(d, s) == (d = EmptyDeque /\ s = <<>>) \/ Ring(d, s)

LEMMA RingSize ==
  ASSUME NEW d, NEW s, Ring(d, s)
  PROVE  dsize(d) = Len(s) /\ (dempty(d) <=> Len(s) = 0) /\ Len(s) \in Nat
         /\ d.end \in 0 .. d.capacity - 1
<1>1. /\ d.capacity \in Nat \ {0} /\ d.beg \in 0 .. d.capacity - 1 /\ Len(s) \in Nat
      /\ Len(s) < d.capacity /\ d.end = Wrap(d.beg + Len(s), d.capacity)
  BY DEF Ring
<1> DEFINE n == d.capacity
           b == d.beg
           l == Len(s)
           e == d.end
<1>2. n \in Nat /\ b \in Nat /\ b < n /\ l \in Nat /\ l < n /\ e = Wrap(b + l, n)
  BY <1>1
<1>3. /\ (IF e >= b THEN e - b ELSE e + n - b) = l
      /\ (e = b <=> l = 0) /\ e \in 0 .. n - 1
  <2> HIDE DEF n, b, l, e
  <2>1. CASE b + l < n
    BY <1>2, <2>1 DEF Wrap
  <2>2. CASE ~(b + l < n)
    BY <1>2, <2>2 DEF Wrap
  <2> QED BY <2>1, <2>2
<1> QED BY <1>2, <1>3 DEF dsize, dempty

\* The place of the element i is i behind the first.
LEMMA PlaceOf ==
  ASSUME NEW n \in Nat \ {0}, NEW b \in 0 .. n - 1, NEW i \in 0 .. n - 1
  PROVE  /\ (b + i) % n = Wrap(b + i, n) /\ (b + i) % n \in 0 .. n - 1
         /\ Behind(b, n, (b + i) % n) = i
<1>1. (b + i) % n = Wrap(b + i, n) /\ Wrap(b + i, n) \in 0 .. n - 1
  BY Wrapped
<1>2. Behind(b, n, Wrap(b + i, n)) = i
  BY DEF Behind, Wrap
<1> QED BY <1>1, <1>2

\* Every place is that of one i.
LEMMA PlaceIs ==
  ASSUME NEW n \in Nat \ {0}, NEW b \in 0 .. n - 1, NEW c \in 0 .. n - 1
  PROVE  /\ Behind(b, n, c) \in 0 .. n - 1 /\ c = (b + Behind(b, n, c)) % n
         /\ \A i \in 0 .. n - 1 : c = (b + i) % n => i = Behind(b, n, c)
<1>1. Behind(b, n, c) \in 0 .. n - 1 /\ Wrap(b + Behind(b, n, c), n) = c
  BY DEF Behind, Wrap
<1>2. \A i \in 0 .. n - 1 : (b + i) % n = Wrap(b + i, n) /\ Behind(b, n, (b + i) % n) = i
  BY PlaceOf
<1> QED BY <1>1, <1>2

LEMMA RingAt ==
  ASSUME NEW d, NEW s, Ring(d, s), NEW i \in 0 .. Len(s) - 1
  PROVE  at(d, i) = s[i + 1] /\ at(d, i) \in Value
<1>1. /\ d.capacity \in Nat \ {0} /\ d.beg \in 0 .. d.capacity - 1 /\ Len(s) \in Nat
      /\ i \in 0 .. d.capacity - 1 /\ s \in Seq(Value)
  BY DEF Ring
<1>2. /\ (d.beg + i) % d.capacity \in 0 .. d.capacity - 1
      /\ Behind(d.beg, d.capacity, (d.beg + i) % d.capacity) = i
  BY <1>1, PlaceOf
<1>3. d.data[(d.beg + i) % d.capacity] = s[i + 1]
  BY <1>1, <1>2 DEF Ring, Cells
<1> QED BY <1>1, <1>3 DEF at

\* What iterators meet is s, and the class invariant holds.
LEMMA RingIs ==
  ASSUME NEW d, NEW s, Ring(d, s), Hole \notin Value
  PROVE  Elements(d) = s /\ DequeSound(d)
<1> DEFINE n == d.capacity
           b == d.beg
<1>1. /\ n \in Nat \ {0} /\ b \in 0 .. n - 1 /\ Len(s) \in Nat /\ Len(s) < n
      /\ s \in Seq(Value) /\ dsize(d) = Len(s) /\ d.end \in 0 .. n - 1
      /\ d.data = Cells(n, b, s)
  BY RingSize DEF Ring
<1>2. Elements(d) = s
  <2>1. \A i \in 1 .. Len(s) : at(d, i - 1) = s[i]
    <3> TAKE i \in 1 .. Len(s)
    <3>1. i - 1 \in 0 .. Len(s) - 1 /\ (i - 1) + 1 = i
      BY <1>1
    <3> QED BY <3>1, RingAt
  <2>2. s = [i \in 1 .. Len(s) |-> s[i]]
    BY <1>1
  <2> QED BY <1>1, <2>1, <2>2 DEF Elements
<1>3. DequeSound(d)
  <2>1. DOMAIN d.data = 0 .. n - 1
    BY <1>1 DEF Cells
  <2>2. ASSUME NEW c \in 0 .. n - 1
        PROVE  (d.data[c] # Hole) = (\E i \in 0 .. (dsize(d) - 1) : c = (b + i) % n)
    <3> HIDE DEF n, b
    <3> DEFINE k == Behind(b, n, c)
    <3>1. k \in 0 .. n - 1 /\ c = (b + k) % n /\ \A i \in 0 .. n - 1 : c = (b + i) % n => i = k
      BY <1>1, PlaceIs
    <3>2. d.data[c] = IF k < Len(s) THEN s[k + 1] ELSE Hole
      BY <1>1 DEF Cells
    <3> DEFINE cell(i) == (b + i) % n
    <3>5. k \in 0 .. n - 1 /\ c = cell(k) /\ \A i \in 0 .. n - 1 : c = cell(i) => i = k
      BY <3>1
    <3> HIDE DEF k, cell
    <3>6. (\E i \in 0 .. (dsize(d) - 1) : c = cell(i)) <=> k < Len(s)
      <4>1. 0 .. (dsize(d) - 1) \subseteq 0 .. n - 1 /\ dsize(d) = Len(s)
        BY <1>1
      <4>2. k < Len(s) => k \in 0 .. (dsize(d) - 1)
        BY <4>1, <3>5, <1>1
      <4>3. ASSUME NEW i \in 0 .. (dsize(d) - 1), c = cell(i) PROVE k < Len(s)
        <5>1. i \in 0 .. n - 1
          BY <4>1
        <5>2. i = k
          BY <4>3, <5>1, <3>5
        <5>3. i < Len(s)
          BY <1>1, <4>1
        <5> QED BY <5>2, <5>3
      <4> QED BY <4>2, <4>3, <3>5
    <3>3. (\E i \in 0 .. (dsize(d) - 1) : c = (b + i) % n) <=> k < Len(s)
      BY <3>6 DEF cell
    <3>4. k < Len(s) => s[k + 1] \in Value
      BY <1>1, <3>1
    <3> QED BY <3>2, <3>3, <3>4
  <2> QED BY <1>1, <2>1, <2>2 DEF DequeSound
<1> QED BY <1>2, <1>3


LEMMA Reserved ==
  ASSUME NEW d, NEW s \in Seq(Value), Contains(d, s)
  PROVE  LET r == dreserve(d, dsize(d) + 1)
         IN  Ring(r, s) /\ Len(s) + 1 < r.capacity
<1> DEFINE l == Len(s)
           m == strategy(l + 1)
           r == dreserve(d, dsize(d) + 1)
           new == [capacity |-> m, beg |-> 0, end |-> l,
                   data |-> [k \in 0 .. (m - 1) |-> IF k < l THEN at(d, k) ELSE Hole]]
<1>1. l \in Nat /\ m \in Nat /\ l + 2 < m
  <2>1. l \in Nat
    OBVIOUS
  <2>2. \A i \in Nat : strategy(i) \in Nat /\ i + 1 < strategy(i)
    BY StrategyGrows
  <2>3. strategy(l + 1) \in Nat /\ (l + 1) + 1 < strategy(l + 1)
    BY <2>1, <2>2
  <2> QED BY <2>1, <2>3
<1>2. dsize(d) = l
  <2>1. CASE d = EmptyDeque /\ s = <<>>
    BY <2>1 DEF EmptyDeque, dsize
  <2>2. CASE Ring(d, s)
    BY <2>2, RingSize
  <2> QED BY <2>1, <2>2 DEF Contains
<1>3. ASSUME \A k \in 0 .. l - 1 : at(d, k) = s[k + 1], r = new
      PROVE  Ring(r, s) /\ Len(s) + 1 < r.capacity
  <2>1. /\ new.capacity = m /\ new.beg = 0 /\ new.end = l
        /\ new.data = [k \in 0 .. (m - 1) |-> IF k < l THEN at(d, k) ELSE Hole]
        /\ new = [capacity |-> new.capacity, beg |-> new.beg, end |-> new.end,
                  data |-> new.data]
    OBVIOUS
  <2> HIDE DEF new, r, m
  <2>2. Wrap(0 + l, m) = l
    BY <1>1 DEF Wrap
  <2>3. new.data = Cells(m, 0, s)
    <3>1. \A k \in 0 .. m - 1 : Behind(0, m, k) = k
      BY DEF Behind
    <3>2. \A k \in 0 .. m - 1 : (IF k < l THEN at(d, k) ELSE Hole)
                                = IF k < l THEN s[k + 1] ELSE Hole
      BY <1>1, <1>3
    <3> QED BY <1>1, <2>1, <3>1, <3>2 DEF Cells
  <2>4. 0 \in 0 .. m - 1 /\ l < m /\ l + 1 < m /\ m \in Nat \ {0}
    BY <1>1
  <2>5. Ring(new, s)
    BY <1>1, <2>1, <2>2, <2>3, <2>4 DEF Ring
  <2> QED BY <1>3, <2>1, <2>4, <2>5
<1>4. CASE d = EmptyDeque /\ s = <<>>
  <2>1. r = new
    BY <1>2, <1>4 DEF dreserve, EmptyDeque
  <2>2. \A k \in 0 .. l - 1 : at(d, k) = s[k + 1]
    BY <1>4
  <2> QED BY <1>3, <2>1, <2>2
<1>5. CASE Ring(d, s)
  <2>1. CASE l + 1 < d.capacity
    <3>1. d.capacity # 0
      BY <1>1, <2>1
    <3>2. r = d
      BY <1>2, <2>1, <3>1 DEF dreserve
    <3> QED BY <1>5, <2>1, <3>2
  <2>2. CASE ~(l + 1 < d.capacity)
    <3>1. r = new
      BY <1>2, <2>2 DEF dreserve
    <3>2. \A k \in 0 .. l - 1 : at(d, k) = s[k + 1]
      BY <1>5, RingAt
    <3> QED BY <1>3, <3>1, <3>2
  <2> QED BY <2>1, <2>2
<1> QED BY <1>4, <1>5 DEF Contains

\* The places behind those of s, and the last of these.
LEMMA NextPlace ==
  ASSUME NEW n \in Nat \ {0}, NEW b \in 0 .. n - 1, NEW l \in 0 .. n - 1, NEW c \in 0 .. n - 1
  PROVE  /\ Wrap(b + l, n) \in 0 .. n - 1 /\ Behind(b, n, Wrap(b + l, n)) = l
         /\ Behind(b, n, c) \in 0 .. n - 1
         /\ c # Wrap(b + l, n) => Behind(b, n, c) # l
BY DEF Wrap, Behind

PutBack(r, x)  == [r EXCEPT !.data[r.end] = x, !.end = incr(r, @)]
PutFront(r, x) == [r EXCEPT !.beg = decr(r, @), !.data[decr(r, r.beg)] = x]

LEMMA PushedBack ==
  ASSUME NEW r, NEW s, Ring(r, s), Len(s) + 1 < r.capacity, NEW x \in Value
  PROVE  Ring(PutBack(r, x), Append(s, x))
<1> DEFINE n == r.capacity
           b == r.beg
           e == r.end
           f == r.data
           l == Len(s)
           t == Append(s, x)
           q == [r EXCEPT !.data[r.end] = x, !.end = incr(r, @)]
<1>1. /\ n \in Nat \ {0} /\ b \in 0 .. n - 1 /\ l \in Nat /\ l + 1 < n /\ s \in Seq(Value)
      /\ r = [capacity |-> n, beg |-> b, end |-> e, data |-> f]
      /\ e = Wrap(b + l, n) /\ f = Cells(n, b, s)
  BY DEF Ring
<1>3. t \in Seq(Value) /\ Len(t) = l + 1 /\ t[l + 1] = x /\ \A i \in 1 .. l : t[i] = s[i]
  BY <1>1
<1> HIDE DEF n, b, e, f, t
<1>2. q = [capacity |-> n, beg |-> b, end |-> incr(r, e), data |-> [f EXCEPT ![e] = x]]
      /\ r.capacity = n
  <2> DEFINE p == [r EXCEPT !.data[r.end] = x]
  <2>1. p = [capacity |-> n, beg |-> b, end |-> e, data |-> [f EXCEPT ![e] = x]]
    BY <1>1
  <2>2. q = [p EXCEPT !.end = incr(r, e)]
    BY <1>1
  <2> HIDE DEF p, q
  <2> QED BY <1>1, <2>1, <2>2
<1> HIDE DEF q
<1>4. l \in 0 .. n - 1 /\ l + 1 \in 0 .. n - 1
  BY <1>1
<1> HIDE DEF l
<1>5. e \in 0 .. n - 1 /\ Behind(b, n, e) = l
  <2>1. b \in 0 .. n - 1 /\ n \in Nat \ {0} /\ l \in 0 .. n - 1 /\ e = Wrap(b + l, n)
    BY <1>1, <1>4
  <2> QED BY <2>1, NextPlace
<1>11. \A c \in 0 .. n - 1 : /\ Behind(b, n, c) \in 0 .. n - 1
                             /\ c # e => Behind(b, n, c) # l
  <2>1. b \in 0 .. n - 1 /\ n \in Nat \ {0} /\ l \in 0 .. n - 1 /\ e = Wrap(b + l, n)
    BY <1>1, <1>4
  <2> QED BY <2>1, NextPlace
<1>6. incr(r, e) = Wrap(b + (l + 1), n)
  <2>1. b \in Nat /\ b < n /\ n \in Nat /\ l \in Nat /\ l + 1 < n
    BY <1>1, <1>4
  <2>2. CASE b + l < n
    BY <1>1, <1>2, <2>1, <2>2 DEF incr, Wrap
  <2>3. CASE ~(b + l < n)
    BY <1>1, <1>2, <2>1, <2>3 DEF incr, Wrap
  <2> QED BY <2>2, <2>3
<1>7. [f EXCEPT ![e] = x] = Cells(n, b, t)
  <2>1. [f EXCEPT ![e] = x] =
          [c \in 0 .. n - 1 |-> IF c = e THEN x ELSE f[c]]
    BY <1>1 DEF Cells
  <2>2. ASSUME NEW c \in 0 .. n - 1
        PROVE  (IF c = e THEN x ELSE f[c])
               = IF Behind(b, n, c) < Len(t) THEN t[Behind(b, n, c) + 1] ELSE Hole
    <3> DEFINE k == Behind(b, n, c)
    <3>1. k \in 0 .. n - 1 /\ (c # e => k # l)
      BY <1>11
    <3>2. f[c] = IF k < l THEN s[k + 1] ELSE Hole
      BY <1>1 DEF Cells, l
    <3> HIDE DEF k
    <3>3. CASE c = e
      <4>1. k = l
        BY <1>5, <3>3 DEF k
      <4> QED BY <1>3, <1>4, <3>3, <4>1 DEF k
    <3>4. CASE c # e
      <4>1. k < l => t[k + 1] = s[k + 1]
        BY <1>3, <1>4, <3>1
      <4>2. k < l <=> k < Len(t)
        BY <1>3, <1>4, <3>1, <3>4
      <4> QED BY <3>2, <3>4, <4>1, <4>2 DEF k
    <3> QED BY <3>3, <3>4
  <2> QED BY <2>1, <2>2 DEF Cells
<1>8. q.capacity = n /\ q.beg = b /\ q.end = Wrap(b + Len(t), n) /\ q.data = Cells(n, b, t)
  BY <1>2, <1>3, <1>6, <1>7
<1>9. q = [capacity |-> q.capacity, beg |-> q.beg, end |-> q.end, data |-> q.data]
  BY <1>2
<1>10. Ring(q, t)
  BY <1>1, <1>3, <1>4, <1>8, <1>9 DEF Ring
<1> QED BY <1>10 DEF q, t, PutBack


\* One place before and one behind a place.
Before(b, n) == IF b = 0 THEN n - 1 ELSE b - 1
After(b, n) == IF b + 1 = n THEN 0 ELSE b + 1

LEMMA FirstMoved ==
  ASSUME NEW n \in Nat \ {0}, NEW b \in 0 .. n - 1, NEW c \in 0 .. n - 1
  PROVE  /\ Before(b, n) \in 0 .. n - 1 /\ After(b, n) \in 0 .. n - 1
         /\ Behind(Before(b, n), n, c) = IF c = Before(b, n) THEN 0 ELSE Behind(b, n, c) + 1
         /\ Behind(After(b, n), n, c) = IF c = b THEN n - 1 ELSE Behind(b, n, c) - 1
         /\ Behind(b, n, c) = 0 <=> c = b
         /\ Behind(b, n, c) \in 0 .. n - 1
BY DEF Behind, Before, After

LEMMA EndKept ==
  ASSUME NEW n \in Nat \ {0}, NEW b \in 0 .. n - 1, NEW l \in 0 .. n - 1
  PROVE  /\ Before(b, n) \in 0 .. n - 1 /\ After(b, n) \in 0 .. n - 1
         /\ l + 1 < n => Wrap(Before(b, n) + (l + 1), n) = Wrap(b + l, n)
         /\ l > 0 => Wrap(After(b, n) + (l - 1), n) = Wrap(b + l, n)
BY DEF Wrap, Before, After

LEMMA PushedFront ==
  ASSUME NEW r, NEW s, Ring(r, s), Len(s) + 1 < r.capacity, NEW x \in Value
  PROVE  Ring(PutFront(r, x), <<x>> \o s)
<1> DEFINE n == r.capacity
           b == r.beg
           e == r.end
           f == r.data
           l == Len(s)
           t == <<x>> \o s
           a == Before(b, n)
           q == [r EXCEPT !.beg = decr(r, @), !.data[decr(r, r.beg)] = x]
<1>1. /\ n \in Nat \ {0} /\ b \in 0 .. n - 1 /\ l \in Nat /\ l + 1 < n /\ s \in Seq(Value)
      /\ r = [capacity |-> n, beg |-> b, end |-> e, data |-> f]
      /\ e = Wrap(b + l, n) /\ f = Cells(n, b, s)
  BY DEF Ring
<1>2. t \in Seq(Value) /\ Len(t) = l + 1 /\ t[1] = x /\ \A i \in 1 .. l : t[i + 1] = s[i]
  <2> DEFINE o == <<x>>
  <2>1. o \in Seq(Value) /\ Len(o) = 1 /\ o[1] = x
    OBVIOUS
  <2> HIDE DEF o
  <2>2. /\ o \o s \in Seq(Value) /\ Len(o \o s) = l + 1 /\ (o \o s)[1] = x
        /\ \A i \in 1 .. l : (o \o s)[1 + i] = s[i]
    <3> HIDE DEF l
    <3>1. s \in Seq(Value) /\ Len(s) = l /\ l \in Nat
      BY <1>1 DEF l
    <3>5. /\ o \o s \in Seq(Value) /\ Len(o \o s) = Len(o) + Len(s)
          /\ \A i \in 1 .. Len(o) + Len(s) :
                (o \o s)[i] = IF i <= Len(o) THEN o[i] ELSE s[i - Len(o)]
      BY <2>1, <3>1, ConcatProperties, Zenon
    <3>2. o \o s \in Seq(Value) /\ Len(o \o s) = 1 + l
      BY <2>1, <3>1, <3>5
    <3>3. \A i \in 1 .. 1 + l : (o \o s)[i] = IF i <= 1 THEN o[i] ELSE s[i - 1]
      BY <2>1, <3>1, <3>5
    <3>4. ASSUME NEW i \in 1 .. l PROVE (o \o s)[1 + i] = s[i]
      <4>1. 1 + i \in 1 .. 1 + l /\ ~(1 + i <= 1) /\ (1 + i) - 1 = i
        BY <3>1
      <4> QED BY <3>3, <4>1
    <3> QED BY <2>1, <3>1, <3>2, <3>3, <3>4
  <2> QED BY <1>1, <2>2 DEF o
<1>3. decr(r, b) = a /\ l \in 0 .. n - 1
  BY <1>1 DEF decr, Before
<1>4. a \in 0 .. n - 1 /\ Wrap(a + (l + 1), n) = e
  <2>1. b \in 0 .. n - 1 /\ n \in Nat \ {0} /\ l \in 0 .. n - 1 /\ l + 1 < n /\ e = Wrap(b + l, n)
    BY <1>1, <1>3
  <2> HIDE DEF n, b, l, e
  <2>2. a \in 0 .. n - 1 /\ Wrap(a + (l + 1), n) = Wrap(b + l, n)
    BY <2>1, EndKept
  <2> QED BY <2>1, <2>2
<1>5. \A c \in 0 .. n - 1 : /\ Behind(a, n, c) = IF c = a THEN 0 ELSE Behind(b, n, c) + 1
                            /\ Behind(b, n, c) \in 0 .. n - 1
  <2>1. b \in 0 .. n - 1 /\ n \in Nat \ {0}
    BY <1>1
  <2> HIDE DEF n, b
  <2> QED BY <2>1, FirstMoved
<1> HIDE DEF n, b, e, f, l, t, a
<1>6. q = [capacity |-> n, beg |-> a, end |-> e, data |-> [f EXCEPT ![a] = x]]
  <2> DEFINE p == [r EXCEPT !.beg = decr(r, r.beg)]
  <2>1. r.beg = b
    BY <1>1
  <2>2. p = [capacity |-> n, beg |-> a, end |-> e, data |-> f]
    BY <1>1, <1>3, <2>1
  <2>3. q = [p EXCEPT !.data[a] = x]
    BY <1>3, <2>1
  <2> HIDE DEF p, q
  <2> QED BY <2>2, <2>3
<1>7. [f EXCEPT ![a] = x] = Cells(n, a, t)
  <2>1. [f EXCEPT ![a] = x] = [c \in 0 .. n - 1 |-> IF c = a THEN x ELSE f[c]]
    BY <1>1 DEF Cells
  <2>2. ASSUME NEW c \in 0 .. n - 1
        PROVE  (IF c = a THEN x ELSE f[c])
               = IF Behind(a, n, c) < Len(t) THEN t[Behind(a, n, c) + 1] ELSE Hole
    <3> DEFINE k == Behind(b, n, c)
    <3>1. k \in 0 .. n - 1 /\ Behind(a, n, c) = IF c = a THEN 0 ELSE k + 1
      BY <1>5
    <3>2. f[c] = IF k < l THEN s[k + 1] ELSE Hole
      BY <1>1 DEF Cells, l
    <3> HIDE DEF k
    <3>3. CASE c = a
      BY <1>1, <1>2, <3>1, <3>3
    <3>4. CASE c # a
      <4>1. k < l => t[k + 2] = s[k + 1]
        <5>1. k < l => k + 1 \in 1 .. l
          BY <1>1, <3>1
        <5> QED BY <1>2, <5>1, <3>1
      <4>2. (k + 1 < Len(t) <=> k < l) /\ (k + 1) + 1 = k + 2
        BY <1>1, <1>2, <3>1
      <4> QED BY <3>1, <3>2, <3>4, <4>1, <4>2
    <3> QED BY <3>3, <3>4
  <2> QED BY <2>1, <2>2 DEF Cells
<1> HIDE DEF q
<1>8. Ring(q, t)
  BY <1>1, <1>2, <1>4, <1>6, <1>7 DEF Ring
<1> QED BY <1>8 DEF q, t, PutFront

LEMMA PoppedFront ==
  ASSUME NEW d, NEW s, Ring(d, s), Len(s) # 0
  PROVE  Ring(dpop_front(d), Tail(s))
<1> DEFINE n == d.capacity
           b == d.beg
           e == d.end
           f == d.data
           l == Len(s)
           t == Tail(s)
           z == After(b, n)
           q == [d EXCEPT !.beg = incr(d, @), !.data[d.beg] = Hole]
<1>1. /\ n \in Nat \ {0} /\ b \in 0 .. n - 1 /\ l \in Nat /\ l < n /\ s \in Seq(Value)
      /\ d = [capacity |-> n, beg |-> b, end |-> e, data |-> f] /\ l > 0
      /\ e = Wrap(b + l, n) /\ f = Cells(n, b, s)
  BY DEF Ring
<1>2. t \in Seq(Value) /\ Len(t) = l - 1 /\ \A i \in 1 .. l - 1 : t[i] = s[i + 1]
  BY <1>1
<1>3. incr(d, b) = z /\ l \in 0 .. n - 1
  BY <1>1 DEF incr, After
<1>4. z \in 0 .. n - 1 /\ Wrap(z + (l - 1), n) = e
  <2>1. b \in 0 .. n - 1 /\ n \in Nat \ {0} /\ l \in 0 .. n - 1 /\ l > 0 /\ e = Wrap(b + l, n)
    BY <1>1, <1>3
  <2> HIDE DEF n, b, l, e
  <2>2. z \in 0 .. n - 1 /\ Wrap(z + (l - 1), n) = Wrap(b + l, n)
    BY <2>1, EndKept
  <2> QED BY <2>1, <2>2
<1>5. \A c \in 0 .. n - 1 : /\ Behind(z, n, c) = IF c = b THEN n - 1 ELSE Behind(b, n, c) - 1
                            /\ Behind(b, n, c) \in 0 .. n - 1
                            /\ Behind(b, n, c) = 0 <=> c = b
  <2>1. b \in 0 .. n - 1 /\ n \in Nat \ {0}
    BY <1>1
  <2> HIDE DEF n, b
  <2> QED BY <2>1, FirstMoved
<1> HIDE DEF n, b, e, f, l, t, z
<1>6. q = [capacity |-> n, beg |-> z, end |-> e, data |-> [f EXCEPT ![b] = Hole]]
  <2> DEFINE p == [d EXCEPT !.beg = incr(d, d.beg)]
  <2>1. d.beg = b
    BY <1>1
  <2>2. p = [capacity |-> n, beg |-> z, end |-> e, data |-> f]
    BY <1>1, <1>3, <2>1
  <2>3. q = [p EXCEPT !.data[b] = Hole]
    BY <2>1
  <2> HIDE DEF p, q
  <2> QED BY <2>2, <2>3
<1>7. [f EXCEPT ![b] = Hole] = Cells(n, z, t)
  <2>1. [f EXCEPT ![b] = Hole] = [c \in 0 .. n - 1 |-> IF c = b THEN Hole ELSE f[c]]
    BY <1>1 DEF Cells
  <2>2. ASSUME NEW c \in 0 .. n - 1
        PROVE  (IF c = b THEN Hole ELSE f[c])
               = IF Behind(z, n, c) < Len(t) THEN t[Behind(z, n, c) + 1] ELSE Hole
    <3> DEFINE k == Behind(b, n, c)
    <3>1. /\ k \in 0 .. n - 1 /\ Behind(z, n, c) = IF c = b THEN n - 1 ELSE k - 1
          /\ k = 0 <=> c = b
      BY <1>5
    <3>2. f[c] = IF k < l THEN s[k + 1] ELSE Hole
      BY <1>1 DEF Cells, l
    <3> HIDE DEF k
    <3>3. CASE c = b
      <4>1. ~(n - 1 < Len(t))
        BY <1>1, <1>2
      <4> QED BY <3>1, <3>3, <4>1
    <3>4. CASE c # b
      <4>1. k < l => t[k] = s[k + 1]
        <5>1. k < l => k \in 1 .. l - 1
          BY <1>1, <3>1, <3>4
        <5> QED BY <1>2, <5>1, <3>1
      <4>2. (k - 1 < Len(t) <=> k < l) /\ (k - 1) + 1 = k
        BY <1>1, <1>2, <3>1
      <4> QED BY <3>1, <3>2, <3>4, <4>1, <4>2
    <3> QED BY <3>3, <3>4
  <2> QED BY <2>1, <2>2 DEF Cells
<1> HIDE DEF q
<1>8. Len(t) < n
  BY <1>1, <1>2
<1>9. Ring(q, t)
  BY <1>1, <1>2, <1>4, <1>6, <1>7, <1>8 DEF Ring
<1> QED BY <1>9 DEF q, t, dpop_front


LEMMA PoppedBack ==
  ASSUME NEW d, NEW s, Ring(d, s), Len(s) # 0
  PROVE  Ring(dpop_back(d), SubSeq(s, 1, Len(s) - 1))
<1> DEFINE n == d.capacity
           b == d.beg
           e == d.end
           f == d.data
           l == Len(s)
           t == SubSeq(s, 1, Len(s) - 1)
           z == Before(e, n)
           q == [d EXCEPT !.end = decr(d, @), !.data[decr(d, d.end)] = Hole]
<1>1. /\ n \in Nat \ {0} /\ b \in 0 .. n - 1 /\ l \in Nat /\ l < n /\ s \in Seq(Value)
      /\ d = [capacity |-> n, beg |-> b, end |-> e, data |-> f] /\ l > 0
      /\ e = Wrap(b + l, n) /\ f = Cells(n, b, s)
  BY DEF Ring
<1>2. t \in Seq(Value) /\ Len(t) = l - 1 /\ \A i \in 1 .. l - 1 : t[i] = s[i]
  <2>1. s \in Seq(Value) /\ Len(s) - 1 \in 0 .. Len(s)
    BY <1>1
  <2> QED BY <2>1, CutFirst
<1>3. decr(d, e) = z /\ l - 1 \in 0 .. n - 1
  BY <1>1 DEF decr, Before
<1>4. z = Wrap(b + (l - 1), n) /\ z \in 0 .. n - 1 /\ Behind(b, n, z) = l - 1
  <2>1. b \in 0 .. n - 1 /\ n \in Nat \ {0} /\ l \in Nat /\ l < n /\ l > 0 /\ e = Wrap(b + l, n)
    BY <1>1
  <2> HIDE DEF n, b, l, e
  <2>2. Before(e, n) = Wrap(b + (l - 1), n)
    BY <2>1 DEF Wrap, Before
  <2>3. l - 1 \in 0 .. n - 1
    BY <2>1
  <2>4. Wrap(b + (l - 1), n) \in 0 .. n - 1 /\ Behind(b, n, Wrap(b + (l - 1), n)) = l - 1
    BY <2>1, <2>3, NextPlace
  <2> QED BY <2>2, <2>4
<1>5. \A c \in 0 .. n - 1 : Behind(b, n, c) \in 0 .. n - 1 /\ (c # z => Behind(b, n, c) # l - 1)
  <2>1. b \in 0 .. n - 1 /\ n \in Nat \ {0} /\ l - 1 \in 0 .. n - 1
    BY <1>1
  <2>2. z = Wrap(b + (l - 1), n)
    BY <1>4
  <2> HIDE DEF n, b, l, z
  <2> DEFINE m == l - 1
  <2>3. z = Wrap(b + m, n) /\ m \in 0 .. n - 1
    BY <2>1, <2>2
  <2> HIDE DEF m
  <2>4. \A c \in 0 .. n - 1 : Behind(b, n, c) \in 0 .. n - 1 /\ (c # z => Behind(b, n, c) # m)
    <3> TAKE c \in 0 .. n - 1
    <3>1. Behind(b, n, c) \in 0 .. n - 1 /\ (c # Wrap(b + m, n) => Behind(b, n, c) # m)
      BY <2>1, <2>3 DEF Wrap, Behind
    <3> QED BY <2>3, <3>1
  <2> QED BY <2>4 DEF m
<1> HIDE DEF n, b, e, f, l, t, z
<1>6. q = [capacity |-> n, beg |-> b, end |-> z, data |-> [f EXCEPT ![z] = Hole]]
  <2> DEFINE p == [d EXCEPT !.end = decr(d, d.end)]
  <2>1. d.end = e
    BY <1>1
  <2>2. p = [capacity |-> n, beg |-> b, end |-> z, data |-> f]
    BY <1>1, <1>3, <2>1
  <2>3. q = [p EXCEPT !.data[z] = Hole]
    BY <1>3, <2>1
  <2> HIDE DEF p, q
  <2> QED BY <2>2, <2>3
<1>7. [f EXCEPT ![z] = Hole] = Cells(n, b, t)
  <2>1. [f EXCEPT ![z] = Hole] = [c \in 0 .. n - 1 |-> IF c = z THEN Hole ELSE f[c]]
    BY <1>1 DEF Cells
  <2>2. ASSUME NEW c \in 0 .. n - 1
        PROVE  (IF c = z THEN Hole ELSE f[c])
               = IF Behind(b, n, c) < Len(t) THEN t[Behind(b, n, c) + 1] ELSE Hole
    <3> DEFINE k == Behind(b, n, c)
    <3>1. k \in 0 .. n - 1 /\ (c # z => k # l - 1) /\ (c = z => k = l - 1)
      BY <1>4, <1>5
    <3>2. f[c] = IF k < l THEN s[k + 1] ELSE Hole
      BY <1>1 DEF Cells, l
    <3> HIDE DEF k
    <3>3. k < Len(t) <=> (k < l /\ k # l - 1)
      <4>1. k \in Nat /\ l \in Nat /\ Len(t) = l - 1
        BY <1>1, <1>2, <3>1
      <4> HIDE DEF l, t
      <4> QED BY <4>1
    <3>4. k < Len(t) => t[k + 1] = s[k + 1]
      <4>1. k < Len(t) => k + 1 \in 1 .. l - 1
        BY <1>1, <1>2, <3>1
      <4> QED BY <1>2, <4>1
    <3>5. (IF c = z THEN Hole ELSE f[c]) = IF k < Len(t) THEN t[k + 1] ELSE Hole
      BY <3>1, <3>2, <3>3, <3>4
    <3> QED BY <3>5 DEF k
  <2> QED BY <2>1, <2>2 DEF Cells
<1> HIDE DEF q
<1>8. Len(t) < n /\ Wrap(b + Len(t), n) = z
  BY <1>1, <1>2, <1>4
<1>9. Ring(q, t)
  BY <1>1, <1>2, <1>6, <1>7, <1>8 DEF Ring
<1> QED BY <1>9 DEF q, t, dpop_back

\* erase leaves the elements before i and those from j on.
LEMMA Erased ==
  ASSUME NEW d, NEW s, Ring(d, s), NEW i \in 0 .. Len(s), NEW j \in 0 .. Len(s), i < j
  PROVE  Ring(derase(d, i, j), SubSeq(s, 1, i) \o SubSeq(s, j + 1, Len(s)))
<1> DEFINE n == d.capacity
           b == d.beg
           e == d.end
           f == d.data
           l == Len(s)
           w == j - i
           t == SubSeq(s, 1, i) \o SubSeq(s, j + 1, Len(s))
           q == derase(d, i, j)
           cell(k) == (b + k) % n
           new == [c \in 0 .. n - 1 |->
                    IF \E k \in 0 .. (l - j - 1) : c = cell(i + k)
                    THEN f[cell(j + CHOOSE k \in 0 .. (l - j - 1) : c = cell(i + k))]
                    ELSE IF \E k \in (i + (l - j)) .. (l - 1) : c = cell(k)
                    THEN Hole ELSE f[c]]
<1>1. /\ n \in Nat \ {0} /\ b \in 0 .. n - 1 /\ l \in Nat /\ l < n /\ s \in Seq(Value)
      /\ d = [capacity |-> n, beg |-> b, end |-> e, data |-> f]
      /\ e = Wrap(b + l, n) /\ f = Cells(n, b, s)
  BY DEF Ring
<1>4. dsize(d) = l /\ i \in Nat /\ j \in Nat /\ i < j /\ j <= l
  <2>1. l \in Nat /\ dsize(d) = l
    BY RingSize
  <2> QED BY <2>1
<1>2. /\ t \in Seq(Value) /\ Len(t) = l - w
      /\ \A k \in 0 .. l - w - 1 : t[k + 1] = IF k < i THEN s[k + 1] ELSE s[k + w + 1]
  <2>1. s \in Seq(Value) /\ i \in Nat /\ j \in Nat /\ i <= j /\ j <= Len(s)
        /\ t = SubSeq(s, 1, i) \o SubSeq(s, j + 1, Len(s))
    BY <1>1, <1>4
  <2>2. Without(t, Value, s, i, j)
    BY <2>1, TakenOut
  <2> HIDE DEF t
  <2> QED BY <2>2 DEF Without
<1>5. DOMAIN f = 0 .. n - 1
  BY <1>1 DEF Cells
<1> HIDE DEF n, b, e, f, l, w, t
<1>3. q = [capacity |-> n, beg |-> b, end |-> (e + n - w) % n, data |-> new]
  <2>1. d.capacity = n /\ d.beg = b /\ d.end = e /\ d.data = f
    BY DEF n, b, e, f
  <2>2. q = [d EXCEPT !.end = (e + n - w) % n, !.data = new]
    BY <1>4, <1>5, <2>1 DEF derase, w
  <2> HIDE DEF q, new
  <2> QED BY <1>1, <2>2

<1> HIDE DEF q, cell
<1>6. \A k, c \in 0 .. n - 1 : cell(k) \in 0 .. n - 1 /\ (c = cell(k) <=> k = Behind(b, n, c))
  <2>1. n \in Nat \ {0} /\ b \in 0 .. n - 1
    BY <1>1
  <2>2. \A k \in 0 .. n - 1 : cell(k) \in 0 .. n - 1 /\ Behind(b, n, cell(k)) = k
    BY <2>1, PlaceOf DEF cell
  <2>3. \A c \in 0 .. n - 1 : c = cell(Behind(b, n, c))
    BY <2>1, PlaceIs DEF cell
  <2> QED BY <2>2, <2>3
<1>7. \A c \in 0 .. n - 1 : Behind(b, n, c) \in 0 .. n - 1
  BY <1>1, PlaceIs
<1>8. l \in Nat /\ w \in Nat /\ w = j - i /\ l - w \in Nat /\ l < n /\ n \in Nat
  BY <1>1, <1>4 DEF w
<1>9. ASSUME NEW c \in 0 .. n - 1
      PROVE  new[c] = IF Behind(b, n, c) < l - w THEN t[Behind(b, n, c) + 1] ELSE Hole
  <2> DEFINE k == Behind(b, n, c)
             moved(g) == g \in 0 .. (l - j - 1) /\ c = cell(i + g)
  <2>1. k \in 0 .. n - 1 /\ \A g \in 0 .. n - 1 : c = cell(g) <=> g = k
    BY <1>6, <1>7
  <2>2. \A g \in 0 .. n - 1 : f[cell(g)] = IF g < l THEN s[g + 1] ELSE Hole
    <3> TAKE g \in 0 .. n - 1
    <3>1. cell(g) \in 0 .. n - 1 /\ Behind(b, n, cell(g)) = g
      BY <1>6
    <3> QED BY <1>1, <3>1 DEF Cells, l
  <2>3. c = cell(k) /\ f[c] = IF k < l THEN s[k + 1] ELSE Hole
    BY <2>1, <2>2
  <2> HIDE DEF k
  <2>4. \A g \in 0 .. (l - j - 1) : c = cell(i + g) <=> g = k - i
    <3> TAKE g \in 0 .. (l - j - 1)
    <3>1. i + g \in 0 .. n - 1 /\ (i + g = k <=> g = k - i)
      BY <1>4, <1>8, <2>1
    <3> QED BY <2>1, <3>1
  <2>5. CASE \E g \in 0 .. (l - j - 1) : c = cell(i + g)
    <3>1. (CHOOSE g \in 0 .. (l - j - 1) : c = cell(i + g)) = k - i
      BY <2>4, <2>5
    <3>2. k - i \in 0 .. (l - j - 1)
      BY <2>4, <2>5
    <3>3. new[c] = f[cell(j + (k - i))]
      BY <2>5, <3>1
    <3>4. j + (k - i) \in 0 .. n - 1 /\ j + (k - i) < l /\ j + (k - i) + 1 = k + w + 1
      BY <1>4, <1>8, <2>1, <3>2
    <3>5. new[c] = s[k + w + 1]
      BY <2>2, <3>3, <3>4
    <3>6. k \in 0 .. l - w - 1 /\ ~(k < i) /\ k < l - w
      BY <1>4, <1>8, <2>1, <3>2
    <3> QED BY <1>2, <3>5, <3>6 DEF k
  <2>6. CASE ~ \E g \in 0 .. (l - j - 1) : c = cell(i + g)
    <3>1. k < i \/ k >= l - w
      <4>1. k >= i /\ k < l - w => k - i \in 0 .. (l - j - 1)
        BY <1>4, <1>8, <2>1
      <4>2. ~(k >= i /\ k < l - w)
        BY <2>4, <2>6, <4>1
      <4> QED BY <4>2, <1>4, <1>8, <2>1
    <3>2. (\E g \in (i + (l - j)) .. (l - 1) : c = cell(g)) <=> k >= l - w /\ k < l
      <4>1. \A g \in (i + (l - j)) .. (l - 1) : g \in 0 .. n - 1 /\ g >= l - w /\ g < l
        BY <1>4, <1>8
      <4>2. k >= l - w /\ k < l => k \in (i + (l - j)) .. (l - 1)
        BY <1>4, <1>8, <2>1
      <4>3. (\E g \in (i + (l - j)) .. (l - 1) : c = cell(g)) => k >= l - w /\ k < l
        BY <2>1, <4>1
      <4>4. k >= l - w /\ k < l => \E g \in (i + (l - j)) .. (l - 1) : c = cell(g)
        BY <2>3, <4>2
      <4> QED BY <4>3, <4>4
    <3>3. new[c] = IF k >= l - w /\ k < l THEN Hole ELSE f[c]
      BY <2>6, <3>2
    <3> HIDE DEF new
    <3>4. CASE k < l - w
      <4>1. k < i /\ k \in 0 .. l - w - 1 /\ k < l
        BY <1>8, <2>1, <3>1, <3>4
      <4>2. new[c] = s[k + 1] /\ t[k + 1] = s[k + 1]
        BY <1>2, <1>8, <2>1, <2>3, <3>3, <3>4, <4>1, SMTT(30)
      <4> QED BY <3>4, <4>2 DEF k
    <3>5. CASE ~(k < l - w)
      <4>1. new[c] = Hole
        BY <1>8, <2>1, <2>3, <3>3, <3>5
      <4> QED BY <3>5, <4>1 DEF k
    <3> QED BY <3>4, <3>5
  <2> QED BY <2>5, <2>6
<1>10. new = Cells(n, b, t)
  <2>1. new = [c \in 0 .. n - 1 |-> new[c]]
    OBVIOUS
  <2> HIDE DEF new
  <2> QED BY <1>2, <1>9, <2>1 DEF Cells
<1>11. (e + n - w) % n = Wrap(b + (l - w), n)
  <2>1. n \in Nat \ {0} /\ b \in 0 .. n - 1 /\ l < n /\ e = Wrap(b + l, n) /\ w <= l /\ w > 0
    BY <1>1, <1>4, <1>8
  <2>2. e + n - w \in 0 .. n + n - 1
    BY <1>8, <2>1 DEF Wrap
  <2>3. (e + n - w) % n = Wrap(e + n - w, n)
    BY <2>1, <2>2, Wrapped
  <2>4. CASE b + l < n
    BY <1>8, <2>1, <2>3, <2>4 DEF Wrap
  <2>5. CASE ~(b + l < n)
    BY <1>8, <2>1, <2>3, <2>5 DEF Wrap
  <2> QED BY <2>4, <2>5
<1> HIDE DEF new
<1>12. Len(t) < n
  BY <1>2, <1>8
<1>13. Ring(q, t)
  BY <1>1, <1>2, <1>3, <1>10, <1>11, <1>12 DEF Ring
<1> QED BY <1>13 DEF q, t


-----------------------------------------------------------------------------
(* The vector.  Vec(v, s, S): the first cells of v hold s, elements of S.    *)

Filled(n, s) == [k \in 0 .. n - 1 |-> IF k < Len(s) THEN s[k + 1] ELSE Unset]
Vec(v, s, S) ==
  /\ v = [size |-> Len(s), capacity |-> v.capacity, data |-> v.data]
  /\ v.capacity \in Nat /\ s \in Seq(S) /\ Len(s) <= v.capacity
  /\ v.data = Filled(v.capacity, s)

LEMMA VecMade ==
  ASSUME NEW S, NEW n \in Nat, NEW s \in Seq(S), Len(s) <= n
  PROVE  Vec([size |-> Len(s), capacity |-> n, data |-> Filled(n, s)], s, S)
BY DEF Vec

LEMMA VecParts ==
  ASSUME NEW v, NEW s, NEW S, Vec(v, s, S)
  PROVE  /\ \E n \in Nat : Len(s) <= n /\ v = [size |-> Len(s), capacity |-> n, data |-> Filled(n, s)]
         /\ s \in Seq(S) /\ v.size = Len(s) /\ Len(s) \in Nat
<1>1. v.size = Len(s)
  BY DEF Vec
<1>2. v.capacity \in Nat /\ Len(s) <= v.capacity /\ s \in Seq(S)
      /\ v = [size |-> Len(s), capacity |-> v.capacity, data |-> Filled(v.capacity, s)]
  BY DEF Vec
<1> QED BY <1>1, <1>2

LEMMA EmptyVec ==
  ASSUME NEW S
  PROVE  Vec(EmptyVector, <<>>, S)
<1>1. <<>> = Filled(0, <<>>)
  BY DEF Filled
<1>2. Len(<<>>) = 0 /\ <<>> \in Seq(S)
  OBVIOUS
<1> QED BY <1>1, <1>2 DEF Vec, EmptyVector

\* The cells are those of s, and the class invariant holds.
LEMMA VecIs ==
  ASSUME NEW v, NEW s, NEW S, Vec(v, s, S), Unset \notin S
  PROVE  Items(v) = s /\ VectorSound(v)
<1>1. PICK n \in Nat : Len(s) <= n /\ v = [size |-> Len(s), capacity |-> n, data |-> Filled(n, s)]
  BY VecParts
<1>2. s \in Seq(S) /\ Len(s) \in Nat
  BY VecParts
<1>3. v.size = Len(s) /\ v.capacity = n /\ v.data = Filled(n, s)
  BY <1>1
<1>4. Items(v) = s
  <2>1. \A i \in 1 .. Len(s) : v.data[i - 1] = s[i]
    BY <1>1, <1>2, <1>3 DEF Filled
  <2>2. s = [i \in 1 .. Len(s) |-> s[i]]
    BY <1>2
  <2> QED BY <1>3, <2>1, <2>2 DEF Items
<1>5. \A k \in 0 .. n - 1 : (v.data[k] # Unset) = (k < v.size)
  <2> TAKE k \in 0 .. n - 1
  <2>1. v.data[k] = IF k < Len(s) THEN s[k + 1] ELSE Unset
    BY <1>3 DEF Filled
  <2>2. k < Len(s) => s[k + 1] \in S
    BY <1>2
  <2> QED BY <1>3, <2>1, <2>2
<1>6. DOMAIN v.data = 0 .. n - 1
  BY <1>3 DEF Filled
<1> QED BY <1>1, <1>3, <1>4, <1>5, <1>6 DEF VectorSound

LEMMA VReserved ==
  ASSUME NEW v, NEW s, NEW S, Vec(v, s, S), NEW m \in Nat, Len(s) <= m
  PROVE  Vec(vreserve(v, m), s, S) /\ m <= vreserve(v, m).capacity
<1>1. PICK n \in Nat : Len(s) <= n /\ v = [size |-> Len(s), capacity |-> n, data |-> Filled(n, s)]
  BY VecParts
<1>2. s \in Seq(S) /\ Len(s) \in Nat
  BY VecParts
<1>3. v.size = Len(s) /\ v.capacity = n /\ v.data = Filled(n, s)
  BY <1>1
<1>4. CASE v.size > 0 /\ m <= v.capacity
  BY <1>4 DEF vreserve
<1>5. CASE ~(v.size > 0 /\ m <= v.capacity)
  <2> DEFINE c == vstrategy(m)
             x == vreserve(v, m)
  <2>1. c \in Nat /\ m <= c
    BY StrategyGrows
  <2>2. x = [v EXCEPT !.capacity = c,
                      !.data = [k \in 0 .. (c - 1) |-> IF k < v.size THEN v.data[k] ELSE Unset]]
    BY <1>5 DEF vreserve, Array
  <2> HIDE DEF c
  <2>3. [k \in 0 .. (c - 1) |-> IF k < v.size THEN v.data[k] ELSE Unset] = Filled(c, s)
    BY <1>1, <1>2, <1>3, <2>1 DEF Filled
  <2> HIDE DEF x
  <2>4. x = [size |-> Len(s), capacity |-> c, data |-> Filled(c, s)]
    BY <1>1, <2>2, <2>3
  <2>5. Vec(x, s, S) /\ x.capacity = c
    BY <1>1, <1>2, <2>1, <2>4, VecMade
  <2> QED BY <2>1, <2>5 DEF x
<1> QED BY <1>4, <1>5

LEMMA VPushed ==
  ASSUME NEW v, NEW s, NEW S, Vec(v, s, S), NEW e \in S
  PROVE  Vec(vpush_back(v, e), Append(s, e), S)
<1> DEFINE r == vreserve(v, v.size + 1)
           l == Len(s)
           t == Append(s, e)
           q == [r EXCEPT !.data[v.size] = e, !.size = @ + 1]
<1>1. v.size = l /\ l \in Nat /\ s \in Seq(S)
  BY VecParts
<1>2. Vec(r, s, S) /\ l + 1 <= r.capacity
  BY <1>1, VReserved
<1> HIDE DEF r
<1>3. PICK n \in Nat : Len(s) <= n /\ r = [size |-> Len(s), capacity |-> n, data |-> Filled(n, s)]
  BY <1>2, VecParts
<1>4. l + 1 <= n /\ r.capacity = n
  BY <1>2, <1>3
<1>5. t \in Seq(S) /\ Len(t) = l + 1 /\ t[l + 1] = e /\ \A i \in 1 .. l : t[i] = s[i]
  BY <1>1
<1> DEFINE f == Filled(n, s)
<1> HIDE DEF f
<1>6. q = [size |-> l + 1, capacity |-> n, data |-> [f EXCEPT ![l] = e]]
  <2> DEFINE p == [r EXCEPT !.data[l] = e]
  <2>1. p = [size |-> l, capacity |-> n, data |-> [f EXCEPT ![l] = e]]
    BY <1>3 DEF f
  <2>2. q = [p EXCEPT !.size = l + 1]
    BY <1>1, <1>3
  <2> HIDE DEF p, q
  <2> QED BY <2>1, <2>2
<1> HIDE DEF t
<1>7. [f EXCEPT ![l] = e] = Filled(n, t)
  <2>1. [f EXCEPT ![l] = e] = [k \in 0 .. n - 1 |-> IF k = l THEN e ELSE f[k]]
    BY DEF f, Filled
  <2>2. \A k \in 0 .. n - 1 : f[k] = IF k < l THEN s[k + 1] ELSE Unset
    BY DEF f, Filled
  <2> HIDE DEF l
  <2>3. ASSUME NEW k \in 0 .. n - 1
        PROVE  (IF k = l THEN e ELSE f[k]) = IF k < Len(t) THEN t[k + 1] ELSE Unset
    <3>1. k < l => k + 1 \in 1 .. l
      BY <1>1
    <3>2. k < Len(t) <=> k < l \/ k = l
      BY <1>1, <1>5
    <3> QED BY <1>1, <1>5, <2>2, <3>1, <3>2
  <2> QED BY <2>1, <2>3 DEF Filled
<1>8. Vec(q, t, S)
  <2>1. q = [size |-> Len(t), capacity |-> n, data |-> Filled(n, t)]
    BY <1>5, <1>6, <1>7
  <2> QED BY <1>4, <1>5, <2>1, VecMade
<1> QED BY <1>8 DEF t, r, vpush_back

\* s with e put in before the element i, counted from 0.
Put(s, i, e) ==
  [k \in 1 .. Len(s) + 1 |-> IF k <= i THEN s[k] ELSE IF k = i + 1 THEN e ELSE s[k - 1]]

With(t, S, s, i, e) ==
  /\ t \in Seq(S) /\ Len(t) = Len(s) + 1
  /\ \A k \in 0 .. Len(s) : t[k + 1] = IF k < i THEN s[k + 1] ELSE IF k = i THEN e ELSE s[k]
  /\ i = Len(s) => t = Append(s, e)

LEMMA PutIn ==
  ASSUME NEW S, NEW s \in Seq(S), NEW i \in 0 .. Len(s), NEW e \in S
  PROVE  With(Put(s, i, e), S, s, i, e)
<1> DEFINE l == Len(s)
           f == Put(s, i, e)
<1>1. l \in Nat /\ i \in 0 .. l
  OBVIOUS
<1>2. \A k \in 1 .. l : s[k] \in S
  OBVIOUS
<1>3. f = [k \in 1 .. l + 1 |-> IF k <= i THEN s[k] ELSE IF k = i + 1 THEN e ELSE s[k - 1]]
  BY DEF Put
<1>4. i = l => f = Append(s, e)
  <2> SUFFICES ASSUME i = l PROVE f = Append(s, e)
    OBVIOUS
  <2>1. Append(s, e) = [k \in 1 .. l + 1 |-> IF k <= l THEN s[k] ELSE e]
    <3> DEFINE a == Append(s, e)
    <3>1. a \in Seq(S) /\ Len(a) = l + 1 /\ (\A k \in 1 .. l : a[k] = s[k]) /\ a[l + 1] = e
      BY AppendProperties
    <3> HIDE DEF a, l
    <3>2. a = [k \in 1 .. l + 1 |-> a[k]]
      BY <3>1
    <3>3. \A k \in 1 .. l + 1 : a[k] = IF k <= l THEN s[k] ELSE e
      BY <1>1, <3>1
    <3>4. a = [k \in 1 .. l + 1 |-> IF k <= l THEN s[k] ELSE e]
      BY <3>2, <3>3
    <3> QED BY <3>4 DEF a
  <2> HIDE DEF l
  <2>2. \A k \in 1 .. l + 1 : (IF k <= i THEN s[k] ELSE IF k = i + 1 THEN e ELSE s[k - 1])
                              = IF k <= l THEN s[k] ELSE e
    BY <1>1
  <2> QED BY <1>3, <2>1, <2>2
<1> HIDE DEF f, l
<1>5. \A k \in 1 .. l + 1 : f[k] \in S
  BY <1>1, <1>2, <1>3
<1>6. f \in Seq(S) /\ Len(f) = l + 1
  BY <1>1, <1>3, <1>5
<1>7. \A k \in 0 .. l : f[k + 1] = IF k < i THEN s[k + 1] ELSE IF k = i THEN e ELSE s[k]
  <2> TAKE k \in 0 .. l
  <2>1. k + 1 \in 1 .. l + 1 /\ (k + 1 <= i <=> k < i) /\ (k + 1 = i + 1 <=> k = i)
        /\ (k + 1) - 1 = k
    BY <1>1
  <2> QED BY <1>3, <2>1
<1>8. With(f, S, s, i, e)
  BY <1>4, <1>6, <1>7 DEF l, With
<1> QED BY <1>8 DEF f

LEMMA VInserted ==
  ASSUME NEW v, NEW s, NEW S, Vec(v, s, S), NEW e \in S, NEW i \in 0 .. Len(s)
  PROVE  Vec(vinsert(v, i, e), Put(s, i, e), S)
<1> DEFINE l == Len(s)
           t == Put(s, i, e)
<1>1. v.size = l /\ l \in Nat /\ s \in Seq(S) /\ i \in 0 .. l
  BY VecParts
<1>2. PICK n \in Nat : Len(s) <= n /\ v = [size |-> Len(s), capacity |-> n, data |-> Filled(n, s)]
  BY VecParts
<1>3. /\ t \in Seq(S) /\ Len(t) = l + 1
      /\ \A k \in 0 .. l : t[k + 1] = IF k < i THEN s[k + 1] ELSE IF k = i THEN e ELSE s[k]
      /\ i = l => t = Append(s, e)
  <2>1. s \in Seq(S) /\ i \in 0 .. Len(s) /\ e \in S
    BY <1>1
  <2>2. With(t, S, s, i, e)
    BY <2>1, PutIn
  <2> HIDE DEF t
  <2> QED BY <2>2 DEF With
<1> HIDE DEF t
<1>4. CASE i = l
  <2>1. Vec(vpush_back(v, e), Append(s, e), S)
    BY VPushed
  <2> QED BY <1>1, <1>3, <1>4, <2>1 DEF vinsert, t
<1>5. CASE i # l
  <2> DEFINE c == IF v.capacity = v.size THEN vstrategy(v.size + 1) ELSE v.capacity
             new == Shifted(v, c, i, e)
  <2>1. c \in Nat /\ l + 1 <= c
    <3>1. vstrategy(l + 1) \in Nat /\ l + 2 < vstrategy(l + 1)
      <4>1. l + 1 \in Nat
        BY <1>1
      <4>2. strategy(l + 1) \in Nat /\ l + 1 + 1 < strategy(l + 1) /\ vstrategy(l + 1) = strategy(l + 1)
        BY <4>1, StrategyGrows
      <4> QED BY <1>1, <4>2
    <3>2. v.capacity = n /\ v.size = l /\ l <= n
      BY <1>2
    <3> HIDE DEF l
    <3> QED BY <1>1, <3>1, <3>2
  <2> HIDE DEF c
  <2>2. new = [k \in 0 .. (c - 1) |->
                 IF k < i THEN v.data[k] ELSE IF k = i THEN e
                 ELSE IF k <= v.size THEN v.data[k - 1] ELSE Unset]
    BY DEF Shifted, Array
  <2>3. \A k \in 0 .. l - 1 : v.data[k] = s[k + 1]
    BY <1>1, <1>2 DEF Filled
  <2> HIDE DEF new, l
  <2>4. ASSUME NEW k \in 0 .. c - 1
        PROVE  (IF k < i THEN v.data[k] ELSE IF k = i THEN e
                ELSE IF k <= v.size THEN v.data[k - 1] ELSE Unset)
               = IF k < Len(t) THEN t[k + 1] ELSE Unset
    <3>1. k < i => v.data[k] = s[k + 1]
      BY <1>1, <2>3
    <3>2. k > i /\ k <= l => v.data[k - 1] = s[k]
      <4>1. k > i /\ k <= l => k - 1 \in 0 .. l - 1 /\ k - 1 + 1 = k
        BY <1>1
      <4> QED BY <2>3, <4>1
    <3>3. k < Len(t) <=> k <= l
      BY <1>1, <1>3
    <3> QED BY <1>1, <1>3, <3>1, <3>2, <3>3
  <2>5. new = Filled(c, t)
    BY <2>2, <2>4 DEF Filled
  <2>6. vinsert(v, i, e) = [size |-> Len(t), capacity |-> c, data |-> Filled(c, t)]
    BY <1>1, <1>3, <1>5, <2>5 DEF vinsert, c, new
  <2>7. Len(t) <= c
    BY <1>1, <1>3, <2>1
  <2>8. Vec([size |-> Len(t), capacity |-> c, data |-> Filled(c, t)], t, S)
    BY <1>3, <2>1, <2>7, VecMade
  <2> QED BY <2>6, <2>8 DEF t
<1> QED BY <1>4, <1>5

LEMMA VErased ==
  ASSUME NEW v, NEW s, NEW S, Vec(v, s, S), NEW i \in Nat, NEW j \in Nat, i <= j, j <= Len(s),
         NEW t, Without(t, S, s, i, j)
  PROVE  Vec(verase(v, i, j), t, S)
<1> DEFINE l == Len(s)
           w == j - i
           q == verase(v, i, j)
<1>1. v.size = l /\ l \in Nat /\ s \in Seq(S) /\ w \in Nat /\ w = j - i /\ w <= l /\ i + w <= l
  BY VecParts
<1>2. PICK n \in Nat : Len(s) <= n /\ v = [size |-> Len(s), capacity |-> n, data |-> Filled(n, s)]
  BY VecParts
<1>3. /\ t \in Seq(S) /\ Len(t) = l - w
      /\ \A k \in 0 .. l - w - 1 : t[k + 1] = IF k < i THEN s[k + 1] ELSE s[k + w + 1]
  BY DEF Without
<1> DEFINE new == [k \in 0 .. (n - 1) |-> IF k < i THEN v.data[k]
                                          ELSE IF k < l - w THEN v.data[k + w] ELSE Unset]
<1>4. \A k \in 0 .. l - 1 : v.data[k] = s[k + 1]
  BY <1>1, <1>2 DEF Filled
<1>5. q = [v EXCEPT !.size = l - w, !.data = new]
  BY <1>1, <1>2 DEF verase, Array
<1>8. v.capacity = n /\ l <= n
  BY <1>2
<1>9. v = [size |-> l, capacity |-> n, data |-> Filled(n, s)]
  BY <1>2
<1> HIDE DEF l, w, q
<1>6. ASSUME NEW k \in 0 .. n - 1
      PROVE  (IF k < i THEN v.data[k] ELSE IF k < l - w THEN v.data[k + w] ELSE Unset)
             = IF k < Len(t) THEN t[k + 1] ELSE Unset
  <2>1. k < i => k \in 0 .. l - 1 /\ k < l - w
    BY <1>1
  <2>2. k < l - w => k + w \in 0 .. l - 1 /\ k \in 0 .. l - w - 1
    BY <1>1
  <2>3. k < i => v.data[k] = s[k + 1]
    BY <1>4, <2>1
  <2>4. k < l - w => v.data[k + w] = s[k + w + 1]
    BY <1>4, <2>2
  <2> QED BY <1>3, <2>1, <2>2, <2>3, <2>4
<1>7. new = Filled(n, t)
  BY <1>6 DEF Filled
<1> HIDE DEF new
<1>10. q = [size |-> Len(t), capacity |-> n, data |-> Filled(n, t)]
  BY <1>3, <1>5, <1>7, <1>9
<1>11. Len(t) <= n
  BY <1>1, <1>3, <1>8
<1>12. Vec(q, t, S)
  BY <1>3, <1>10, <1>11, VecMade
<1> QED BY <1>12 DEF q

\* What resize and pop_back leave of a vector, and the copy of it.
LEMMA VShrunk ==
  ASSUME NEW v, NEW s, NEW S, Vec(v, s, S), NEW n \in 0 .. Len(s)
  PROVE  Vec(verase(v, n, v.size), SubSeq(s, 1, n), S)
<1>1. v.size = Len(s) /\ Len(s) \in Nat /\ s \in Seq(S) /\ n \in Nat /\ n <= Len(s)
  BY VecParts
<1> DEFINE t == SubSeq(s, 1, n)
<1>2. t \in Seq(S) /\ Len(t) = n /\ \A i \in 1 .. n : t[i] = s[i]
  BY <1>1, CutFirst
<1> HIDE DEF t
<1>3. Without(t, S, s, n, Len(s))
  <2>1. Len(s) - (Len(s) - n) = n
    BY <1>1
  <2>2. \A k \in 0 .. n - 1 : k < n /\ k + 1 \in 1 .. n
    BY <1>1
  <2> QED BY <1>2, <2>1, <2>2 DEF Without
<1>4. Vec(verase(v, n, Len(s)), t, S)
  BY <1>1, <1>3, VErased
<1> QED BY <1>1, <1>4 DEF t

LEMMA VGrown ==
  ASSUME NEW v, NEW s, NEW S, Vec(v, s, S), NEW x \in S, NEW n \in Nat, n > Len(s)
  PROVE  Vec(vresize(v, n, x), s \o [i \in 1 .. n - Len(s) |-> x], S)
<1> DEFINE r == vreserve(v, n)
           l == Len(s)
           y == [i \in 1 .. n - l |-> x]
           t == s \o y
<1>1. v.size = l /\ l \in Nat /\ s \in Seq(S) /\ l < n
  BY VecParts
<1>2. Vec(r, s, S) /\ n <= r.capacity
  BY <1>1, VReserved
<1> HIDE DEF r
<1>3. PICK c \in Nat : Len(s) <= c /\ r = [size |-> Len(s), capacity |-> c, data |-> Filled(c, s)]
  BY <1>2, VecParts
<1>4. n <= c /\ r.capacity = c /\ DOMAIN r.data = 0 .. c - 1
      /\ \A k \in 0 .. c - 1 : r.data[k] = IF k < l THEN s[k + 1] ELSE Unset
  BY <1>2, <1>3 DEF Filled
<1>5. y \in Seq(S) /\ Len(y) = n - l /\ \A i \in 1 .. n - l : y[i] = x
  BY <1>1
<1> HIDE DEF y
<1>6. /\ t \in Seq(S) /\ Len(t) = Len(s) + Len(y)
      /\ \A i \in 1 .. Len(s) + Len(y) : t[i] = IF i <= Len(s) THEN s[i] ELSE y[i - Len(s)]
  BY <1>1, <1>5, ConcatProperties, Zenon
<1>7. Len(t) = n /\ \A i \in 1 .. n : t[i] = IF i <= l THEN s[i] ELSE x
  <2>1. Len(t) = n
    BY <1>1, <1>5, <1>6
  <2> HIDE DEF t
  <2>2. ASSUME NEW i \in 1 .. n PROVE t[i] = IF i <= l THEN s[i] ELSE x
    <3>1. i \in 1 .. Len(s) + Len(y) /\ (~(i <= l) => i - l \in 1 .. n - l)
      BY <1>1, <1>5
    <3> QED BY <1>1, <1>5, <1>6, <3>1
  <2> QED BY <2>1, <2>2
<1> DEFINE new == [k \in DOMAIN r.data |-> IF k >= l /\ k < n THEN x ELSE r.data[k]]
           q == vresize(v, n, x)
<1>8. q = [r EXCEPT !.size = n, !.data = new]
  BY <1>1, <1>4 DEF vresize, r
<1> HIDE DEF t, q
<1>9. new = Filled(c, t)
  <2>1. new = [k \in 0 .. c - 1 |-> IF k >= l /\ k < n THEN x ELSE r.data[k]]
    BY <1>4
  <2> HIDE DEF l, new
  <2>2. ASSUME NEW k \in 0 .. c - 1
        PROVE  (IF k >= l /\ k < n THEN x ELSE r.data[k]) = IF k < Len(t) THEN t[k + 1] ELSE Unset
    <3>1. k < n => k + 1 \in 1 .. n /\ (k + 1 <= l <=> k < l)
      BY <1>1
    <3>2. k < n => t[k + 1] = IF k < l THEN s[k + 1] ELSE x
      BY <1>7, <3>1
    <3> QED BY <1>1, <1>4, <1>7, <3>2
  <2> QED BY <2>1, <2>2 DEF Filled
<1> HIDE DEF new
<1>10. q = [size |-> Len(t), capacity |-> c, data |-> Filled(c, t)]
  BY <1>3, <1>7, <1>8, <1>9
<1>11. Vec(q, t, S)
  <2>1. Len(t) <= c
    BY <1>4, <1>7
  <2> QED BY <1>6, <1>10, <2>1, VecMade
<1> QED BY <1>11 DEF q, t, y, l

LEMMA VCopied ==
  ASSUME NEW v, NEW s, NEW S, Vec(v, s, S)
  PROVE  Vec(vcopy(v), s, S)
<1> DEFINE l == Len(s)
           r == vreserve(EmptyVector, v.size)
<1>1. v.size = l /\ l \in Nat /\ s \in Seq(S)
  BY VecParts
<1>2. Vec(EmptyVector, <<>>, S) /\ Len(<<>>) = 0
  BY EmptyVec
<1>3. Vec(r, <<>>, S) /\ l <= r.capacity
  BY <1>1, <1>2, VReserved
<1> HIDE DEF r
<1>4. PICK c \in Nat : 0 <= c /\ r = [size |-> 0, capacity |-> c, data |-> Filled(c, <<>>)]
  BY <1>2, <1>3, VecParts
<1>5. l <= c /\ DOMAIN r.data = 0 .. c - 1 /\ \A k \in 0 .. c - 1 : r.data[k] = Unset
  BY <1>2, <1>3, <1>4 DEF Filled
<1>6. PICK n \in Nat : Len(s) <= n /\ v = [size |-> Len(s), capacity |-> n, data |-> Filled(n, s)]
  BY VecParts
<1>7. \A k \in 0 .. l - 1 : v.data[k] = s[k + 1]
  BY <1>1, <1>6 DEF Filled
<1> DEFINE q == vcopy(v)
           new == [k \in DOMAIN r.data |-> IF k < v.size THEN v.data[k] ELSE Unset]
<1>8. q = [r EXCEPT !.size = v.size, !.data = new]
  BY DEF vcopy, r
<1>9. new = Filled(c, s)
  <2> HIDE DEF q
  <2>1. \A k \in 0 .. c - 1 : k < l => k \in 0 .. l - 1
    BY <1>1
  <2> QED BY <1>1, <1>5, <1>7, <2>1 DEF Filled
<1> HIDE DEF new, q
<1>10. q = [size |-> Len(s), capacity |-> c, data |-> Filled(c, s)]
  BY <1>1, <1>4, <1>8, <1>9
<1>11. Vec(q, s, S)
  BY <1>1, <1>5, <1>10, VecMade
<1> QED BY <1>11 DEF q

-----------------------------------------------------------------------------
(* lower_bound.                                                              *)

Ranges(n) == {r \in (0 .. n) \X (0 .. n) : r[1] + r[2] <= n}
\* One more halving of a range <<first, count>>, with f for the half.
Halved(v, k, f) ==
  [r \in Ranges(v.size) |->
     IF r[2] = 0 THEN r[1]
     ELSE IF Key(v.data[r[1] + (r[2] \div 2)]) < k
          THEN f[<<r[1] + (r[2] \div 2) + 1, r[2] - (r[2] \div 2) - 1>>]
          ELSE f[<<r[1], r[2] \div 2>>]]

LEMMA Bisection ==
  ASSUME NEW v, NEW k
  PROVE  lower_bound(v, k) = (CHOOSE f : f = Halved(v, k, f))[<<0, v.size>>]
BY DEF lower_bound, Halved, Ranges

\* i divides the c elements from a on: those below k, and the others.
Divides(v, k, a, c, i) ==
  /\ i \in a .. a + c
  /\ \A j \in a .. i - 1 : Key(v.data[j]) < k
  /\ \A j \in i .. a + c - 1 : ~(Key(v.data[j]) < k)

Ordered(v) ==
  /\ v.size \in Nat /\ \A i \in 0 .. v.size - 1 : Key(v.data[i]) \in Int
  /\ \A i, j \in 0 .. v.size - 1 : i < j => Key(v.data[i]) < Key(v.data[j])

LEMMA Half ==
  ASSUME NEW c \in Nat, c > 0
  PROVE  /\ c \div 2 \in Nat /\ c \div 2 < c /\ c - (c \div 2) - 1 \in Nat
         /\ c - (c \div 2) - 1 < c
OBVIOUS

\* The half that is left is divided where the whole is.
LEMMA HalfDivides ==
  ASSUME NEW v, Ordered(v), NEW k \in Int, NEW a \in Nat, NEW c \in Nat, a + c <= v.size, c > 0,
         NEW h \in Nat, h < c, NEW i
  PROVE  /\ Key(v.data[a + h]) < k /\ Divides(v, k, a + h + 1, c - h - 1, i)
              => Divides(v, k, a, c, i)
         /\ ~(Key(v.data[a + h]) < k) /\ Divides(v, k, a, h, i) => Divides(v, k, a, c, i)
<1> DEFINE K(j) == Key(v.data[j])
           n == v.size
<1>1. n \in Nat /\ (\A j \in 0 .. n - 1 : K(j) \in Int)
      /\ \A j, m \in 0 .. n - 1 : j < m => K(j) < K(m)
  BY DEF Ordered
<1>2. a + c <= n
  OBVIOUS
<1>3. ASSUME K(a + h) < k, Divides(v, k, a + h + 1, c - h - 1, i)
      PROVE  Divides(v, k, a, c, i)
  <2>1. /\ i \in a + h + 1 .. a + h + 1 + (c - h - 1)
        /\ \A j \in a + h + 1 .. i - 1 : K(j) < k
        /\ \A j \in i .. a + h + 1 + (c - h - 1) - 1 : ~(K(j) < k)
    BY <1>3 DEF Divides
  <2> HIDE DEF K, n
  <2>2. i \in a .. a + c /\ i \in Int
    BY <2>1
  <2>3. ASSUME NEW j \in a .. i - 1 PROVE K(j) < k
    <3>1. CASE j < a + h
      <4>1. j \in 0 .. n - 1 /\ a + h \in 0 .. n - 1
        BY <1>1, <1>2, <3>1
      <4> QED BY <1>1, <1>3, <3>1, <4>1
    <3>2. CASE j = a + h
      BY <1>3, <3>2
    <3>3. CASE j > a + h
      <4>1. j \in a + h + 1 .. i - 1
        BY <2>2, <3>3
      <4> QED BY <2>1, <4>1
    <3> QED BY <2>2, <3>1, <3>2, <3>3
  <2>4. ASSUME NEW j \in i .. a + c - 1 PROVE ~(K(j) < k)
    <3>1. j \in i .. a + h + 1 + (c - h - 1) - 1
      BY <2>2
    <3> QED BY <2>1, <3>1
  <2> QED BY <2>2, <2>3, <2>4 DEF Divides, K
<1>4. ASSUME ~(K(a + h) < k), Divides(v, k, a, h, i)
      PROVE  Divides(v, k, a, c, i)
  <2>1. /\ i \in a .. a + h
        /\ \A j \in a .. i - 1 : K(j) < k
        /\ \A j \in i .. a + h - 1 : ~(K(j) < k)
    BY <1>4 DEF Divides
  <2> HIDE DEF K, n
  <2>2. i \in a .. a + c /\ i \in Int
    BY <2>1
  <2>3. ASSUME NEW j \in i .. a + c - 1 PROVE ~(K(j) < k)
    <3>1. CASE j < a + h
      <4>1. j \in i .. a + h - 1
        BY <2>2, <3>1
      <4> QED BY <2>1, <4>1
    <3>2. CASE j = a + h
      BY <1>4, <3>2
    <3>3. CASE j > a + h
      <4>1. j \in 0 .. n - 1 /\ a + h \in 0 .. n - 1
        BY <1>1, <1>2, <2>2, <3>3
      <4>2. K(a + h) < K(j) /\ K(j) \in Int /\ K(a + h) \in Int
        BY <1>1, <3>3, <4>1
      <4> QED BY <1>4, <4>2
    <3> QED BY <2>2, <3>1, <3>2, <3>3
  <2> QED BY <2>1, <2>2, <2>3 DEF Divides, K
<1> QED BY <1>3, <1>4

LEMMA DividedOnce ==
  ASSUME NEW v, NEW k, NEW a \in Nat, NEW c \in Nat, NEW i, NEW j,
         Divides(v, k, a, c, i), Divides(v, k, a, c, j)
  PROVE  i = j
<1> DEFINE B(m) == Key(v.data[m]) < k
<1>1. /\ i \in a .. a + c /\ j \in a .. a + c
      /\ (\A m \in a .. i - 1 : B(m)) /\ (\A m \in i .. a + c - 1 : ~B(m))
      /\ (\A m \in a .. j - 1 : B(m)) /\ (\A m \in j .. a + c - 1 : ~B(m))
  BY DEF Divides
<1> HIDE DEF B
<1>2. ~(i < j)
  <2>1. i < j => i \in a .. j - 1 /\ i \in i .. a + c - 1
    BY <1>1
  <2> QED BY <1>1, <2>1
<1>3. ~(j < i)
  <2>1. j < i => j \in a .. i - 1 /\ j \in j .. a + c - 1
    BY <1>1
  <2> QED BY <1>1, <2>1
<1> QED BY <1>1, <1>2, <1>3

LEMMA Divided ==
  ASSUME NEW v, Ordered(v), NEW k \in Int, NEW a \in Nat, NEW c \in Nat, a + c <= v.size
  PROVE  \E i : Divides(v, k, a, c, i)
<1> DEFINE K(j) == Key(v.data[j])
           T == {i \in a .. a + c : i = a + c \/ ~(K(i) < k)}
<1>1. T \in SUBSET Nat /\ a + c \in T
  OBVIOUS
<1>2. PICK i \in T : \A m \in T : i <= m
  BY <1>1, Least
<1>3. i \in a .. a + c /\ (i = a + c \/ ~(K(i) < k))
  BY <1>2
<1>4. /\ v.size \in Nat /\ (\A j \in 0 .. v.size - 1 : K(j) \in Int)
      /\ \A j, m \in 0 .. v.size - 1 : j < m => K(j) < K(m)
  BY DEF Ordered
<1>5. ASSUME NEW j \in a .. i - 1 PROVE K(j) < k
  <2>1. j \in a .. a + c /\ j # a + c /\ j < i
    BY <1>3
  <2>2. j \in T => i <= j
    BY <1>2
  <2> QED BY <1>3, <2>1, <2>2
<1>6. ASSUME NEW j \in i .. a + c - 1 PROVE ~(K(j) < k)
  <2>1. j \in 0 .. v.size - 1 /\ i \in 0 .. v.size - 1 /\ ~(K(i) < k)
    BY <1>3, <1>4
  <2> HIDE DEF K, T
  <2>2. i = j \/ (i < j /\ K(i) < K(j))
    BY <1>3, <1>4, <2>1
  <2>3. K(i) \in Int /\ K(j) \in Int
    BY <1>4, <2>1
  <2> QED BY <2>1, <2>2, <2>3
<1> QED BY <1>3, <1>5, <1>6 DEF Divides

\* The definition of bisect has a solution, and every solution divides the range.
LEMMA BisectionDivides ==
  ASSUME NEW v, Ordered(v), NEW k \in Int
  PROVE  Divides(v, k, 0, v.size, lower_bound(v, k))
<1> DEFINE n == v.size
           g == [r \in Ranges(n) |-> CHOOSE i : Divides(v, k, r[1], r[2], i)]
<1>1. n \in Nat
  BY DEF Ordered
<1>2. ASSUME NEW r \in Ranges(n)
      PROVE  r[1] \in Nat /\ r[2] \in Nat /\ r[1] + r[2] <= n /\ r = <<r[1], r[2]>>
  BY <1>1 DEF Ranges
<1>3. \A r \in Ranges(n) : Divides(v, k, r[1], r[2], g[r])
  <2> TAKE r \in Ranges(n)
  <2>1. \E i : Divides(v, k, r[1], r[2], i)
    BY <1>2, Divided
  <2> QED BY <2>1
<1>4. ASSUME NEW f, NEW r \in Ranges(n), r[2] > 0
      PROVE  LET h == r[2] \div 2
             IN  /\ <<r[1] + h + 1, r[2] - h - 1>> \in Ranges(n)
                 /\ <<r[1], h>> \in Ranges(n)
                 /\ r[2] - h - 1 \in Nat /\ h \in Nat /\ r[2] - h - 1 < r[2] /\ h < r[2]
  <2> DEFINE a == r[1]
             c == r[2]
             h == c \div 2
  <2>1. a \in Nat /\ c \in Nat /\ a + c <= n /\ c > 0
    BY <1>2, <1>4
  <2> HIDE DEF a, c
  <2>2. h \in Nat /\ h < c /\ c - h - 1 \in Nat /\ c - h - 1 < c
    BY <2>1, Half
  <2> HIDE DEF h
  <2>3. /\ <<a + h + 1, c - h - 1>> \in Ranges(n)
        /\ <<a, h>> \in Ranges(n)
    <3>1. /\ a + h + 1 \in 0 .. n /\ c - h - 1 \in 0 .. n /\ a \in 0 .. n /\ h \in 0 .. n
          /\ a + h + 1 + (c - h - 1) <= n /\ a + h <= n
      BY <1>1, <2>1, <2>2
    <3> QED BY <3>1 DEF Ranges
  <2> QED BY <2>2, <2>3 DEF a, c, h
<1> DEFINE Part(f, r) ==
      LET h == r[2] \div 2
      IN  IF Key(v.data[r[1] + h]) < k
          THEN Divides(v, k, r[1] + h + 1, r[2] - h - 1, f[<<r[1] + h + 1, r[2] - h - 1>>])
          ELSE Divides(v, k, r[1], h, f[<<r[1], h>>])
\* Where f divides the half, the halved f divides the whole.
<1>5. ASSUME NEW f, NEW r \in Ranges(n), r[2] > 0 => Part(f, r)
      PROVE  Divides(v, k, r[1], r[2], Halved(v, k, f)[r])
  <2> DEFINE a == r[1]
             c == r[2]
             h == c \div 2
  <2>1. a \in Nat /\ c \in Nat /\ a + c <= n
    BY <1>2
  <2>2. Halved(v, k, f)[r] = IF c = 0 THEN a
                             ELSE IF Key(v.data[a + h]) < k THEN f[<<a + h + 1, c - h - 1>>]
                             ELSE f[<<a, h>>]
    BY DEF Halved
  <2>3. CASE c = 0
    <3> HIDE DEF a, c, h
    <3>1. a \in a .. a + c /\ a .. a - 1 = {} /\ a .. a + c - 1 = {}
      BY <2>1, <2>3
    <3>2. Divides(v, k, a, c, a)
      BY <3>1 DEF Divides
    <3> QED BY <2>2, <2>3, <3>2 DEF a, c
  <2>4. CASE c > 0
    <3>1. IF Key(v.data[a + h]) < k
          THEN Divides(v, k, a + h + 1, c - h - 1, f[<<a + h + 1, c - h - 1>>])
          ELSE Divides(v, k, a, h, f[<<a, h>>])
      BY <1>5, <2>4
    <3>2. h \in Nat /\ h < c
      BY <2>1, <2>4, Half
    <3> DEFINE x == Halved(v, k, f)[r]
    <3>5. c # 0
      BY <2>1, <2>4
    <3> HIDE DEF a, c, h
    <3>3. CASE Key(v.data[a + h]) < k
      <4>1. x = f[<<a + h + 1, c - h - 1>>]
        BY <2>2, <3>3, <3>5
      <4> HIDE DEF x
      <4>2. Divides(v, k, a + h + 1, c - h - 1, x)
        BY <3>1, <3>3, <4>1
      <4>3. Divides(v, k, a, c, x)
        BY <2>1, <2>4, <3>2, <3>3, <4>2, HalfDivides
      <4> QED BY <4>3 DEF a, c, x
    <3>4. CASE ~(Key(v.data[a + h]) < k)
      <4>1. x = f[<<a, h>>]
        BY <2>2, <3>4, <3>5
      <4> HIDE DEF x
      <4>2. Divides(v, k, a, h, x)
        BY <3>1, <3>4, <4>1
      <4>3. Divides(v, k, a, c, x)
        BY <2>1, <2>4, <3>2, <3>4, <4>2, HalfDivides
      <4> QED BY <4>3 DEF a, c, x
    <3> QED BY <3>3, <3>4
  <2> QED BY <2>1, <2>3, <2>4
<1>6. \A f : (\A q \in Ranges(n) : Divides(v, k, q[1], q[2], f[q]))
             => \A r \in Ranges(n) : r[2] > 0 => Part(f, r)
  <2> SUFFICES ASSUME NEW f, \A q \in Ranges(n) : Divides(v, k, q[1], q[2], f[q]),
                      NEW r \in Ranges(n), r[2] > 0
               PROVE  Part(f, r)
    OBVIOUS
  <2> DEFINE h == r[2] \div 2
  <2>1. <<r[1] + h + 1, r[2] - h - 1>> \in Ranges(n) /\ <<r[1], h>> \in Ranges(n)
    BY <1>4
  <2> HIDE DEF h
  <2>2. /\ Divides(v, k, r[1] + h + 1, r[2] - h - 1, f[<<r[1] + h + 1, r[2] - h - 1>>])
        /\ Divides(v, k, r[1], h, f[<<r[1], h>>])
    BY <2>1
  <2> QED BY <2>2 DEF h
<1>7. g = Halved(v, k, g)
  <2>1. ASSUME NEW r \in Ranges(n) PROVE g[r] = Halved(v, k, g)[r]
    <3>1. Divides(v, k, r[1], r[2], g[r])
      BY <1>3
    <3>2. r[2] > 0 => Part(g, r)
      BY <1>3, <1>6
    <3> HIDE DEF g, Part
    <3>3. Divides(v, k, r[1], r[2], Halved(v, k, g)[r])
      BY <1>5, <3>2
    <3>4. r[1] \in Nat /\ r[2] \in Nat
      BY <1>2
    <3> QED BY <3>1, <3>3, <3>4, DividedOnce
  <2>2. Halved(v, k, g) = [r \in Ranges(n) |-> Halved(v, k, g)[r]]
    BY DEF Halved
  <2>3. g = [r \in Ranges(n) |-> g[r]]
    OBVIOUS
  <2> HIDE DEF g
  <2> QED BY <2>1, <2>2, <2>3
<1> DEFINE f == CHOOSE b : b = Halved(v, k, b)
<1>8. f = Halved(v, k, f)
  BY <1>7
<1> HIDE DEF f, g
<1> DEFINE Wrong == {m \in Nat : \E r \in Ranges(n) : r[2] = m /\ ~Divides(v, k, r[1], r[2], f[r])}
<1>9. Wrong = {}
  <2> SUFFICES ASSUME Wrong # {} PROVE FALSE
    OBVIOUS
  <2>1. PICK m \in Wrong : \A p \in Wrong : m <= p
    <3>1. Wrong \in SUBSET Nat
      OBVIOUS
    <3> HIDE DEF Wrong
    <3> QED BY <3>1, Least
  <2>2. PICK r \in Ranges(n) : r[2] = m /\ ~Divides(v, k, r[1], r[2], f[r])
    BY <2>1
  <2>3. \A q \in Ranges(n) : q[2] < m => Divides(v, k, q[1], q[2], f[q])
    <3> TAKE q \in Ranges(n)
    <3>1. q[2] \in Nat /\ m \in Nat
      BY <1>2, <2>1
    <3> QED BY <2>1, <3>1
  <2> HIDE DEF Wrong
  <2>4. r[2] > 0 => Part(f, r)
    <3> SUFFICES ASSUME r[2] > 0 PROVE Part(f, r)
      OBVIOUS
    <3> DEFINE h == r[2] \div 2
    <3>1. /\ <<r[1] + h + 1, r[2] - h - 1>> \in Ranges(n) /\ <<r[1], h>> \in Ranges(n)
          /\ r[2] - h - 1 < m /\ h < m
      BY <1>4, <2>2
    <3> HIDE DEF h
    <3>2. /\ Divides(v, k, r[1] + h + 1, r[2] - h - 1, f[<<r[1] + h + 1, r[2] - h - 1>>])
          /\ Divides(v, k, r[1], h, f[<<r[1], h>>])
      BY <2>3, <3>1
    <3> QED BY <3>2 DEF h
  <2> HIDE DEF Part
  <2>5. Divides(v, k, r[1], r[2], Halved(v, k, f)[r])
    BY <1>5, <2>4
  <2> QED BY <1>8, <2>2, <2>5
<1>10. Divides(v, k, 0, n, f[<<0, n>>])
  <2>1. <<0, n>> \in Ranges(n)
    BY <1>1 DEF Ranges
  <2>2. n \notin Wrong
    BY <1>9
  <2> QED BY <1>1, <2>1, <2>2
<1>11. lower_bound(v, k) = f[<<0, n>>]
  BY Bisection DEF f
<1> QED BY <1>10, <1>11

-----------------------------------------------------------------------------
(* The map: a vector of rows with ascending keys.                            *)

Rows == Keys \X (Value \cup {Default})
Sorted(s) == \A i, j \in 1 .. Len(s) : i < j => s[i][1] < s[j][1]
Tree(v, s) == Vec(v, s, Rows) /\ Sorted(s)

\* lower_bound divides the rows s at i.
Found(s, k, i) ==
  /\ i \in 0 .. Len(s)
  /\ \A j \in 1 .. i : s[j][1] < k
  /\ \A j \in i + 1 .. Len(s) : k <= s[j][1]

LEMMA RowTypes ==
  ASSUME ContainersShape
  PROVE  /\ Unset \notin Rows
         /\ \A r \in Rows : r[1] \in Keys /\ r[1] \in Int
<1> DEFINE D == Value \cup {Default}
<1> HIDE DEF D
<1>1. Unset \notin Keys \X D
  BY DEF Unset
<1>2. \A r \in Keys \X D : r[1] \in Keys
  OBVIOUS
<1>3. \A x \in Keys : x \in Int
  BY DEF ContainersShape
<1> QED BY <1>1, <1>2, <1>3 DEF Rows, D

LEMMA TreeParts ==
  ASSUME ContainersShape, NEW v, NEW s, Tree(v, s)
  PROVE  /\ s \in Seq(Rows) /\ Len(s) \in Nat /\ v.size = Len(s) /\ Sorted(s)
         /\ \A j \in 1 .. Len(s) : s[j] \in Rows /\ s[j][1] \in Keys /\ s[j][1] \in Int
         /\ \A j \in 0 .. Len(s) - 1 : v.data[j] = s[j + 1]
         /\ Ordered(v) /\ Ascending(v)
<1>1. s \in Seq(Rows) /\ v.size = Len(s) /\ Len(s) \in Nat /\ Sorted(s)
  BY VecParts DEF Tree
<1>2. PICK n \in Nat : Len(s) <= n /\ v = [size |-> Len(s), capacity |-> n, data |-> Filled(n, s)]
  BY VecParts DEF Tree
<1>3. \A j \in 0 .. Len(s) - 1 : v.data[j] = s[j + 1]
  BY <1>1, <1>2 DEF Filled
<1>4. \A j \in 1 .. Len(s) : s[j] \in Rows /\ s[j][1] \in Keys /\ s[j][1] \in Int
  BY <1>1, RowTypes
<1> DEFINE l == Len(s)
<1>5. l \in Nat /\ v.size = l
  BY <1>1
<1>6. \A i, j \in 0 .. l - 1 : i < j => v.data[i][1] < v.data[j][1]
  <2> TAKE i, j \in 0 .. l - 1
  <2>1. i + 1 \in 1 .. l /\ j + 1 \in 1 .. l /\ (i < j <=> i + 1 < j + 1)
    BY <1>5
  <2> QED BY <1>1, <1>3, <2>1 DEF Sorted
<1>7. \A i \in 0 .. l - 1 : v.data[i][1] \in Int
  <2> TAKE i \in 0 .. l - 1
  <2>1. i + 1 \in 1 .. l
    BY <1>5
  <2> QED BY <1>3, <1>4, <2>1
<1>8. Ordered(v) /\ Ascending(v)
  BY <1>5, <1>6, <1>7 DEF Ordered, Ascending, Key
<1> QED BY <1>1, <1>3, <1>4, <1>8

LEMMA Searched ==
  ASSUME ContainersShape, NEW v, NEW s, Tree(v, s), NEW k \in Keys
  PROVE  /\ Found(s, k, lower_bound(v, k))
         /\ Holds(v, lower_bound(v, k), k) <=> \E j \in 1 .. Len(s) : s[j][1] = k
         /\ Holds(v, lower_bound(v, k), k) <=>
              lower_bound(v, k) + 1 \in 1 .. Len(s) /\ s[lower_bound(v, k) + 1][1] = k
<1> DEFINE i == lower_bound(v, k)
           l == Len(s)
<1>1. /\ l \in Nat /\ v.size = l /\ Ordered(v) /\ k \in Int
      /\ \A j \in 1 .. l : s[j][1] \in Int
      /\ \A j \in 0 .. l - 1 : v.data[j] = s[j + 1]
  BY TreeParts DEF ContainersShape
<1>2. Divides(v, k, 0, l, i)
  BY <1>1, BisectionDivides
<1> HIDE DEF i
<1>3. /\ i \in 0 .. 0 + l /\ (\A j \in 0 .. i - 1 : v.data[j][1] < k)
      /\ \A j \in i .. 0 + l - 1 : ~(v.data[j][1] < k)
  BY <1>2 DEF Divides, Key
<1> HIDE DEF l
<1>4. i \in 0 .. l /\ i \in Nat
  BY <1>1, <1>3
<1>5. ASSUME NEW j \in 1 .. i PROVE s[j][1] < k
  <2>1. j - 1 \in 0 .. i - 1 /\ j - 1 \in 0 .. l - 1 /\ j - 1 + 1 = j
    BY <1>1, <1>4
  <2> QED BY <1>1, <1>3, <2>1
<1>6. ASSUME NEW j \in i + 1 .. l PROVE k <= s[j][1]
  <2>1. /\ j - 1 \in i .. 0 + l - 1 /\ j - 1 \in 0 .. l - 1 /\ j - 1 + 1 = j /\ j \in 1 .. l
    BY <1>1, <1>4
  <2>2. ~(s[j][1] < k) /\ s[j][1] \in Int
    BY <1>1, <1>3, <2>1
  <2> QED BY <1>1, <2>2
<1>7. Holds(v, i, k) <=> i + 1 \in 1 .. l /\ s[i + 1][1] = k
  <2>1. (i < l <=> i + 1 \in 1 .. l) /\ (i < l => i \in 0 .. l - 1)
    BY <1>1, <1>4
  <2> QED BY <1>1, <2>1 DEF Holds, Key
<1>8. (\E j \in 1 .. l : s[j][1] = k) => i + 1 \in 1 .. l /\ s[i + 1][1] = k
  <2> SUFFICES ASSUME NEW j \in 1 .. l, s[j][1] = k
               PROVE  i + 1 \in 1 .. l /\ s[i + 1][1] = k
    OBVIOUS
  <2>1. ~(s[j][1] < k)
    BY <1>1
  <2>2. j \notin 1 .. i
    BY <1>5, <2>1
  <2>3. i + 1 \in 1 .. l /\ i + 1 <= j
    BY <1>1, <1>4, <2>2
  <2>4. i + 1 = j \/ s[i + 1][1] < s[j][1]
    <3>1. Sorted(s)
      BY TreeParts
    <3>2. i + 1 = j \/ i + 1 < j
      BY <1>4, <2>3
    <3> QED BY <2>3, <3>1, <3>2 DEF Sorted, l
  <2>5. k <= s[i + 1][1] /\ s[i + 1][1] \in Int
    <3>1. i + 1 \in i + 1 .. l
      BY <1>4, <2>3
    <3> QED BY <1>1, <1>6, <2>3, <3>1
  <2> QED BY <1>1, <2>3, <2>4, <2>5
<1>9. Found(s, k, i)
  BY <1>4, <1>5, <1>6 DEF Found, l
<1> QED BY <1>7, <1>8, <1>9 DEF i, l

\* The table t has the keys and values of the rows s.
KeysOf(s) == {s[j][1] : j \in 1 .. Len(s)}
Lists(s, t) ==
  t = [q \in KeysOf(s) |-> t[q]] /\ \A j \in 1 .. Len(s) : t[s[j][1]] = s[j][2]

LEMMA ListsOnce ==
  ASSUME NEW s, NEW t, NEW u, Lists(s, t), Lists(s, u)
  PROVE  t = u
<1>1. \A q \in KeysOf(s) : t[q] = u[q]
  BY DEF Lists, KeysOf
<1>2. t = [q \in KeysOf(s) |-> t[q]] /\ u = [q \in KeysOf(s) |-> u[q]]
  BY DEF Lists
<1> QED BY <1>1, <1>2

TableIn(v) == [k \in {q \in Keys : find(v, q) # v.size} |-> v.data[find(v, k)][2]]

LEMMA TableIs ==
  ASSUME ContainersShape, NEW v, NEW s, Tree(v, s)
  PROVE  Lists(s, TableIn(v))
<1> DEFINE t == TableIn(v)
           l == Len(s)
<1>1. /\ l \in Nat /\ v.size = l /\ Sorted(s)
      /\ \A j \in 1 .. l : s[j][1] \in Keys /\ s[j][1] \in Int
      /\ \A j \in 0 .. l - 1 : v.data[j] = s[j + 1]
  BY TreeParts
<1>2. ASSUME NEW k \in Keys
      PROVE  /\ find(v, k) # l <=> \E j \in 1 .. l : s[j][1] = k
             /\ find(v, k) # l => find(v, k) + 1 \in 1 .. l /\ s[find(v, k) + 1][1] = k
  <2> DEFINE i == lower_bound(v, k)
  <2>1. /\ Holds(v, i, k) <=> \E j \in 1 .. l : s[j][1] = k
        /\ Holds(v, i, k) <=> i + 1 \in 1 .. l /\ s[i + 1][1] = k
        /\ i \in 0 .. l
    BY Searched DEF Found
  <2>2. find(v, k) = IF Holds(v, i, k) THEN i ELSE l
    BY <1>1 DEF find
  <2>3. Holds(v, i, k) => i # l
    BY <1>1 DEF Holds
  <2> HIDE DEF i
  <2> QED BY <2>1, <2>2, <2>3
<1>3. {q \in Keys : find(v, q) # v.size} = KeysOf(s)
  BY <1>1, <1>2 DEF KeysOf
<1>4. ASSUME NEW j \in 1 .. l PROVE t[s[j][1]] = s[j][2]
  <2> DEFINE k == s[j][1]
             m == find(v, k) + 1
  <2>1. k \in Keys /\ find(v, k) # l
    BY <1>1, <1>2
  <2>2. m \in 1 .. l /\ s[m][1] = k
    BY <1>2, <2>1
  <2>3. m = j
    <3>1. ~(m < j) /\ ~(j < m)
      BY <1>1, <2>2 DEF Sorted
    <3> HIDE DEF m
    <3> QED BY <1>1, <2>2, <3>1
  <2>4. find(v, k) = j - 1 /\ find(v, k) \in 0 .. l - 1
    <3>1. find(v, k) \in Int
      BY <2>1, <1>1, Searched DEF find, Found
    <3> HIDE DEF k
    <3> QED BY <1>1, <2>3, <3>1
  <2>5. v.data[find(v, k)] = s[j]
    <3>1. j - 1 \in 0 .. l - 1 /\ j - 1 + 1 = j
      BY <1>1
    <3> QED BY <1>1, <2>4, <3>1
  <2>6. t[k] = v.data[find(v, k)][2]
    BY <1>1, <2>1 DEF TableIn
  <2> QED BY <2>5, <2>6
<1>5. t = [q \in KeysOf(s) |-> t[q]]
  BY <1>3 DEF TableIn
<1> HIDE DEF t
<1>6. Lists(s, t)
  BY <1>4, <1>5 DEF Lists
<1> QED BY <1>6 DEF t

SetIn(t, k, x) == [q \in DOMAIN t \cup {k} |-> IF q = k THEN x ELSE t[q]]
Cleared(t, k) == [q \in DOMAIN t \ {k} |-> t[q]]

\* A row that is put in where lower_bound says keeps the keys ascending.
LEMMA RowPutIn ==
  ASSUME ContainersShape, NEW v, NEW s, Tree(v, s), NEW k \in Keys, NEW x, <<k, x>> \in Rows,
         k \notin KeysOf(s)
  PROVE  /\ Tree(vinsert(v, lower_bound(v, k), <<k, x>>), Put(s, lower_bound(v, k), <<k, x>>))
         /\ \A t : Lists(s, t)
                   => Lists(Put(s, lower_bound(v, k), <<k, x>>), SetIn(t, k, x))
<1> DEFINE i == lower_bound(v, k)
           l == Len(s)
           e == <<k, x>>
           u == Put(s, i, e)
<1>1. /\ l \in Nat /\ Sorted(s) /\ s \in Seq(Rows) /\ k \in Int
      /\ \A j \in 1 .. l : s[j][1] \in Int
  BY TreeParts DEF ContainersShape
<1>2. /\ i \in 0 .. Len(s) /\ (\A j \in 1 .. i : s[j][1] < k)
      /\ \A j \in i + 1 .. l : k <= s[j][1]
  BY Searched DEF Found
<1>3. \A j \in 1 .. l : s[j][1] # k
  BY DEF KeysOf
<1> HIDE DEF i
<1>4. With(u, Rows, s, i, e)
  BY <1>1, <1>2, PutIn
<1>5. Vec(vinsert(v, i, e), u, Rows)
  BY <1>2, VInserted DEF Tree
<1> HIDE DEF u, l
<1>6. /\ u \in Seq(Rows) /\ Len(u) = l + 1
      /\ \A j \in 0 .. l : u[j + 1] = IF j < i THEN s[j + 1] ELSE IF j = i THEN e ELSE s[j]
  BY <1>4 DEF With, l
<1>7. ASSUME NEW j \in 1 .. l + 1
      PROVE  u[j] = IF j <= i THEN s[j] ELSE IF j = i + 1 THEN e ELSE s[j - 1]
  <2>1. j - 1 \in 0 .. l /\ (j - 1 < i <=> j <= i) /\ (j - 1 = i <=> j = i + 1) /\ j - 1 + 1 = j
    BY <1>1, <1>2
  <2> QED BY <1>6, <2>1
<1>8. e[1] = k /\ e[2] = x
  OBVIOUS
<1> HIDE DEF e
<1>9. ASSUME NEW a \in 1 .. l + 1, NEW b \in 1 .. l + 1, a < b
      PROVE  u[a][1] < u[b][1]
  <2>0. i \in 0 .. l
    BY <1>2 DEF l
  <2>1. CASE b <= i
    <3>1. a \in 1 .. l /\ b \in 1 .. l /\ a <= i
      BY <1>1, <1>9, <2>0, <2>1
    <3>2. s[a][1] < s[b][1]
      BY <1>1, <1>9, <3>1 DEF Sorted, l
    <3> QED BY <1>7, <2>1, <3>1, <3>2
  <2>2. CASE b = i + 1
    <3>1. a <= i /\ a \in 1 .. i /\ ~(b <= i)
      BY <1>1, <1>9, <2>0, <2>2
    <3>2. u[a] = s[a] /\ u[b] = e /\ s[a][1] < k
      BY <1>2, <1>7, <2>2, <3>1
    <3> QED BY <1>8, <3>2
  <2>3. CASE b > i + 1
    <3>1. b - 1 \in i + 1 .. l /\ b - 1 \in 1 .. l /\ ~(b <= i) /\ b # i + 1
      BY <1>1, <2>0, <2>3
    <3>2. u[b] = s[b - 1] /\ k <= s[b - 1][1] /\ s[b - 1][1] # k /\ s[b - 1][1] \in Int
      BY <1>1, <1>2, <1>3, <1>7, <3>1
    <3>3. k < s[b - 1][1]
      BY <1>1, <3>2
    <3>4. CASE a <= i
      <4>1. a \in 1 .. i /\ a \in 1 .. l
        BY <1>1, <2>0, <3>4
      <4>2. u[a] = s[a] /\ s[a][1] < k /\ s[a][1] \in Int
        BY <1>1, <1>2, <1>7, <3>4, <4>1
      <4>3. \A y, z \in Int : y < k /\ k < z => y < z
        BY <1>1
      <4>4. s[a][1] < s[b - 1][1]
        BY <3>2, <3>3, <4>2, <4>3
      <4> QED BY <3>2, <4>2, <4>4
    <3>5. CASE a = i + 1
      <4>1. u[a] = e
        BY <1>7, <2>0, <3>5
      <4> QED BY <1>8, <3>2, <3>3, <4>1
    <3>6. CASE a > i + 1
      <4>1. a - 1 \in 1 .. l /\ a - 1 < b - 1 /\ ~(a <= i) /\ a # i + 1
        BY <1>1, <1>9, <2>0, <3>6
      <4>2. u[a] = s[a - 1] /\ s[a - 1][1] < s[b - 1][1]
        BY <1>1, <1>7, <3>1, <4>1 DEF Sorted, l
      <4> QED BY <3>2, <4>2
    <3> QED BY <2>0, <3>4, <3>5, <3>6
  <2> QED BY <2>0, <2>1, <2>2, <2>3
<1>10. Sorted(u)
  BY <1>6, <1>9 DEF Sorted
<1>11. \A j \in 1 .. l : \E m \in 1 .. l + 1 : u[m] = s[j]
  <2> TAKE j \in 1 .. l
  <2>0. i \in 0 .. l
    BY <1>2 DEF l
  <2>1. CASE j <= i
    BY <1>1, <1>7, <2>1
  <2>2. CASE j > i
    <3>1. j + 1 \in 1 .. l + 1 /\ ~(j + 1 <= i) /\ j + 1 # i + 1 /\ j + 1 - 1 = j
      BY <1>1, <2>0, <2>2
    <3> QED BY <1>7, <3>1
  <2> QED BY <2>0, <2>1, <2>2
<1>12. \A m \in 1 .. l + 1 : u[m] = e \/ \E j \in 1 .. l : u[m] = s[j]
  <2> TAKE m \in 1 .. l + 1
  <2>0. i \in 0 .. l
    BY <1>2 DEF l
  <2>1. (m <= i => m \in 1 .. l) /\ (m > i + 1 => m - 1 \in 1 .. l)
    BY <1>1, <2>0
  <2>2. m <= i \/ m = i + 1 \/ m > i + 1
    BY <2>0
  <2> QED BY <1>7, <2>0, <2>1, <2>2
<1>13. u[i + 1] = e /\ i + 1 \in 1 .. l + 1
  <2>1. i + 1 \in 1 .. l + 1 /\ ~(i + 1 <= i)
    BY <1>1, <1>2 DEF l
  <2> QED BY <1>7, <2>1
<1>14. KeysOf(u) = KeysOf(s) \cup {k}
  <2>1. \A j \in 1 .. l : s[j][1] \in KeysOf(u)
    BY <1>6, <1>11 DEF KeysOf
  <2>2. k \in KeysOf(u)
    BY <1>6, <1>8, <1>13 DEF KeysOf
  <2>3. \A m \in 1 .. Len(u) : u[m][1] \in KeysOf(s) \cup {k}
    BY <1>6, <1>8, <1>12 DEF KeysOf, l
  <2>4. \A y \in KeysOf(u) : y \in KeysOf(s) \cup {k}
    BY <2>3 DEF KeysOf
  <2>5. \A y \in KeysOf(s) : y \in KeysOf(u)
    BY <2>1 DEF KeysOf, l
  <2> QED BY <2>2, <2>4, <2>5
<1>15. ASSUME NEW t, Lists(s, t)
       PROVE  Lists(u, SetIn(t, k, x))
  <2> DEFINE y == SetIn(t, k, x)
  <2>1. DOMAIN t = KeysOf(s) /\ \A j \in 1 .. l : t[s[j][1]] = s[j][2]
    BY <1>15 DEF Lists, l
  <2>2. y = [q \in KeysOf(u) |-> IF q = k THEN x ELSE t[q]]
    BY <1>14, <2>1 DEF SetIn
  <2> HIDE DEF y
  <2>3. ASSUME NEW m \in 1 .. Len(u) PROVE y[u[m][1]] = u[m][2]
    <3>1. u[m][1] \in KeysOf(u)
      BY DEF KeysOf
    <3>2. CASE u[m] = e
      BY <1>8, <2>2, <3>1, <3>2
    <3>3. CASE \E j \in 1 .. l : u[m] = s[j]
      BY <1>3, <2>1, <2>2, <3>1, <3>3
    <3> QED BY <1>6, <1>12, <3>2, <3>3
  <2>4. y = [q \in KeysOf(u) |-> y[q]]
    BY <2>2
  <2> QED BY <2>3, <2>4 DEF Lists, y
<1> QED BY <1>5, <1>10, <1>15 DEF Tree, u, e, i

\* A value that is overwritten in its row.
LEMMA RowSet ==
  ASSUME ContainersShape, NEW v, NEW s, Tree(v, s), NEW k \in Keys, NEW x, <<k, x>> \in Rows,
         NEW i \in Nat, i + 1 \in 1 .. Len(s), s[i + 1][1] = k
  PROVE  /\ Tree([v EXCEPT !.data[i] = <<k, x>>], [s EXCEPT ![i + 1] = <<k, x>>])
         /\ \A t : Lists(s, t) => Lists([s EXCEPT ![i + 1] = <<k, x>>], SetIn(t, k, x))
<1> DEFINE l == Len(s)
           e == <<k, x>>
           u == [s EXCEPT ![i + 1] = e]
           q == [v EXCEPT !.data[i] = e]
<1>1. /\ l \in Nat /\ Sorted(s) /\ s \in Seq(Rows)
      /\ \A j \in 1 .. l : s[j][1] \in Int
  BY TreeParts
<1>2. PICK n \in Nat : Len(s) <= n /\ v = [size |-> Len(s), capacity |-> n, data |-> Filled(n, s)]
  BY VecParts DEF Tree
<1>3. e[1] = k /\ e[2] = x /\ e \in Rows
  OBVIOUS
<1> HIDE DEF e
<1>4. u \in Seq(Rows) /\ Len(u) = l /\ \A j \in 1 .. l : u[j] = IF j = i + 1 THEN e ELSE s[j]
  BY <1>1, <1>3
<1>5. i + 1 \in 1 .. l /\ s[i + 1][1] = k
  OBVIOUS
<1> HIDE DEF u
<1>6. Vec(q, u, Rows)
  <2> DEFINE f == Filled(n, s)
  <2>1. f = [c \in 0 .. n - 1 |-> IF c < l THEN s[c + 1] ELSE Unset]
    BY DEF Filled
  <2>2. v = [size |-> l, capacity |-> n, data |-> f]
    BY <1>2
  <2>7. l <= n
    BY <1>2
  <2> HIDE DEF f, l
  <2>3. q = [size |-> l, capacity |-> n, data |-> [f EXCEPT ![i] = e]]
    BY <2>2
  <2>4. [f EXCEPT ![i] = e] = [c \in 0 .. n - 1 |-> IF c = i THEN e ELSE f[c]]
    BY <2>1
  <2>5. ASSUME NEW c \in 0 .. n - 1
        PROVE  (IF c = i THEN e ELSE f[c]) = IF c < Len(u) THEN u[c + 1] ELSE Unset
    <3>1. c < l => c + 1 \in 1 .. l /\ (c + 1 = i + 1 <=> c = i)
      BY <1>1
    <3>2. c = i => c < l
      BY <1>1, <1>5
    <3> QED BY <1>4, <2>1, <3>1, <3>2
  <2>6. [f EXCEPT ![i] = e] = Filled(n, u)
    BY <2>4, <2>5 DEF Filled
  <2> HIDE DEF q
  <2>8. q = [size |-> Len(u), capacity |-> n, data |-> Filled(n, u)]
    BY <1>4, <2>3, <2>6
  <2> QED BY <1>4, <2>7, <2>8, VecMade
<1> HIDE DEF q, l
<1>7. \A j \in 1 .. l : u[j][1] = s[j][1]
  BY <1>3, <1>4, <1>5
<1>8. Sorted(u) /\ KeysOf(u) = KeysOf(s)
  BY <1>1, <1>4, <1>7, SMTT(30) DEF Sorted, KeysOf, l
<1>9. ASSUME NEW t, Lists(s, t) PROVE Lists(u, SetIn(t, k, x))
  <2> DEFINE y == SetIn(t, k, x)
  <2>1. DOMAIN t = KeysOf(s) /\ \A j \in 1 .. l : t[s[j][1]] = s[j][2]
    BY <1>9 DEF Lists, l
  <2>2. k \in KeysOf(s)
    BY <1>5 DEF KeysOf, l
  <2>3. y = [p \in KeysOf(u) |-> IF p = k THEN x ELSE t[p]]
    BY <1>8, <2>1, <2>2 DEF SetIn
  <2> HIDE DEF y
  <2>4. ASSUME NEW m \in 1 .. l PROVE y[u[m][1]] = u[m][2]
    <3>1. u[m][1] \in KeysOf(u)
      BY <1>4 DEF KeysOf
    <3>2. CASE m = i + 1
      BY <1>3, <1>4, <2>3, <3>1, <3>2
    <3>3. CASE m # i + 1
      <4>1. s[m][1] # k
        <5>1. m < i + 1 \/ i + 1 < m
          BY <1>1, <3>3
        <5>2. s[m][1] < s[i + 1][1] \/ s[i + 1][1] < s[m][1]
          BY <1>1, <1>5, <5>1 DEF Sorted, l
        <5> QED BY <1>1, <1>5, <5>2
      <4> QED BY <1>4, <2>1, <2>3, <3>1, <3>3, <4>1
    <3> QED BY <3>2, <3>3
  <2>5. y = [p \in KeysOf(u) |-> y[p]]
    BY <2>3
  <2> QED BY <1>4, <2>4, <2>5 DEF Lists, y
<1> QED BY <1>6, <1>8, <1>9 DEF Tree, q, u, e

\* A row that is taken out.
LEMMA RowOut ==
  ASSUME ContainersShape, NEW v, NEW s, Tree(v, s), NEW k,
         NEW i \in Nat, i + 1 \in 1 .. Len(s), s[i + 1][1] = k,
         NEW u, Without(u, Rows, s, i, i + 1)
  PROVE  /\ Tree(verase(v, i, i + 1), u)
         /\ \A t : Lists(s, t) => Lists(u, Cleared(t, k))
<1> DEFINE l == Len(s)
<1>1. /\ l \in Nat /\ Sorted(s) /\ s \in Seq(Rows)
      /\ \A j \in 1 .. l : s[j][1] \in Int
  BY TreeParts
<1>2. i + 1 \in 1 .. l /\ s[i + 1][1] = k
  OBVIOUS
<1>3. Vec(verase(v, i, i + 1), u, Rows)
  <2>1. i + 1 \in Nat /\ i <= i + 1 /\ i + 1 <= Len(s)
    BY <1>1, <1>2
  <2> QED BY <2>1, VErased DEF Tree
<1>4. /\ u \in Seq(Rows) /\ Len(u) = l - ((i + 1) - i)
      /\ \A j \in 0 .. l - ((i + 1) - i) - 1 :
            u[j + 1] = IF j < i THEN s[j + 1] ELSE s[j + ((i + 1) - i) + 1]
  BY DEF Without
<1> HIDE DEF l
<1>5. Len(u) = l - 1 /\ l - 1 \in Nat
  BY <1>1, <1>2, <1>4
<1>6. ASSUME NEW j \in 1 .. l - 1 PROVE u[j] = IF j <= i THEN s[j] ELSE s[j + 1]
  <2>1. /\ j - 1 \in 0 .. l - ((i + 1) - i) - 1 /\ (j - 1 < i <=> j <= i) /\ j - 1 + 1 = j
        /\ j - 1 + ((i + 1) - i) + 1 = j + 1
    BY <1>1
  <2> QED BY <1>4, <2>1
<1>7. ASSUME NEW a \in 1 .. l - 1, NEW b \in 1 .. l - 1, a < b PROVE u[a][1] < u[b][1]
  <2>1. a \in 1 .. l /\ b \in 1 .. l /\ a + 1 \in 1 .. l /\ b + 1 \in 1 .. l
        /\ a < b + 1 /\ a + 1 < b + 1 /\ ~(a > i /\ b <= i)
    BY <1>1, <1>7
  <2>2. /\ s[a][1] < s[b][1] /\ s[a][1] < s[b + 1][1] /\ s[a + 1][1] < s[b + 1][1]
    BY <1>1, <1>7, <2>1 DEF Sorted, l
  <2>3. u[a] = (IF a <= i THEN s[a] ELSE s[a + 1]) /\ u[b] = IF b <= i THEN s[b] ELSE s[b + 1]
    BY <1>6
  <2>4. CASE b <= i
    <3>1. a <= i
      BY <1>7, <2>4
    <3> QED BY <2>2, <2>3, <2>4, <3>1
  <2>5. CASE a <= i /\ ~(b <= i)
    BY <2>2, <2>3, <2>5
  <2>6. CASE ~(a <= i) /\ ~(b <= i)
    BY <2>2, <2>3, <2>6
  <2> QED BY <1>7, <2>4, <2>5, <2>6
<1>8. Sorted(u)
  BY <1>5, <1>7 DEF Sorted
<1>9. \A j \in 1 .. l : j # i + 1 => s[j][1] # k /\ \E m \in 1 .. l - 1 : u[m] = s[j]
  <2> SUFFICES ASSUME NEW j \in 1 .. l, j # i + 1
               PROVE  s[j][1] # k /\ \E m \in 1 .. l - 1 : u[m] = s[j]
    OBVIOUS
  <2>1. s[j][1] # k
    <3>1. j < i + 1 \/ i + 1 < j
      BY <1>1
    <3>2. s[j][1] < s[i + 1][1] \/ s[i + 1][1] < s[j][1]
      BY <1>1, <1>2, <3>1 DEF Sorted, l
    <3> QED BY <1>1, <1>2, <3>2
  <2>2. CASE j <= i
    <3>1. j \in 1 .. l - 1
      BY <1>1, <1>2, <2>2
    <3> QED BY <1>6, <2>1, <2>2, <3>1
  <2>3. CASE ~(j <= i)
    <3>1. j - 1 \in 1 .. l - 1 /\ ~(j - 1 <= i) /\ j - 1 + 1 = j
      BY <1>1, <1>2, <2>3
    <3> QED BY <1>6, <2>1, <3>1
  <2> QED BY <2>2, <2>3
<1>10. \A m \in 1 .. l - 1 : \E j \in 1 .. l : j # i + 1 /\ u[m] = s[j]
  <2> TAKE m \in 1 .. l - 1
  <2>1. m \in 1 .. l /\ m + 1 \in 1 .. l /\ (m <= i => m # i + 1) /\ (~(m <= i) => m + 1 # i + 1)
    BY <1>1
  <2> QED BY <1>6, <2>1
<1>11. KeysOf(u) = KeysOf(s) \ {k}
  <2>1. \A j \in 1 .. l : s[j][1] # k => s[j][1] \in KeysOf(u)
    BY <1>2, <1>5, <1>9 DEF KeysOf
  <2>2. \A m \in 1 .. l - 1 : u[m][1] \in KeysOf(s) /\ u[m][1] # k
    <3> TAKE m \in 1 .. l - 1
    <3>1. PICK j \in 1 .. l : j # i + 1 /\ u[m] = s[j]
      BY <1>10
    <3> QED BY <1>9, <3>1 DEF KeysOf, l
  <2>3. \A m \in 1 .. Len(u) : u[m][1] \in KeysOf(s) \ {k}
    BY <1>5, <2>2
  <2>4. \A y \in KeysOf(s) : y # k => y \in KeysOf(u)
    BY <2>1 DEF KeysOf, l
  <2>5. \A y \in KeysOf(u) : y \in KeysOf(s) \ {k}
    BY <2>3 DEF KeysOf
  <2> QED BY <2>4, <2>5
<1>12. ASSUME NEW t, Lists(s, t) PROVE Lists(u, Cleared(t, k))
  <2> DEFINE y == Cleared(t, k)
  <2>1. DOMAIN t = KeysOf(s) /\ \A j \in 1 .. l : t[s[j][1]] = s[j][2]
    BY <1>12 DEF Lists, l
  <2>2. y = [q \in KeysOf(u) |-> t[q]]
    BY <1>11, <2>1 DEF Cleared
  <2> HIDE DEF y
  <2>3. ASSUME NEW m \in 1 .. Len(u) PROVE y[u[m][1]] = u[m][2]
    <3>1. u[m][1] \in KeysOf(u)
      BY DEF KeysOf
    <3>2. PICK j \in 1 .. l : u[m] = s[j]
      BY <1>5, <1>10
    <3> QED BY <2>1, <2>2, <3>1, <3>2
  <2>4. y = [q \in KeysOf(u) |-> y[q]]
    BY <2>2
  <2> QED BY <2>3, <2>4 DEF Lists, y
<1> QED BY <1>3, <1>8, <1>12 DEF Tree

\* What each call of the map makes of the rows, and of the table they list.
LEMMA MapInserted ==
  ASSUME ContainersShape, NEW v, NEW s, Tree(v, s), NEW k \in Keys, NEW x, <<k, x>> \in Rows
  PROVE  \E u : /\ Tree(minsert(v, k, x), u) /\ k \in KeysOf(u)
                /\ \/ TableIn(minsert(v, k, x)) = TableIn(v) /\ k \in DOMAIN TableIn(v)
                   \/ TableIn(minsert(v, k, x)) = SetIn(TableIn(v), k, x)
<1> DEFINE i == lower_bound(v, k)
           t == TableIn(v)
           q == minsert(v, k, x)
<1>1. Lists(s, t)
  BY TableIs
<1>2. Holds(v, i, k) <=> k \in KeysOf(s)
  BY Searched DEF KeysOf
<1>3. DOMAIN t = KeysOf(s)
  BY <1>1 DEF Lists
<1>4. CASE k \in KeysOf(s)
  <2>1. q = v
    BY <1>2, <1>4 DEF minsert
  <2> QED BY <1>3, <1>4, <2>1
<1>5. CASE k \notin KeysOf(s)
  <2> DEFINE u == Put(s, i, <<k, x>>)
  <2>1. q = vinsert(v, i, <<k, x>>)
    BY <1>2, <1>5 DEF minsert
  <2>2. Tree(q, u) /\ Lists(u, SetIn(t, k, x))
    BY <1>1, <1>5, <2>1, RowPutIn
  <2> HIDE DEF u, q, t
  <2>3. Lists(u, TableIn(q))
    BY <2>2, TableIs
  <2>4. TableIn(q) = SetIn(t, k, x)
    BY <2>2, <2>3, ListsOnce
  <2>5. k \in KeysOf(u)
    BY <2>2 DEF Lists, SetIn
  <2> QED BY <2>2, <2>4, <2>5 DEF q, t
<1> QED BY <1>4, <1>5

LEMMA MapAssigned ==
  ASSUME ContainersShape, NEW v, NEW s, Tree(v, s), NEW k \in Keys, NEW x \in Value
  PROVE  \E u : /\ Tree(massign(v, k, Default, x), u)
                /\ TableIn(massign(v, k, Default, x)) = SetIn(TableIn(v), k, x)
<1> DEFINE t == TableIn(v)
           w == minsert(v, k, Default)
           i == lower_bound(w, k)
           q == massign(v, k, Default, x)
<1>1. <<k, Default>> \in Rows /\ <<k, x>> \in Rows
  BY DEF Rows
<1>2. PICK r : /\ Tree(w, r) /\ k \in KeysOf(r)
               /\ \/ TableIn(w) = t /\ k \in DOMAIN t
                  \/ TableIn(w) = SetIn(t, k, Default)
  BY <1>1, MapInserted
<1>3. q = [w EXCEPT !.data[i] = <<k, x>>]
  BY DEF massign
<1> HIDE DEF w, t, q
<1>4. i \in Nat /\ i + 1 \in 1 .. Len(r) /\ r[i + 1][1] = k
  BY <1>2, Searched DEF Found, KeysOf
<1> HIDE DEF i
<1> DEFINE u == [r EXCEPT ![i + 1] = <<k, x>>]
<1>5. Tree(q, u) /\ \A y : Lists(r, y) => Lists(u, SetIn(y, k, x))
  BY <1>1, <1>2, <1>3, <1>4, RowSet
<1> HIDE DEF u
<1>6. Lists(r, TableIn(w)) /\ Lists(u, TableIn(q))
  BY <1>2, <1>5, TableIs
<1>7. TableIn(q) = SetIn(TableIn(w), k, x)
  BY <1>5, <1>6, ListsOnce
<1>8. SetIn(TableIn(w), k, x) = SetIn(t, k, x)
  BY <1>2 DEF SetIn
<1> QED BY <1>5, <1>7, <1>8 DEF q, t

LEMMA MapErased ==
  ASSUME ContainersShape, NEW v, NEW s, Tree(v, s), NEW k \in Keys
  PROVE  \E u : /\ Tree(merase(v, k), u)
                /\ TableIn(merase(v, k)) \in {TableIn(v), Cleared(TableIn(v), k)}
<1> DEFINE i == lower_bound(v, k)
           t == TableIn(v)
           q == merase(v, k)
<1>1. /\ i \in 0 .. Len(s) /\ v.size = Len(s) /\ s \in Seq(Rows) /\ Len(s) \in Nat
      /\ Holds(v, i, k) => i + 1 \in 1 .. Len(s) /\ s[i + 1][1] = k
  BY Searched, TreeParts DEF Found
<1>2. CASE find(v, k) = v.size
  BY <1>2 DEF merase
<1>3. CASE find(v, k) # v.size
  <2>1. find(v, k) = i /\ Holds(v, i, k)
    BY <1>3 DEF find
  <2>2. q = verase(v, i, i + 1)
    BY <1>3, <2>1 DEF merase
  <2> DEFINE u == SubSeq(s, 1, i) \o SubSeq(s, i + 1 + 1, Len(s))
  <2> HIDE DEF i, q
  <2>3. i \in Nat /\ i + 1 \in Nat /\ i <= i + 1 /\ i + 1 <= Len(s)
    BY <1>1, <2>1
  <2>4. Without(u, Rows, s, i, i + 1)
    BY <1>1, <2>3, TakenOut
  <2> HIDE DEF u
  <2>5. Tree(q, u) /\ \A y : Lists(s, y) => Lists(u, Cleared(y, k))
    BY <1>1, <2>1, <2>2, <2>3, <2>4, RowOut
  <2>6. Lists(s, TableIn(v)) /\ Lists(u, TableIn(q))
    BY <2>5, TableIs
  <2>7. TableIn(q) = Cleared(TableIn(v), k)
    BY <2>5, <2>6, ListsOnce
  <2> QED BY <2>5, <2>7 DEF q
<1> QED BY <1>2, <1>3

-----------------------------------------------------------------------------
(* The inductive invariant: each container is one that holds something.      *)

ContainersInv ==
  /\ \E s : Contains(dq, s)
  /\ \E s : Vec(vec, s, Value \cup {Default})
  /\ \E s : Tree(tab, s)

LEMMA ContainsIs ==
  ASSUME ContainersShape, NEW d, NEW s, Contains(d, s)
  PROVE  /\ Elements(d) = s /\ DequeSound(d) /\ s \in Seq(Value) /\ Len(s) \in Nat
         /\ dsize(d) = Len(s) /\ (dempty(d) <=> s = <<>>) /\ (Len(s) = 0 <=> s = <<>>)
<1>1. CASE d = EmptyDeque /\ s = <<>>
  <2>1. s \in Seq(Value) /\ Len(s) = 0
    BY <1>1
  <2>2. d.end = 0 /\ d.beg = 0
    BY <1>1 DEF EmptyDeque
  <2>3. dsize(d) = 0 /\ dempty(d)
    BY <2>2 DEF dsize, dempty
  <2>4. Elements(d) = s
    BY <1>1, <2>3 DEF Elements
  <2> QED BY <1>1, <2>1, <2>3, <2>4 DEF DequeSound
<1>2. CASE Ring(d, s)
  <2>1. Elements(d) = s /\ DequeSound(d)
    BY <1>2, RingIs DEF ContainersShape
  <2>2. s \in Seq(Value)
    BY <1>2 DEF Ring
  <2>3. dsize(d) = Len(s) /\ (dempty(d) <=> Len(s) = 0) /\ Len(s) \in Nat
    BY <1>2, RingSize
  <2>4. Len(s) = 0 <=> s = <<>>
    BY <2>2
  <2> QED BY <2>1, <2>2, <2>3, <2>4
<1> QED BY <1>1, <1>2 DEF Contains

LEMMA DequeStep ==
  ASSUME ContainersShape, NEW s, Contains(dq, s), DequeCall
  PROVE  (\E u : Contains(dq', u)) /\ Abstract!Queue
<1>1. /\ s \in Seq(Value) /\ Len(s) \in Nat /\ dsize(dq) = Len(s) /\ Elements(dq) = s
      /\ (dempty(dq) <=> s = <<>>) /\ (Len(s) = 0 <=> s = <<>>)
  BY ContainsIs
<1> DEFINE Made(u) == Contains(dq', u) /\ Abstract!Queue
<1>2. UNCHANGED <<vec, tab>>
  BY DEF DequeCall
<1>3. UNCHANGED <<Items(vec), Entries>>
  BY <1>2 DEF Entries
\* It is enough to name the sequence that the deque holds after the call.
<1>4. ASSUME NEW u, Ring(dq', u),
             \/ \E x \in Value : u \in {Append(s, x), <<x>> \o s}
             \/ s # <<>> /\ u \in {Tail(s), SubSeq(s, 1, Len(s) - 1)}
             \/ \E i, j \in 0 .. Len(s) : i <= j /\ u = SubSeq(s, 1, i) \o SubSeq(s, j + 1, Len(s))
      PROVE  Made(u)
  <2>1. Contains(dq', u)
    BY <1>4 DEF Contains
  <2>2. Elements(dq') = u
    BY <2>1, ContainsIs
  <2> QED BY <1>1, <1>3, <1>4, <2>1, <2>2, ZenonT(60) DEF Abstract!Queue
<1> HIDE DEF Made
<1>5. ASSUME NEW x \in Value, dq' = dpush_back(dq, x) \/ dq' = dpush_front(dq, x)
      PROVE  \E u : Made(u)
  <2> DEFINE r == dreserve(dq, dsize(dq) + 1)
  <2>1. Ring(r, s) /\ Len(s) + 1 < r.capacity
    BY <1>1, Reserved
  <2>2. CASE dq' = dpush_back(dq, x)
    <3>1. dq' = PutBack(r, x)
      BY <2>2 DEF dpush_back, PutBack
    <3> HIDE DEF r
    <3>2. Ring(dq', Append(s, x))
      BY <2>1, <3>1, PushedBack
    <3> QED BY <1>4, <3>2
  <2>3. CASE dq' = dpush_front(dq, x)
    <3>1. dq' = PutFront(r, x)
      BY <2>3 DEF dpush_front, PutFront
    <3> HIDE DEF r
    <3>2. Ring(dq', <<x>> \o s)
      BY <2>1, <3>1, PushedFront
    <3> QED BY <1>4, <3>2
  <2> QED BY <1>5, <2>2, <2>3
<1>6. ASSUME ~dempty(dq), dq' = dpop_back(dq) \/ dq' = dpop_front(dq)
      PROVE  \E u : Made(u)
  <2>1. Ring(dq, s) /\ Len(s) # 0 /\ s # <<>>
    BY <1>1, <1>6 DEF Contains
  <2>2. CASE dq' = dpop_back(dq)
    <3>1. Ring(dq', SubSeq(s, 1, Len(s) - 1))
      BY <2>1, <2>2, PoppedBack
    <3> QED BY <1>4, <2>1, <3>1
  <2>3. CASE dq' = dpop_front(dq)
    <3>1. Ring(dq', Tail(s))
      BY <2>1, <2>3, PoppedFront
    <3> QED BY <1>4, <2>1, <3>1
  <2> QED BY <1>6, <2>2, <2>3
<1>7. ASSUME NEW i \in 0 .. dsize(dq), NEW j \in 0 .. dsize(dq), i < j, dq' = derase(dq, i, j)
      PROVE  \E u : Made(u)
  <2>1. i \in 0 .. Len(s) /\ j \in 0 .. Len(s) /\ i <= j /\ s # <<>>
    BY <1>1, <1>7
  <2>2. Ring(dq, s)
    BY <2>1 DEF Contains
  <2>3. Ring(dq', SubSeq(s, 1, i) \o SubSeq(s, j + 1, Len(s)))
    BY <1>7, <2>1, <2>2, Erased
  <2> QED BY <1>4, <2>1, <2>3
<1>8. \E u : Made(u)
  BY <1>5, <1>6, <1>7 DEF DequeCall
<1> QED BY <1>8 DEF Made

LEMMA VectorStep ==
  ASSUME ContainersShape, NEW s, Vec(vec, s, Value \cup {Default}), VectorCall
  PROVE  /\ \E u : Vec(vec', u, Value \cup {Default})
         /\ Abstract!List \/ UNCHANGED <<Elements(dq), Items(vec), Entries>>
<1> DEFINE S == Value \cup {Default}
<1>1. Unset \notin S /\ Default \in S /\ \A x \in Value : x \in S
  BY DEF ContainersShape
<1> HIDE DEF S
<1>0. Vec(vec, s, S)
  BY DEF S
<1>2. s \in Seq(S) /\ Len(s) \in Nat /\ vec.size = Len(s) /\ Items(vec) = s
      /\ (Len(s) = 0 <=> s = <<>>)
  <2>1. s \in Seq(S) /\ Len(s) \in Nat /\ vec.size = Len(s) /\ Items(vec) = s
    BY <1>0, <1>1, VecParts, VecIs
  <2> QED BY <2>1
<1> DEFINE Made(u) ==
      Vec(vec', u, S) /\ (Abstract!List \/ UNCHANGED <<Elements(dq), Items(vec), Entries>>)
<1>3. UNCHANGED <<dq, tab>>
  BY DEF VectorCall
<1>4. UNCHANGED <<Elements(dq), Entries>>
  BY <1>3 DEF Entries
<1>5. ASSUME NEW u, Vec(vec', u, S),
             \/ \E x \in Value : u = Append(s, x)
             \/ s # <<>> /\ u = SubSeq(s, 1, Len(s) - 1)
             \/ \E n \in 0 .. Len(s) : u = SubSeq(s, 1, n)
             \/ \E n \in 1 .. 4 : u = s \o [i \in 1 .. n |-> Default]
             \/ u = s
      PROVE  Made(u)
  <2>1. Items(vec') = u
    BY <1>1, <1>5, VecIs
  <2> QED BY <1>2, <1>4, <1>5, <2>1 DEF Abstract!List
<1> HIDE DEF Made
<1>6. ASSUME NEW x \in Value, vec' = vpush_back(vec, x) PROVE \E u : Made(u)
  <2>1. Vec(vec', Append(s, x), S)
    BY <1>0, <1>1, <1>6, VPushed
  <2> QED BY <1>5, <2>1
<1>7. ASSUME vec.size > 0, vec' = vpop_back(vec) PROVE \E u : Made(u)
  <2>1. Len(s) - 1 \in 0 .. Len(s) /\ s # <<>>
    BY <1>2, <1>7
  <2>2. vec' = verase(vec, Len(s) - 1, vec.size)
    BY <1>2, <1>7 DEF vpop_back
  <2>3. Vec(vec', SubSeq(s, 1, Len(s) - 1), S)
    BY <1>0, <2>1, <2>2, VShrunk
  <2> QED BY <1>5, <2>1, <2>3
<1>8. ASSUME NEW n \in 0 .. MaxLen, n <= vec.size + 4, vec' = vresize(vec, n, Default)
      PROVE  \E u : Made(u)
  <2>0. n \in Nat
    BY DEF ContainersShape
  <2>1. CASE n <= vec.size
    <3>1. n \in 0 .. Len(s)
      BY <1>2, <2>0, <2>1
    <3>2. vec' = verase(vec, n, vec.size)
      BY <1>8, <2>1 DEF vresize
    <3>3. Vec(vec', SubSeq(s, 1, n), S)
      BY <1>0, <3>1, <3>2, VShrunk
    <3> QED BY <1>5, <3>1, <3>3
  <2>2. CASE ~(n <= vec.size)
    <3>1. n > Len(s) /\ n - Len(s) \in 1 .. 4
      BY <1>2, <1>8, <2>0, <2>2
    <3>2. Vec(vec', s \o [i \in 1 .. n - Len(s) |-> Default], S)
      BY <1>0, <1>1, <1>8, <2>0, <3>1, VGrown
    <3> QED BY <1>5, <3>1, <3>2
  <2> QED BY <2>1, <2>2
<1>9. ASSUME vec' = vcopy(vec) PROVE \E u : Made(u)
  <2>1. Vec(vec', s, S)
    BY <1>0, <1>9, VCopied
  <2> QED BY <1>5, <2>1
<1>10. \E u : Made(u)
  BY <1>6, <1>7, <1>8, <1>9 DEF VectorCall
<1> QED BY <1>10 DEF Made, S

LEMMA MapStep ==
  ASSUME ContainersShape, NEW s, Tree(tab, s), MapCall
  PROVE  /\ \E u : Tree(tab', u)
         /\ Abstract!Table \/ UNCHANGED <<Elements(dq), Items(vec), Entries>>
<1> DEFINE t == TableIn(tab)
           Made(u) == Tree(tab', u) /\ (Abstract!Table \/ UNCHANGED <<Elements(dq), Items(vec), Entries>>)
<1>1. UNCHANGED <<dq, vec>>
  BY DEF MapCall
<1>2. UNCHANGED <<Elements(dq), Items(vec)>>
  BY <1>1
<1>3. Entries = t /\ Entries' = TableIn(tab')
  BY DEF Entries, TableIn
<1>4. ASSUME NEW u, Tree(tab', u), NEW k \in Keys,
             \/ \E x \in Value : TableIn(tab') = SetIn(t, k, x)
             \/ TableIn(tab') = Cleared(t, k)
             \/ TableIn(tab') = t
      PROVE  Made(u)
  BY <1>2, <1>3, <1>4 DEF Abstract!Table, Abstract!Set, SetIn, Cleared
<1> HIDE DEF Made, t
<1>5. ASSUME NEW k \in Keys, NEW x \in Value, tab' = minsert(tab, k, x) PROVE \E u : Made(u)
  <2>1. <<k, x>> \in Rows
    BY DEF Rows
  <2>2. \E u : Tree(tab', u) /\ (TableIn(tab') = t \/ TableIn(tab') = SetIn(t, k, x))
    BY <1>5, <2>1, MapInserted DEF t
  <2> QED BY <1>4, <2>2
<1>6. ASSUME NEW k \in Keys, NEW x \in Value, tab' = massign(tab, k, Default, x)
      PROVE  \E u : Made(u)
  <2>1. \E u : Tree(tab', u) /\ TableIn(tab') = SetIn(t, k, x)
    BY <1>6, MapAssigned DEF t
  <2> QED BY <1>4, <2>1
<1>7. ASSUME NEW k \in Keys, tab' = merase(tab, k) PROVE \E u : Made(u)
  <2>1. \E u : Tree(tab', u) /\ TableIn(tab') \in {t, Cleared(t, k)}
    BY <1>7, MapErased DEF t
  <2> QED BY <1>4, <2>1
<1>8. \E u : Made(u)
  BY <1>5, <1>6, <1>7 DEF MapCall
<1> QED BY <1>8 DEF Made

-----------------------------------------------------------------------------
(* The invariant and the two theorems.                                       *)

\* At the start the three are empty, and so is what they hold.
LEMMA StartsEmpty ==
  ASSUME ContainersShape, ContainersInit
  PROVE  ContainersInv /\ Abstract!Init
<1>1. Contains(dq, <<>>) /\ Vec(vec, <<>>, Value \cup {Default})
  BY EmptyVec DEF ContainersInit, Contains
<1>2. Tree(tab, <<>>)
  <2>1. Vec(tab, <<>>, Rows)
    BY EmptyVec DEF ContainersInit
  <2>2. Sorted(<<>>)
    BY DEF Sorted
  <2> QED BY <2>1, <2>2 DEF Tree
<1>3. Elements(dq) = <<>> /\ Items(vec) = <<>>
  <2>1. Unset \notin Value \cup {Default}
    BY DEF ContainersShape
  <2> QED BY <1>1, <2>1, ContainsIs, VecIs
<1>4. Entries = <<>>
  <2>1. Lists(<<>>, TableIn(tab))
    BY <1>2, TableIs
  <2>2. KeysOf(<<>>) = {}
    BY DEF KeysOf
  <2>3. Lists(<<>>, <<>>)
    BY <2>2 DEF Lists
  <2> QED BY <2>1, <2>3, ListsOnce DEF Entries, TableIn
<1> QED BY <1>1, <1>2, <1>3, <1>4 DEF ContainersInv, Abstract!Init

LEMMA InvSound ==
  ASSUME ContainersShape, ContainersInv
  PROVE  ContainersSound
<1>1. DequeSound(dq)
  BY ContainsIs DEF ContainersInv
<1>2. VectorSound(vec)
  BY VecIs DEF ContainersInv, ContainersShape
<1>3. VectorSound(tab) /\ Ascending(tab)
  <2>1. PICK s : Tree(tab, s)
    BY DEF ContainersInv
  <2>2. Unset \notin Rows /\ Vec(tab, s, Rows)
    BY <2>1, RowTypes DEF Tree
  <2> QED BY <2>1, <2>2, VecIs, TreeParts
<1> QED BY <1>1, <1>2, <1>3 DEF ContainersSound

LEMMA InvKept ==
  ASSUME ContainersShape, ContainersInv, [ContainersNext]_containers
  PROVE  /\ ContainersInv'
         /\ Abstract!Next \/ UNCHANGED <<Elements(dq), Items(vec), Entries>>
<1>0. /\ \E s : Contains(dq, s)
      /\ \E s : Vec(vec, s, Value \cup {Default})
      /\ \E s : Tree(tab, s)
  BY DEF ContainersInv
<1>1. CASE DequeCall
  <2>1. (\E u : Contains(dq', u)) /\ Abstract!Queue
    BY <1>0, <1>1, DequeStep
  <2>2. vec' = vec /\ tab' = tab
    BY <1>1 DEF DequeCall
  <2> QED BY <1>0, <2>1, <2>2 DEF ContainersInv, Abstract!Next
<1>2. CASE VectorCall
  <2>1. /\ \E u : Vec(vec', u, Value \cup {Default})
        /\ Abstract!List \/ UNCHANGED <<Elements(dq), Items(vec), Entries>>
    BY <1>0, <1>2, VectorStep
  <2>2. dq' = dq /\ tab' = tab
    BY <1>2 DEF VectorCall
  <2> QED BY <1>0, <2>1, <2>2 DEF ContainersInv, Abstract!Next
<1>3. CASE MapCall
  <2>1. /\ \E u : Tree(tab', u)
        /\ Abstract!Table \/ UNCHANGED <<Elements(dq), Items(vec), Entries>>
    BY <1>0, <1>3, MapStep
  <2>2. dq' = dq /\ vec' = vec
    BY <1>3 DEF MapCall
  <2> QED BY <1>0, <2>1, <2>2 DEF ContainersInv, Abstract!Next
<1>4. CASE UNCHANGED containers
  <2>1. dq' = dq /\ vec' = vec /\ tab' = tab
    BY <1>4 DEF containers
  <2>2. UNCHANGED <<Elements(dq), Items(vec), Entries>>
    BY <2>1 DEF Entries
  <2> QED BY <1>0, <2>1, <2>2 DEF ContainersInv
<1> QED BY <1>1, <1>2, <1>3, <1>4 DEF ContainersNext

LEMMA InvHolds == ContainersSpec => []ContainersInv
<1>1. ContainersInit => ContainersInv
  BY StartsEmpty, ContainersAssumption
<1>2. ContainersInv /\ [ContainersNext]_containers => ContainersInv'
  BY InvKept, ContainersAssumption
<1> QED BY <1>1, <1>2, PTL DEF ContainersSpec

\* The class invariants that the comments of deque and vector state hold after any
\* calls, and the keys of a map ascend (src/libc++/deque, vector, map).
THEOREM ContainersStaySound == ContainersSpec => []ContainersSound
<1>1. ContainersInv => ContainersSound
  BY InvSound, ContainersAssumption
<1> QED BY <1>1, InvHolds, PTL

\* What an iterator, an index or a find of the three meets is, after any calls, what
\* a sequence, a list and a table hold: the arrays, indices and bisections of
\* src/libc++ implement the collections of Collections.
THEOREM CollectionsImplemented == ContainersSpec => ImplementsCollections
<1>1. ContainersInit => Abstract!Init
  BY StartsEmpty, ContainersAssumption
<1>2. ContainersInv /\ [ContainersNext]_containers
      => [Abstract!Next]_<<Elements(dq), Items(vec), Entries>>
  BY InvKept, ContainersAssumption
<1> QED BY <1>1, <1>2, InvHolds, PTL DEF ContainersSpec, ImplementsCollections, Abstract!Spec
=============================================================================
