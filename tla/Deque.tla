-------------------------------- MODULE Deque --------------------------------
(***************************************************************************)
(* std::deque of the libc++ (src/libc++/deque): a ring of _capacity cells  *)
(* in which the elements lie from _begIndex to _endIndex.  The queue of    *)
(* threads, the data of a pipe, the windows of a workspace, and the lines  *)
(* and the input of a text window are deques.                              *)
(***************************************************************************)
EXTENDS Integers, Sequences, FiniteSetsExt

Hole == "hole"       \* a cell without an object

\* The state empty of the class invariant: _data is null.
EmptyDeque == [capacity |-> 0, beg |-> 0, end |-> 0, data |-> <<>>]

\* deque::strategy: a power of two above s + 1, from the index of its top bit.
strategy(s) == 2 ^ Min({k \in 0..(s + 1) : 2 ^ k > s + 1})

incr(d, n) == IF n + 1 = d.capacity THEN 0 ELSE n + 1
decr(d, n) == IF n = 0 THEN d.capacity - 1 ELSE n - 1

dsize(d) == IF d.end >= d.beg THEN d.end - d.beg ELSE d.end + d.capacity - d.beg
dempty(d) == d.end = d.beg

\* operator[] and at: an iterator from begin() plus i.
at(d, i) == d.data[(d.beg + i) % d.capacity]
front(d) == d.data[d.beg]
back(d)  == d.data[decr(d, d.end)]

\* The elements an iterator meets from begin() to end(), in order.
Elements(d) == [i \in 1..dsize(d) |-> at(d, i - 1)]

\* Mutant of dreserve: the elements are copied from the start of the old array.
dreserveFromZero(d, n) ==
    IF d.capacity # 0 /\ n < d.capacity THEN d
    ELSE [capacity |-> strategy(n), beg |-> 0, end |-> dsize(d),
          data |-> [k \in 0..(strategy(n) - 1) |->
                       IF k < dsize(d) THEN d.data[k] ELSE Hole]]
\* deque::reserve: the elements move to the start of a larger array.
dreserve(d, n) ==
    IF d.capacity # 0 /\ n < d.capacity THEN d
    ELSE [capacity |-> strategy(n), beg |-> 0, end |-> dsize(d),
          data |-> [k \in 0..(strategy(n) - 1) |->
                       IF k < dsize(d) THEN at(d, k) ELSE Hole]]

dpush_back(d, x) ==
    LET r == dreserve(d, dsize(d) + 1)
    IN  [r EXCEPT !.data[r.end] = x, !.end = incr(r, @)]
dpush_front(d, x) ==
    LET r == dreserve(d, dsize(d) + 1)
    IN  [r EXCEPT !.beg = decr(r, @), !.data[decr(r, r.beg)] = x]
dpop_back(d)  == [d EXCEPT !.end = decr(d, @), !.data[decr(d, d.end)] = Hole]
dpop_front(d) == [d EXCEPT !.beg = incr(d, @), !.data[d.beg] = Hole]

\* deque::erase of the elements i to j - 1: those behind them move forward and
\* the last j - i cells are destroyed.
derase(d, i, j) ==
    LET cell(k) == (d.beg + k) % d.capacity
        moved   == dsize(d) - j
    IN  [d EXCEPT !.end = (@ + d.capacity - (j - i)) % d.capacity,
                  !.data = [c \in DOMAIN @ |->
                      IF \E k \in 0..(moved - 1) : c = cell(i + k)
                      THEN @[cell(j + CHOOSE k \in 0..(moved - 1) : c = cell(i + k))]
                      ELSE IF \E k \in (i + moved)..(dsize(d) - 1) : c = cell(k)
                      THEN Hole ELSE @[c]]]

\* "Class Invariant" (deque:30-44): the cells from _begIndex to _endIndex hold
\* objects, the rest is uninitialized, and both indices are in the array.
DequeSound(d) ==
    \/ d = EmptyDeque
    \/ /\ d.beg < d.capacity /\ d.end < d.capacity
       /\ \A c \in DOMAIN d.data :
            (d.data[c] # Hole) = (\E i \in 0..(dsize(d) - 1) : c = (d.beg + i) % d.capacity)
=============================================================================
