---------------------------- MODULE SortedVector ----------------------------
(***************************************************************************)
(* std::map and std::set of the libc++ (src/libc++/map, set): vectors of   *)
(* pairs (or keys), sorted, searched by lower_bound.  The tables of        *)
(* processes and threads, the sons of a process, the two sides of the      *)
(* waiting protocol, the mount points and the entries of a RamFS directory *)
(* are such vectors.                                                       *)
(*                                                                         *)
(* A vector has size elements in data[0..size - 1] of an array of capacity *)
(* cells; an element is a pair <<key, value>>.                             *)
(***************************************************************************)
EXTENDS Integers, Sequences, FiniteSetsExt

Unset == <<>>        \* a cell without an object
EmptyVector == [size |-> 0, capacity |-> 0, data |-> <<>>]

\* vector::strategy, as in the deque.
vstrategy(s) == 2 ^ Min({k \in 0..(s + 1) : 2 ^ k > s + 1})
Array(n, f(_)) == [k \in 0..(n - 1) |-> f(k)]

\* vector::reserve: an empty vector always takes a new array.
vreserve(v, n) ==
    IF v.size > 0 /\ n <= v.capacity THEN v
    ELSE [v EXCEPT !.capacity = vstrategy(n),
                   !.data = Array(vstrategy(n), LAMBDA k : IF k < v.size THEN v.data[k] ELSE Unset)]

vpush_back(v, e) ==
    LET r == vreserve(v, v.size + 1)
    IN  [r EXCEPT !.data[v.size] = e, !.size = @ + 1]

\* The cells of v with e at i and those from i on one further, in n cells.
Shifted(v, n, i, e) ==
    Array(n, LAMBDA k : IF k < i THEN v.data[k] ELSE IF k = i THEN e
                        ELSE IF k <= v.size THEN v.data[k - 1] ELSE Unset)
\* vector::insert before the element i: in place by move_backward, or into a new
\* array when the old one is full (and then never given back).
vinsert(v, i, e) ==
    IF i = v.size THEN vpush_back(v, e)
    ELSE LET n == IF v.capacity = v.size THEN vstrategy(v.size + 1) ELSE v.capacity
         IN  [size |-> v.size + 1, capacity |-> n, data |-> Shifted(v, n, i, e)]

\* vector::erase of the elements i to j - 1.
verase(v, i, j) ==
    LET left == v.size - (j - i)
    IN  [v EXCEPT !.size = left,
                  !.data = Array(v.capacity, LAMBDA k :
                      IF k < i THEN v.data[k]
                      ELSE IF k < left THEN v.data[k + (j - i)] ELSE Unset)]

\* vector::resize: destroys the elements from n on, or adds default ones.
vresize(v, n, default) ==
    IF n <= v.size THEN verase(v, n, v.size)
    ELSE LET r == vreserve(v, n)
         IN  [r EXCEPT !.size = n, !.data = [k \in DOMAIN @ |->
                 IF k >= v.size /\ k < n THEN default ELSE @[k]]]
vpop_back(v) == verase(v, v.size - 1, v.size)

\* The copy of a vector, or its assignment to another: a new array.
vcopy(v) == LET r == vreserve(EmptyVector, v.size)
            IN  [r EXCEPT !.size = v.size, !.data = [k \in DOMAIN @ |->
                    IF k < v.size THEN v.data[k] ELSE Unset]]

-----------------------------------------------------------------------------
Key(e) == e[1]

\* std::lower_bound: bisection; the first element whose key is not below k.
lower_bound(v, k) ==
    LET ranges == {r \in (0..v.size) \X (0..v.size) : r[1] + r[2] <= v.size}
        bisect[r \in ranges] ==      \* r is <<first, count>>
            LET step == r[2] \div 2
            IN  IF r[2] = 0 THEN r[1]
                ELSE IF Key(v.data[r[1] + step]) < k
                THEN bisect[<<r[1] + step + 1, r[2] - step - 1>>]
                ELSE bisect[<<r[1], step>>]
    IN  bisect[<<0, v.size>>]

Holds(v, i, k) == i < v.size /\ Key(v.data[i]) = k

\* Mutant of minsert: equal keys are entered twice.
minsertTwice(v, k, x) == vinsert(v, lower_bound(v, k), <<k, x>>)
\* map::insert: an entry that exists is left as it is.
minsert(v, k, x) ==
    LET i == lower_bound(v, k)
    IN  IF Holds(v, i, k) THEN v ELSE vinsert(v, i, <<k, x>>)

\* map::operator[] on the left of an assignment: a default value is inserted first.
massign(v, k, default, x) ==
    LET w == minsert(v, k, default)
    IN  [w EXCEPT !.data[lower_bound(w, k)] = <<k, x>>]

\* map::find, the index of the entry or of end().
find(v, k) == LET i == lower_bound(v, k) IN IF Holds(v, i, k) THEN i ELSE v.size
\* map::erase of a key.
merase(v, k) == IF find(v, k) = v.size THEN v ELSE verase(v, find(v, k), find(v, k) + 1)

-----------------------------------------------------------------------------
\* "Class Invariant" (vector:92-101).
VectorSound(v) ==
    /\ v.size <= v.capacity
    /\ \A k \in DOMAIN v.data : (v.data[k] # Unset) = (k < v.size)
\* What map and set add: the keys ascend.
Ascending(v) == \A i, j \in 0..(v.size - 1) : i < j => Key(v.data[i]) < Key(v.data[j])
=============================================================================
