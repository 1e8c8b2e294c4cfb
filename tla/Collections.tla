----------------------------- MODULE Collections -----------------------------
(***************************************************************************)
(* What std::deque, std::vector and std::map promise to the kernel: a      *)
(* sequence with two ends, a sequence that is resized, and a table from    *)
(* keys to values.                                                         *)
(***************************************************************************)
EXTENDS Integers, Sequences, FiniteSets

CONSTANTS Value, Keys, Default

VARIABLES queue, list, table

Init == queue = <<>> /\ list = <<>> /\ table = <<>>

\* The deque: push, pop, and erase of the elements i to j - 1.
Queue ==
    /\ \/ \E x \in Value : queue' \in {Append(queue, x), <<x>> \o queue}
       \/ /\ queue # <<>>
          /\ queue' \in {Tail(queue), SubSeq(queue, 1, Len(queue) - 1)}
       \/ \E i, j \in 0..Len(queue) :
             /\ i <= j
             /\ queue' = SubSeq(queue, 1, i) \o SubSeq(queue, j + 1, Len(queue))
    /\ UNCHANGED <<list, table>>

\* The vector: push_back, pop_back, resize, copy.
List ==
    /\ \/ \E x \in Value : list' = Append(list, x)
       \/ list # <<>> /\ list' = SubSeq(list, 1, Len(list) - 1)
       \/ \E n \in 0..Len(list) : list' = SubSeq(list, 1, n)
       \/ \E n \in 1..4 : list' = list \o [i \in 1..n |-> Default]
    /\ UNCHANGED <<queue, table>>

Set(k, x) == [q \in DOMAIN table \cup {k} |-> IF q = k THEN x ELSE table[q]]

\* The map: insert leaves an entry that exists, operator[] overwrites it.
Table ==
    /\ \E k \in Keys :
        \/ \E x \in Value : table' = Set(k, x)
        \/ table' = [q \in DOMAIN table \ {k} |-> table[q]]
    /\ UNCHANGED <<queue, list>>

Next == Queue \/ List \/ Table
Spec == Init /\ [][Next]_<<queue, list, table>>
==============================================================================
