----------------------------- MODULE Containers -----------------------------
(***************************************************************************)
(* A deque, a vector and a map of the libc++, under every sequence of the  *)
(* calls that the kernel makes.                                            *)
(***************************************************************************)
EXTENDS Deque, SortedVector, Sequences

CONSTANTS Value, Keys, Default,
          MaxLen             \* bound on the number of elements

\* Keys are ordered, and no element is what marks a cell without an object.
ContainersShape ==
    /\ Keys \subseteq Int /\ MaxLen \in Nat
    /\ Hole \notin Value /\ Unset \notin Value \cup {Default}
ASSUME ContainersAssumption == ContainersShape

VARIABLES dq, vec, tab

containers == <<dq, vec, tab>>

ContainersInit == dq = EmptyDeque /\ vec = EmptyVector /\ tab = EmptyVector

DequeCall ==
    /\ \/ /\ dsize(dq) < MaxLen
          /\ \E x \in Value : dq' = dpush_back(dq, x) \/ dq' = dpush_front(dq, x)
       \/ /\ ~dempty(dq)
          /\ dq' = dpop_back(dq) \/ dq' = dpop_front(dq)
       \/ \E i, j \in 0..dsize(dq) : i < j /\ dq' = derase(dq, i, j)
    /\ UNCHANGED <<vec, tab>>

VectorCall ==
    /\ \/ vec.size < MaxLen /\ \E x \in Value : vec' = vpush_back(vec, x)
       \/ vec.size > 0 /\ vec' = vpop_back(vec)
       \/ \E n \in 0..MaxLen : n # vec.size /\ n <= vec.size + 4 /\ vec' = vresize(vec, n, Default)
       \/ vec' = vcopy(vec)
    /\ UNCHANGED <<dq, tab>>

MapCall ==
    /\ \E k \in Keys :
        \/ \E x \in Value : tab' = minsert(tab, k, x) \/ tab' = massign(tab, k, Default, x)
        \/ tab' = merase(tab, k)
    /\ UNCHANGED <<dq, vec>>

ContainersNext == DequeCall \/ VectorCall \/ MapCall
ContainersSpec == ContainersInit /\ [][ContainersNext]_containers

-----------------------------------------------------------------------------
\* The class invariants that the comments of deque and vector state, and of the map
\* that its keys ascend: what lower_bound needs to find an entry, and what keeps an
\* object from being destroyed twice or overwritten.
ContainersSound ==
    /\ DequeSound(dq)
    /\ VectorSound(vec)
    /\ VectorSound(tab) /\ Ascending(tab)

Items(v) == [i \in 1..v.size |-> v.data[i - 1]]
Entries == [k \in {q \in Keys : find(tab, q) # tab.size} |-> tab.data[find(tab, k)][2]]

\* Each container is, after any calls, the sequence or the table it stands for: the
\* elements are in order whatever the indices, no array that grows drops or repeats
\* one, and an entry of the map is found, replaced and erased by its key.
Abstract == INSTANCE Collections WITH
    queue <- Elements(dq), list <- Items(vec), table <- Entries
ImplementsCollections == Abstract!Spec
=============================================================================
