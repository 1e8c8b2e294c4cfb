----------------------------- MODULE PipesProofs -----------------------------
(***************************************************************************)
(* Proofs about pipes and file descriptors, for every number of threads,    *)
(* pipes, descriptors and bytes: the reference counts free nothing that is  *)
(* in use, a pipe is a queue, and no write is missed by a reader.           *)
(***************************************************************************)
EXTENDS Pipes, FiniteSetTheorems, SequenceTheorems, TLAPS

-----------------------------------------------------------------------------
(* The inductive invariant.                                                  *)

Vector == Seq(Stream \cup {Empty})

\* TypeOK with the domains of the functions it is about, but for power.  A thread
\* that lives is one of a process that is not reaped.
Typed ==
  /\ processes \in SUBSET Tid
  /\ process \in [Tid -> Tid \cup {NoProcess}]
  /\ \A t \in Tid : process[t] # NoProcess => process[t] \in processes
  /\ fds \in [Tid -> Vector]
  /\ \A p \in Tid : Len(fds[p]) <= MaxFd
  /\ capacity \in [Tid -> Nat]
  /\ \A p \in processes : Len(fds[p]) <= capacity[p]
  /\ owners \in [Stream -> Nat]
  /\ streams \in SUBSET Stream
  /\ made \in 0 .. MaxPipe
  /\ deque \in [Pipe -> Seq(1 .. MaxBytes)]
  /\ eof \in SUBSET Pipe /\ out \in SUBSET Pipe
  /\ nbRef \in [Pipe -> 0 .. 2]
  /\ written \in [Pipe -> 0 .. MaxBytes] /\ taken \in [Pipe -> 0 .. MaxBytes]
  /\ waiting \in [Tid -> Stream \cup {None}]
  /\ waited \in [Tid -> Stream \cup {None}]
  /\ waitings \in [Stream -> SUBSET Tid]
  /\ call \in [Tid -> Nat \X Nat]
  /\ retargeted \in SUBSET Tid

PowerTyped == power \in {"on", "~Waiting", "~Waitable", "use after free"}

\* A stream, an _eof or an _out is one of a pipe that was made.
Made == /\ \A s \in streams : s[1] \in 1 .. made
        /\ eof \subseteq 1 .. made /\ out \subseteq 1 .. made

\* The flags and the counter of a PipeStream say which of its ends are alive.
EndsCounted ==
  \A k \in 1 .. made : /\ k \in eof <=> In(k) \notin streams
                       /\ k \in out <=> Out(k) \in streams
                       /\ nbRef[k] = Cardinality(streams \cap {In(k), Out(k)})

\* Which descriptors there are.
FilesInv == Made /\ (power = "on" => NoDanglingFd /\ EndsCounted)

\* A blocked thread lives and waits for a read end, where it is registered until
\* that stream wakes it.
Asleep ==
  \A t \in Tid :
    /\ waiting[t] # None => process[t] # NoProcess /\ waiting[t] \in {Out(k) : k \in Pipe}
    /\ waited[t] \in {None, waiting[t]}
    /\ \A s \in Stream : t \in waitings[s] <=> waiting[t] = s /\ waited[t] = None

\* Until its descriptor is reassigned, a blocked thread reads the stream that it
\* waits for.
Aimed ==
  \A t \in Tid \ retargeted : waiting[t] # None => ReadDesc(t) = waiting[t]

Fifo == PipeFifo /\ \A k \in Pipe : taken[k] <= written[k]

IInv == Typed /\ PowerTyped /\ FilesInv /\ Asleep /\ Aimed /\ Fifo /\ NoMissedWrite

-----------------------------------------------------------------------------
(* Lemmas about the number of descriptors that refer to a stream.            *)

\* The places of q that hold x.
At(q, x) == {i \in DOMAIN q : q[i] = x}

\* The descriptors of the processes P, whose vectors are F, that refer to x.
Places(P, F, x) == UNION {{<<p, i>> : i \in At(F[p], x)} : p \in P}

LEMMA RefsTyped ==
  ASSUME NEW q \in Vector, NEW x
  PROVE  /\ IsFiniteSet(At(q, x)) /\ Refs(q, x) = Cardinality(At(q, x)) /\ Refs(q, x) \in Nat
         /\ Refs(q, x) > 0 <=> \E i \in DOMAIN q : q[i] = x
<1>1. At(q, x) \in SUBSET (1 .. Len(q)) /\ Len(q) \in Nat
  BY DEF At, Vector
<1>2. IsFiniteSet(1 .. Len(q))
  BY <1>1, FS_Interval
<1>3. IsFiniteSet(At(q, x))
  BY <1>1, <1>2, FS_Subset
<1>4. Cardinality(At(q, x)) \in Nat
  BY <1>3, FS_CardinalityType
<1>5. Refs(q, x) = Cardinality(At(q, x))
  BY DEF Refs, At
<1>6. Cardinality(At(q, x)) = 0 <=> At(q, x) = {}
  BY <1>3, FS_EmptySet
<1>7. At(q, x) = {} <=> ~ \E i \in DOMAIN q : q[i] = x
  BY DEF At
<1>8. QED BY <1>3, <1>4, <1>5, <1>6, <1>7

LEMMA RefsNone == ASSUME NEW x PROVE Refs(<<>>, x) = 0
<1>1. {i \in DOMAIN <<>> : <<>>[i] = x} = {}
  OBVIOUS
<1>2. QED BY <1>1, FS_EmptySet DEF Refs

LEMMA RefsAppend ==
  ASSUME NEW q \in Vector, NEW y \in Stream \cup {Empty}, NEW x
  PROVE  Refs(Append(q, y), x) = Refs(q, x) + (IF y = x THEN 1 ELSE 0)
<1> DEFINE t == Append(q, y)
           n == Len(q) + 1
<1>1. /\ t \in Vector /\ DOMAIN t = DOMAIN q \cup {n} /\ n \notin DOMAIN q /\ t[n] = y
      /\ \A i \in DOMAIN q : t[i] = q[i]
  BY DEF Vector
<1> HIDE DEF t, n
<1>2. At(t, x) = IF y = x THEN At(q, x) \cup {n} ELSE At(q, x)
  BY <1>1 DEF At
<1>3. n \notin At(q, x)
  BY <1>1 DEF At
<1>4. IsFiniteSet(At(q, x)) /\ Refs(q, x) = Cardinality(At(q, x)) /\ Refs(q, x) \in Nat
  BY RefsTyped
<1>5. Refs(t, x) = Cardinality(At(t, x))
  BY <1>1, RefsTyped
<1>6. Cardinality(At(q, x) \cup {n}) = Cardinality(At(q, x)) + 1
  BY <1>3, <1>4, FS_AddElement
<1>7. QED BY <1>2, <1>4, <1>5, <1>6 DEF t

LEMMA RefsSet ==
  ASSUME NEW q \in Vector, NEW y \in Stream \cup {Empty}, NEW x, NEW i \in DOMAIN q
  PROVE  Refs([q EXCEPT ![i] = y], x)
           = Refs(q, x) - (IF q[i] = x THEN 1 ELSE 0) + (IF y = x THEN 1 ELSE 0)
<1> DEFINE t == [q EXCEPT ![i] = y]
<1>1. /\ t \in Vector /\ DOMAIN t = DOMAIN q /\ t[i] = y
      /\ \A j \in DOMAIN q : j # i => t[j] = q[j]
  BY DEF Vector
<1> HIDE DEF t
<1>2. /\ IsFiniteSet(At(q, x)) /\ Refs(q, x) = Cardinality(At(q, x)) /\ Refs(q, x) \in Nat
  BY RefsTyped
<1>3. IsFiniteSet(At(t, x)) /\ Refs(t, x) = Cardinality(At(t, x)) /\ Refs(t, x) \in Nat
  BY <1>1, RefsTyped
<1>4. /\ Cardinality(At(q, x) \ {i}) = IF i \in At(q, x) THEN Refs(q, x) - 1 ELSE Refs(q, x)
      /\ Cardinality(At(t, x) \ {i}) = IF i \in At(t, x) THEN Refs(t, x) - 1 ELSE Refs(t, x)
  BY <1>2, <1>3, FS_RemoveElement
<1>5. At(q, x) \ {i} = At(t, x) \ {i} /\ (i \in At(q, x) <=> q[i] = x) /\ (i \in At(t, x) <=> y = x)
  BY <1>1 DEF At
<1>6. (IF q[i] = x THEN Refs(q, x) - 1 ELSE Refs(q, x))
         = IF y = x THEN Refs(t, x) - 1 ELSE Refs(t, x)
  BY <1>4, <1>5
<1>7. Refs(q, x) \in Int /\ Refs(t, x) \in Int
  BY <1>2, <1>3
<1>8. Refs(t, x) = Refs(q, x) - (IF q[i] = x THEN 1 ELSE 0) + (IF y = x THEN 1 ELSE 0)
  BY <1>6, <1>7
<1>9. QED BY <1>8 DEF t

LEMMA RefsTwo ==
  ASSUME NEW q \in Vector, NEW x, NEW i \in DOMAIN q, NEW j \in DOMAIN q,
         i # j, q[i] = x, q[j] = x
  PROVE  Refs(q, x) >= 2
<1>1. IsFiniteSet(At(q, x)) /\ Refs(q, x) = Cardinality(At(q, x)) /\ Refs(q, x) \in Nat
  BY RefsTyped
<1> DEFINE I == {i}
           both == I \cup {j}
<1>2. both \subseteq At(q, x)
  BY DEF At
<1>3. IsFiniteSet(I) /\ Cardinality(I) = 1 /\ j \notin I
  BY FS_Singleton
<1> HIDE DEF I
<1>4. Cardinality(both) = 2
  <2>1. Cardinality(I \cup {j}) = IF j \in I THEN Cardinality(I) ELSE Cardinality(I) + 1
    BY <1>3, FS_AddElement
  <2>2. QED BY <1>3, <2>1
<1> HIDE DEF both
<1>5. Cardinality(both) <= Cardinality(At(q, x))
  BY <1>1, <1>2, FS_Subset
<1>6. QED BY <1>1, <1>4, <1>5

\* Growing the vector refers to no more streams.
LEMMA RefsResize ==
  ASSUME NEW q \in Vector, NEW n \in Nat, n >= Len(q), NEW x, x # Empty
  PROVE  /\ resize(q, n) \in Vector /\ Len(resize(q, n)) = n
         /\ \A i \in 1 .. n : resize(q, n)[i] = IF i <= Len(q) THEN q[i] ELSE Empty
         /\ Refs(resize(q, n), x) = Refs(q, x)
<1>1. /\ resize(q, n) \in Vector /\ Len(resize(q, n)) = n
      /\ \A i \in 1 .. n : resize(q, n)[i] = IF i <= Len(q) THEN q[i] ELSE Empty
  BY DEF resize, Vector
<1> DEFINE t == resize(q, n)
<1>2. /\ DOMAIN t = 1 .. n /\ DOMAIN q = 1 .. Len(q) /\ Len(q) \in Nat
  BY <1>1 DEF Vector
<1> HIDE DEF t
<1>3. At(t, x) = At(q, x)
  BY <1>1, <1>2 DEF At, t
<1>4. QED BY <1>1, <1>3, RefsTyped DEF t

\* The sets of places of two disjoint sets of processes are disjoint.
LEMMA PlacesSplit ==
  ASSUME NEW P \in SUBSET Tid, NEW F, \A p \in P : F[p] \in Vector, NEW r \in P, NEW x
  PROVE  /\ IsFiniteSet(Places(P, F, x)) /\ IsFiniteSet(Places(P \ {r}, F, x))
         /\ Cardinality(Places(P, F, x)) \in Nat
         /\ Cardinality(Places(P \ {r}, F, x)) \in Nat
         /\ Cardinality(Places(P, F, x)) = Cardinality(Places(P \ {r}, F, x)) + Refs(F[r], x)
<1> DEFINE A == At(F[r], x)
           R == {<<r, i>> : i \in A}
           Rest == Places(P \ {r}, F, x)
<1>1. IsFiniteSet(A) /\ Refs(F[r], x) = Cardinality(A) /\ Refs(F[r], x) \in Nat
  BY RefsTyped
<1>2. IsFiniteSet(R) /\ Cardinality(R) = Cardinality(A)
  <2> DEFINE f == [i \in A |-> <<r, i>>]
  <2>1. f \in Bijection(A, R)
    BY DEF Bijection, Injection, Surjection, IsInjective
  <2>2. ExistsBijection(A, R)
    BY <2>1 DEF ExistsBijection
  <2> HIDE DEF A, R
  <2>3. QED BY <1>1, <2>2, FS_Bijection
<1>3. IsFiniteSet(Rest)
  <2>1. IsFiniteSet(P)
    <3>1. IsFiniteSet(Tid)
      BY BoundsAssumption, FS_Interval DEF Tid
    <3>2. QED BY <3>1, FS_Subset
  <2> DEFINE Q == P \ {r}
             H == {{<<p, i>> : i \in At(F[p], x)} : p \in Q}
             h == [p \in Q |-> {<<p, i>> : i \in At(F[p], x)}]
  <2>2. IsFiniteSet(Q)
    BY <2>1, FS_RemoveElement
  <2>3. h \in Surjection(Q, H)
    BY DEF Surjection
  <2>4. \A p \in Q : IsFiniteSet({<<p, i>> : i \in At(F[p], x)})
    <3> TAKE p \in Q
    <3> DEFINE B == At(F[p], x)
               T == {<<p, i>> : i \in B}
               g == [i \in B |-> <<p, i>>]
    <3>1. IsFiniteSet(B)
      BY RefsTyped
    <3>2. g \in Surjection(B, T)
      BY DEF Surjection
    <3> HIDE DEF B, T, g
    <3>3. IsFiniteSet(T)
      BY <3>1, <3>2, FS_Surjection
    <3>4. QED BY <3>3 DEF T, B
  <2>5. \A T \in H : IsFiniteSet(T)
    BY <2>4
  <2> HIDE DEF H, h, Q
  <2>6. IsFiniteSet(H)
    BY <2>2, <2>3, FS_Surjection
  <2>7. IsFiniteSet(UNION H)
    BY <2>5, <2>6, FS_UNION
  <2>8. QED BY <2>7 DEF H, Q, Places
<1>4. Places(P, F, x) = Rest \cup R
  BY DEF Places
<1>5. Rest \cap R = {}
  BY DEF Places
<1> HIDE DEF A, R, Rest
<1>6. /\ IsFiniteSet(Rest \cup R)
      /\ Cardinality(Rest \cup R) = Cardinality(Rest) + Cardinality(R) - Cardinality(Rest \cap R)
  BY <1>2, <1>3, FS_Union
<1>7. Cardinality(Rest \cap R) = 0 /\ Cardinality(Rest) \in Nat
  BY <1>3, <1>5, FS_EmptySet, FS_CardinalityType
<1>8. QED BY <1>1, <1>2, <1>3, <1>4, <1>6, <1>7 DEF Rest

LEMMA TotalIsPlaces == ASSUME NEW x PROVE TotalRefs(x) = Cardinality(Places(processes, fds, x))
BY DEF TotalRefs, Places, At

\* Agreeing on the processes is enough.
LEMMA PlacesAgree ==
  ASSUME NEW P, NEW F, NEW G, \A p \in P : F[p] = G[p], NEW x
  PROVE  Places(P, F, x) = Places(P, G, x)
<1>1. \A p \in P : {<<p, i>> : i \in At(F[p], x)} = {<<p, i>> : i \in At(G[p], x)}
  OBVIOUS
<1>2. QED BY <1>1 DEF Places

\* A stream is referred to by at least those of each process.
LEMMA TotalTyped ==
  ASSUME Typed, NEW x
  PROVE  /\ TotalRefs(x) \in Nat
         /\ \A p \in processes : Refs(fds[p], x) \in Nat /\ Refs(fds[p], x) <= TotalRefs(x)
<1>1. processes \subseteq Tid /\ \A p \in processes : fds[p] \in Vector
  BY DEF Typed
<1>2. ASSUME NEW p \in processes
      PROVE  /\ TotalRefs(x) \in Nat
             /\ Refs(fds[p], x) \in Nat /\ Refs(fds[p], x) <= TotalRefs(x)
  <2>1. Refs(fds[p], x) \in Nat
    BY <1>1, RefsTyped
  <2>2. /\ TotalRefs(x) \in Nat
        /\ Cardinality(Places(processes \ {p}, fds, x)) \in Nat
        /\ TotalRefs(x) = Cardinality(Places(processes \ {p}, fds, x)) + Refs(fds[p], x)
    BY <1>1, PlacesSplit, TotalIsPlaces
  <2>3. QED BY <2>1, <2>2
<1>3. CASE processes = {}
  <2>1. Places(processes, fds, x) = {}
    BY <1>3 DEF Places
  <2>2. QED BY <1>3, <2>1, TotalIsPlaces, FS_EmptySet
<1>4. QED BY <1>2, <1>3

LEMMA TotalSplit ==
  ASSUME Typed, NEW p \in processes, NEW x
  PROVE  /\ Cardinality(Places(processes \ {p}, fds, x)) \in Nat
         /\ TotalRefs(x) = Cardinality(Places(processes \ {p}, fds, x)) + Refs(fds[p], x)
<1>1. processes \in SUBSET Tid /\ \A r \in processes : fds[r] \in Vector
  BY DEF Typed
<1>2. \A r \in processes : fds[r] \in Vector
  BY <1>1
<1>3. processes \in SUBSET Tid
  BY <1>1
<1>4. /\ Cardinality(Places(processes \ {p}, fds, x)) \in Nat
      /\ Cardinality(Places(processes, fds, x))
           = Cardinality(Places(processes \ {p}, fds, x)) + Refs(fds[p], x)
  BY <1>2, <1>3, PlacesSplit
<1>5. QED BY <1>4, TotalIsPlaces

LEMMA OneChanges ==
  ASSUME Typed, NEW p \in processes, NEW q \in Vector,
         fds' = [fds EXCEPT ![p] = q], processes' = processes, NEW x
  PROVE  TotalRefs(x)' = TotalRefs(x) - Refs(fds[p], x) + Refs(q, x)
<1>1. /\ processes \in SUBSET Tid /\ \A r \in processes : fds[r] \in Vector
      /\ \A r \in processes : fds'[r] = IF r = p THEN q ELSE fds[r]
  BY DEF Typed
<1>2. \A r \in processes : fds'[r] \in Vector
  BY <1>1
<1>3. Places(processes \ {p}, fds, x) = Places(processes \ {p}, fds', x)
  <2>1. \A r \in processes \ {p} : fds[r] = fds'[r]
    BY <1>1
  <2>2. QED BY <2>1, PlacesAgree
<1>4. TotalRefs(x)' = Cardinality(Places(processes, fds', x))
  BY DEF TotalRefs, Places, At
<1> DEFINE c == Cardinality(Places(processes \ {p}, fds, x))
<1>5. c \in Nat /\ TotalRefs(x) = c + Refs(fds[p], x)
  BY TotalSplit
<1>6. TotalRefs(x)' = c + Refs(q, x)
  <2>1. fds'[p] = q
    BY <1>1
  <2>2. processes \in SUBSET Tid
    BY <1>1
  <2> HIDE DEF c
  <2>3. Cardinality(Places(processes, fds', x))
          = Cardinality(Places(processes \ {p}, fds', x)) + Refs(fds'[p], x)
    <3>1. PICK G : G = fds'
      OBVIOUS
    <3>2. \A r \in processes : G[r] \in Vector
      BY <1>2, <3>1
    <3>3. Cardinality(Places(processes, G, x))
            = Cardinality(Places(processes \ {p}, G, x)) + Refs(G[p], x)
      BY <2>2, <3>2, PlacesSplit
    <3>4. QED BY <3>1, <3>3
  <2>4. QED BY <1>3, <1>4, <2>1, <2>3 DEF c
<1>7. Refs(fds[p], x) \in Nat /\ Refs(q, x) \in Nat
  BY <1>1, RefsTyped
<1> HIDE DEF c
<1>8. QED BY <1>5, <1>6, <1>7

LEMMA ReapChanges ==
  ASSUME Typed, NEW p \in processes, NEW q,
         fds' = [fds EXCEPT ![p] = q], processes' = processes \ {p}, NEW x
  PROVE  TotalRefs(x)' = TotalRefs(x) - Refs(fds[p], x)
<1>1. /\ processes \in SUBSET Tid /\ \A r \in processes : fds[r] \in Vector
      /\ \A r \in processes \ {p} : fds[r] = fds'[r]
  BY DEF Typed
<1>2. Places(processes \ {p}, fds, x) = Places(processes \ {p}, fds', x)
  BY <1>1, PlacesAgree
<1>3. TotalRefs(x)' = Cardinality(Places(processes \ {p}, fds', x))
  BY DEF TotalRefs, Places, At
<1> DEFINE c == Cardinality(Places(processes \ {p}, fds, x))
<1>4. c \in Nat /\ TotalRefs(x) = c + Refs(fds[p], x)
  BY TotalSplit
<1>5. Refs(fds[p], x) \in Nat
  BY <1>1, RefsTyped
<1>6. TotalRefs(x)' = c
  BY <1>2, <1>3
<1> HIDE DEF c
<1>7. QED BY <1>4, <1>5, <1>6

LEMMA ForkChanges ==
  ASSUME Typed, NEW p \in processes, NEW r \in Tid, r \notin processes,
         fds' = [fds EXCEPT ![r] = fds[p]], processes' = processes \cup {r}, NEW x
  PROVE  TotalRefs(x)' = TotalRefs(x) + Refs(fds[p], x)
<1>1. PICK G, P : G = fds' /\ P = processes'
  OBVIOUS
<1>2. P \in SUBSET Tid /\ r \in P /\ P \ {r} = processes
  BY <1>1 DEF Typed
<1>3. \A t \in P : G[t] = IF t = r THEN fds[p] ELSE fds[t]
  BY <1>1, <1>2 DEF Typed
<1>4. \A t \in P : G[t] \in Vector
  BY <1>2, <1>3 DEF Typed
<1>5. Places(processes, fds, x) = Places(P \ {r}, G, x)
  <2>1. \A t \in processes : fds[t] = G[t]
    BY <1>2, <1>3
  <2>2. Places(processes, fds, x) = Places(processes, G, x)
    BY <2>1, PlacesAgree
  <2>3. QED BY <1>2, <2>2
<1>6. Cardinality(Places(P, G, x)) = Cardinality(Places(P \ {r}, G, x)) + Refs(G[r], x)
  BY <1>2, <1>4, PlacesSplit
<1>7. TotalRefs(x)' = Cardinality(Places(P, G, x))
  BY <1>1 DEF TotalRefs, Places, At
<1>8. G[r] = fds[p]
  BY <1>2, <1>3
<1>9. QED BY <1>5, <1>6, <1>7, <1>8, TotalIsPlaces

-----------------------------------------------------------------------------
(* The steps keep what is known of the descriptors.                          *)

LEMMA EndsTyped ==
  /\ \A k \in Pipe : /\ In(k) \in Stream /\ In(k)[1] = k /\ Out(k) \in Stream /\ Out(k)[1] = k
                     /\ In(k) # Out(k)
  /\ \A s \in Stream : s[1] \in Pipe /\ s \in {In(s[1]), Out(s[1])}
  /\ \A j, k \in Pipe : /\ In(j) = In(k) => j = k
                        /\ Out(j) = Out(k) => j = k
                        /\ In(j) # Out(k)
  /\ Empty \notin Stream /\ None \notin Stream
BY BoundsAssumption DEF In, Out, Stream, Pipe, Empty, None

\* A stream that is referred to is alive and has as many owners.
LEMMA OwnersCover ==
  ASSUME Typed, NoDanglingFd, power = "on", NEW s \in Stream
  PROVE  /\ TotalRefs(s) \in Nat /\ owners[s] \in Nat /\ TotalRefs(s) <= owners[s]
         /\ TotalRefs(s) > 0 => s \in streams
<1>1. TotalRefs(s) \in Nat /\ owners[s] \in Nat
  BY TotalTyped DEF Typed
<1>2. TotalRefs(s) > 0 => s \in streams /\ owners[s] >= TotalRefs(s)
  BY DEF NoDanglingFd
<1>3. QED BY <1>1, <1>2

LEMMA DropKeeps ==
  ASSUME Typed, FilesInv, power = "on", made' = made,
         NEW c \in [Stream -> Nat], NEW d \in [Stream -> Nat], Drop(c, d),
         \A s \in Stream : /\ c[s] <= TotalRefs(s)
                           /\ TotalRefs(s)' \in Nat
                           /\ TotalRefs(s)' <= TotalRefs(s) - c[s] + d[s]
                           /\ d[s] > 0 => s \in streams /\ s \notin drop(c)
  PROVE  /\ FilesInv' /\ PowerTyped'
         /\ owners' \in [Stream -> Nat] /\ streams' \in SUBSET Stream
         /\ eof' \in SUBSET Pipe /\ out' \in SUBSET Pipe /\ nbRef' \in [Pipe -> 0 .. 2]
<1> DEFINE D == drop(c)
<1>1. /\ owners \in [Stream -> Nat] /\ streams \in SUBSET Stream /\ made \in Nat
      /\ eof \in SUBSET Pipe /\ out \in SUBSET Pipe /\ nbRef \in [Pipe -> 0 .. 2]
      /\ Made /\ NoDanglingFd /\ EndsCounted
  BY DEF Typed, FilesInv
<1>2. CASE power' = "~Waitable" /\ UNCHANGED <<fdVars, eof, out, nbRef>>
  BY <1>1, <1>2 DEF FilesInv, Made, PowerTyped, fdVars
<1>3. CASE /\ owners' = [s \in Stream |-> owners[s] - c[s] + d[s]]
           /\ streams' = streams \ D
           /\ eof' = sendEof(D) /\ out' = clearOut(D) /\ nbRef' = decrRef(D)
           /\ UNCHANGED power
  <2>1. \A s \in Stream : /\ TotalRefs(s) \in Nat /\ owners[s] \in Nat /\ TotalRefs(s) <= owners[s]
                          /\ TotalRefs(s) > 0 => s \in streams
    BY <1>1, OwnersCover
  <2>2. \A s \in Stream : s \in D <=> c[s] > 0 /\ owners[s] = c[s]
    BY DEF drop
  <2>3. D \subseteq streams
    <3>1. D \subseteq Stream
      BY DEF drop
    <3>2. QED BY <2>1, <2>2, <3>1
  <2>4. owners' \in [Stream -> Nat]
    BY <1>3, <2>1
  <2>5. \A s \in Stream : TotalRefs(s)' > 0 => s \in streams \ D /\ owners'[s] >= TotalRefs(s)'
    <3> TAKE s \in Stream
    <3>1. owners'[s] = owners[s] - c[s] + d[s]
      BY <1>3
    <3>2. /\ TotalRefs(s) \in Nat /\ owners[s] \in Nat /\ TotalRefs(s) <= owners[s]
          /\ TotalRefs(s) > 0 => s \in streams
      BY <2>1
    <3>3. /\ c[s] \in Nat /\ d[s] \in Nat /\ c[s] <= TotalRefs(s)
          /\ TotalRefs(s)' \in Nat /\ TotalRefs(s)' <= TotalRefs(s) - c[s] + d[s]
          /\ d[s] > 0 => s \in streams /\ s \notin D
      OBVIOUS
    <3>4. s \in D <=> c[s] > 0 /\ owners[s] = c[s]
      BY <2>2
    <3> HIDE DEF D
    <3>5. QED BY <3>1, <3>2, <3>3, <3>4
  <2> HIDE DEF D
  <2>6. \A k \in Pipe : nbRef'[k] = nbRef[k] - Cardinality(D \cap {In(k), Out(k)})
    BY <1>3 DEF decrRef
  <2>7. \A k \in Pipe : /\ Cardinality(streams \cap {In(k), Out(k)}) \in Nat
                        /\ Cardinality(D \cap {In(k), Out(k)}) \in Nat
                        /\ Cardinality((streams \ D) \cap {In(k), Out(k)}) \in Nat
                        /\ Cardinality((streams \ D) \cap {In(k), Out(k)})
                            = Cardinality(streams \cap {In(k), Out(k)})
                                - Cardinality(D \cap {In(k), Out(k)})
    <3> TAKE k \in Pipe
    <3> DEFINE X == {In(k), Out(k)}
               S == streams \cap X
    <3>1. IsFiniteSet({In(k)}) /\ X = {In(k)} \cup {Out(k)}
      BY FS_Singleton
    <3>2. IsFiniteSet({In(k)} \cup {Out(k)})
      BY <3>1, FS_AddElement
    <3>3. IsFiniteSet(X)
      BY <3>1, <3>2
    <3> HIDE DEF X
    <3>4. IsFiniteSet(S) /\ IsFiniteSet(D \cap X) /\ IsFiniteSet((streams \ D) \cap X)
      BY <3>3, FS_Intersection
    <3>5. /\ Cardinality(S) \in Nat /\ Cardinality(D \cap X) \in Nat
          /\ Cardinality((streams \ D) \cap X) \in Nat
      BY <3>4, FS_CardinalityType
    <3>6. S \cap D = D \cap X /\ S \ D = (streams \ D) \cap X
      BY <2>3
    <3> HIDE DEF S
    <3>7. Cardinality(S \ D) = Cardinality(S) - Cardinality(S \cap D)
      BY <3>4, FS_Difference
    <3>8. QED BY <3>5, <3>6, <3>7 DEF S, X
  <2>8. nbRef' \in [Pipe -> 0 .. 2]
    <3>1. \A k \in Pipe : nbRef'[k] \in 0 .. 2
      <4> TAKE k \in Pipe
      <4>1. CASE k \in 1 .. made
        <5>1. nbRef[k] = Cardinality(streams \cap {In(k), Out(k)}) /\ nbRef[k] \in 0 .. 2
          BY <1>1, <4>1 DEF EndsCounted
        <5>2. PICK l, m, n : /\ l = Cardinality(streams \cap {In(k), Out(k)})
                             /\ m = Cardinality(D \cap {In(k), Out(k)})
                             /\ n = Cardinality((streams \ D) \cap {In(k), Out(k)})
          OBVIOUS
        <5>3. nbRef'[k] = nbRef[k] - m /\ m \in Nat /\ n \in Nat /\ l \in Nat /\ n = l - m
          BY <2>6, <2>7, <5>2
        <5>4. QED BY <5>1, <5>2, <5>3
      <4>2. CASE k \notin 1 .. made
        <5>1. In(k) \notin streams /\ Out(k) \notin streams
          BY <1>1, <4>2, EndsTyped DEF Made
        <5>2. D \cap {In(k), Out(k)} = {}
          BY <2>3, <5>1
        <5>3. nbRef'[k] = nbRef[k] - 0 /\ nbRef[k] \in 0 .. 2
          BY <1>1, <2>6, <5>2, FS_EmptySet
        <5>4. QED BY <5>3
      <4>3. QED BY <4>1, <4>2
    <3>2. QED BY <1>3, <3>1 DEF decrRef
  <2>9. Made'
    <3>1. D \subseteq streams /\ \A s \in streams : s[1] \in 1 .. made
      BY <1>1, <2>3 DEF Made
    <3>2. \A k \in Pipe : In(k) \in D => k \in 1 .. made
      BY <3>1, EndsTyped
    <3>3. QED BY <1>1, <1>3, <3>1, <3>2 DEF Made, sendEof, clearOut
  <2>10. EndsCounted'
    <3> SUFFICES ASSUME NEW k \in 1 .. made
                 PROVE  /\ k \in eof' <=> In(k) \notin streams'
                        /\ k \in out' <=> Out(k) \in streams'
                        /\ nbRef'[k] = Cardinality(streams' \cap {In(k), Out(k)})
      BY DEF EndsCounted
    <3>1. /\ k \in eof <=> In(k) \notin streams
          /\ k \in out <=> Out(k) \in streams
          /\ nbRef[k] = Cardinality(streams \cap {In(k), Out(k)})
      BY <1>1 DEF EndsCounted
    <3>2. k \in Pipe
      BY BoundsAssumption DEF Typed, Pipe
    <3>3. QED BY <1>3, <2>3, <2>6, <2>7, <3>1, <3>2 DEF sendEof, clearOut
  <2>11. NoDanglingFd'
    BY <1>3, <2>5 DEF NoDanglingFd, D
  <2>12. QED
    BY <1>1, <1>3, <2>4, <2>8, <2>9, <2>10, <2>11 DEF FilesInv, PowerTyped, sendEof, clearOut
<1>4. QED BY <1>2, <1>3 DEF Drop

\* The descriptors that a system call finds in the vector of its process.
LEMMA DescTyped ==
  ASSUME Typed, NEW t \in Tid, process[t] # NoProcess, NEW f \in Nat
  PROVE  /\ process[t] \in processes /\ process[t] \in Tid /\ fds[process[t]] \in Vector
         /\ Len(fds[process[t]]) \in 0 .. MaxFd
         /\ Desc(t, f) \in Stream \cup {Empty}
         /\ Desc(t, f) # Empty => /\ f + 1 \in DOMAIN fds[process[t]]
                                  /\ fds[process[t]][f + 1] = Desc(t, f)
                                  /\ Desc(t, f) \in Stream
                                  /\ Refs(fds[process[t]], Desc(t, f)) > 0
<1>1. /\ process[t] \in processes /\ process[t] \in Tid /\ fds[process[t]] \in Vector
      /\ Len(fds[process[t]]) <= MaxFd /\ MaxFd \in Nat
  BY BoundsAssumption DEF Typed
<1> DEFINE q == fds[process[t]]
<1>2. q \in Seq(Stream \cup {Empty}) /\ Len(q) \in Nat
  BY <1>1 DEF Vector
<1> HIDE DEF q
<1>3. f < Len(q) => f + 1 \in DOMAIN q /\ q[f + 1] \in Stream \cup {Empty}
  BY <1>2
<1>4. Desc(t, f) = IF f < Len(q) THEN q[f + 1] ELSE Empty
  BY DEF Desc, q
<1>5. \A i \in DOMAIN q : Refs(q, q[i]) > 0
  BY <1>2, RefsTyped DEF Vector
<1>6. QED BY <1>1, <1>2, <1>3, <1>4, <1>5 DEF q

\* A descriptor's stream is alive and has an owner.
LEMMA DescAlive ==
  ASSUME Typed, FilesInv, power = "on", NEW t \in Tid, process[t] # NoProcess, NEW f \in Nat,
         Desc(t, f) # Empty
  PROVE  /\ Desc(t, f) \in streams /\ TotalRefs(Desc(t, f)) >= 1 /\ TotalRefs(Desc(t, f)) \in Nat
         /\ owners[Desc(t, f)] >= TotalRefs(Desc(t, f)) /\ owners[Desc(t, f)] \in Nat
<1> DEFINE s == Desc(t, f)
<1>1. s \in Stream /\ process[t] \in processes /\ Refs(fds[process[t]], s) > 0
  BY DescTyped
<1>2. /\ TotalRefs(s) \in Nat /\ Refs(fds[process[t]], s) <= TotalRefs(s)
      /\ Refs(fds[process[t]], s) \in Nat
  BY <1>1, TotalTyped
<1>3. NoDanglingFd
  BY DEF FilesInv
<1> HIDE DEF s
<1>4. /\ TotalRefs(s) > 0 => s \in streams
      /\ TotalRefs(s) <= owners[s] /\ owners[s] \in Nat
  BY <1>1, <1>3, OwnersCover
<1>5. QED BY <1>1, <1>2, <1>4 DEF s

\* sysclose.
LEMMA CloseFiles ==
  ASSUME IInv, NEW t \in Tid, NEW f \in Nat, close(t, f)
  PROVE  /\ FilesInv' /\ PowerTyped'
         /\ owners' \in [Stream -> Nat] /\ streams' \in SUBSET Stream
         /\ eof' \in SUBSET Pipe /\ out' \in SUBSET Pipe /\ nbRef' \in [Pipe -> 0 .. 2]
         /\ fds' \in [Tid -> Vector]
<1> DEFINE p == process[t]
           x == Desc(t, f)
           q == [fds[p] EXCEPT ![f + 1] = Empty]
<1>1. /\ Typed /\ FilesInv /\ power = "on" /\ p # NoProcess /\ x # Empty
      /\ fds' = [fds EXCEPT ![p] = q] /\ processes' = processes /\ made' = made
      /\ Drop(One(x), Zero)
  <2>1. Typed /\ FilesInv
    BY DEF IInv
  <2>2. /\ power = "on" /\ p # NoProcess /\ x # Empty
        /\ fds' = [fds EXCEPT ![p][f + 1] = Empty] /\ processes' = processes /\ made' = made
        /\ Drop(One(x), Zero)
    BY DEF close, Running
  <2>3. fds' = [fds EXCEPT ![p] = q]
    BY <2>2
  <2>4. QED BY <2>1, <2>2, <2>3
<1>2. /\ p \in processes /\ p \in Tid /\ fds[p] \in Vector /\ f + 1 \in DOMAIN fds[p]
      /\ fds[p][f + 1] = x /\ x \in Stream
  BY <1>1, DescTyped
<1>3. q \in Vector
  BY <1>2 DEF Vector
<1>4. One(x) \in [Stream -> Nat] /\ Zero \in [Stream -> Nat]
  BY DEF One, Zero
<1>5. ASSUME NEW s \in Stream
      PROVE  /\ One(x)[s] <= TotalRefs(s)
             /\ TotalRefs(s)' \in Nat /\ TotalRefs(s)' <= TotalRefs(s) - One(x)[s] + Zero[s]
             /\ ~(Zero[s] > 0)
  <2>1. /\ TotalRefs(s) \in Nat /\ Refs(fds[p], s) \in Nat /\ Refs(fds[p], s) <= TotalRefs(s)
    BY <1>1, <1>2, TotalTyped
  <2>2. Refs(q, s) = Refs(fds[p], s) - (IF x = s THEN 1 ELSE 0) + (IF Empty = s THEN 1 ELSE 0)
    BY <1>2, RefsSet
  <2>3. Refs(q, s) \in Nat
    BY <1>3, RefsTyped
  <2>4. One(x)[s] = (IF x = s THEN 1 ELSE 0) /\ Zero[s] = 0 /\ s # Empty
    BY EndsTyped DEF One, Zero
  <2>5. TotalRefs(s)' = TotalRefs(s) - Refs(fds[p], s) + Refs(q, s)
    <3> HIDE DEF p, q
    <3>1. QED BY <1>1, <1>2, <1>3, OneChanges
  <2> HIDE DEF p, q, x
  <2>6. QED BY <2>1, <2>2, <2>3, <2>4, <2>5
<1>6. fds' \in [Tid -> Vector]
  BY <1>1, <1>2, <1>3 DEF Typed
<1> HIDE DEF x, p, q
<1>7. QED BY <1>1, <1>4, <1>5, <1>6, DropKeeps

\* sysdup2: the vector may grow, g is freed and f copied.
LEMMA Dup2Files ==
  ASSUME IInv, NEW t \in Tid, NEW f \in Nat, NEW g \in Nat, dup2(t, f, g)
  PROVE  /\ FilesInv' /\ PowerTyped'
         /\ owners' \in [Stream -> Nat] /\ streams' \in SUBSET Stream
         /\ eof' \in SUBSET Pipe /\ out' \in SUBSET Pipe /\ nbRef' \in [Pipe -> 0 .. 2]
         /\ fds' \in [Tid -> Vector]
<1> DEFINE p == process[t]
           n == IF g < Len(fds[p]) THEN Len(fds[p]) ELSE g + 1
           d == Desc(t, f)
           x == Desc(t, g)
           r == resize(fds[p], n)
           q == [r EXCEPT ![g + 1] = d]
           new == [s \in Stream |-> Leaked(p, n, s) + One(d)[s]]
<1>1. /\ Typed /\ FilesInv /\ power = "on" /\ p # NoProcess /\ f < Len(fds[p])
      /\ f = g /\ d # Empty => owners[d] > 1
      /\ fds' = [fds EXCEPT ![p] = q] /\ processes' = processes /\ made' = made
      /\ Drop(One(x), new)
  <2>1. Typed /\ FilesInv
    BY DEF IInv
  <2>2. /\ power = "on" /\ p # NoProcess /\ f < Len(fds[p])
        /\ f = g /\ d # Empty => owners[d] > 1
        /\ fds' = [fds EXCEPT ![p] = [resize(@, n) EXCEPT ![g + 1] = d]]
        /\ processes' = processes /\ made' = made /\ Drop(One(x), new)
    BY DEF dup2, Running
  <2>3. fds' = [fds EXCEPT ![p] = q]
    BY <2>2
  <2>4. QED BY <2>1, <2>2, <2>3
<1>2. /\ p \in processes /\ p \in Tid /\ fds[p] \in Vector /\ Len(fds[p]) \in Nat
      /\ x \in Stream \cup {Empty} /\ d \in Stream \cup {Empty}
      /\ x # Empty => g + 1 \in DOMAIN fds[p] /\ fds[p][g + 1] = x
      /\ d # Empty => f + 1 \in DOMAIN fds[p] /\ fds[p][f + 1] = d
  BY <1>1, DescTyped DEF Vector
<1>3. n \in Nat /\ n >= Len(fds[p]) /\ g + 1 \in 1 .. n
  BY <1>2
<1>4. (IF g + 1 <= Len(fds[p]) THEN fds[p][g + 1] ELSE Empty) = x
  BY <1>2 DEF Desc
<1>5. n > Len(fds[p]) => x = Empty
  BY <1>2 DEF Desc
<1> HIDE DEF p, n, d, x
<1>6. /\ r \in Vector /\ DOMAIN r = 1 .. n /\ r[g + 1] = x
      /\ \A s \in Stream : Refs(r, s) = Refs(fds[p], s)
  <2>1. \A s \in Stream : /\ r \in Vector /\ Len(r) = n
                          /\ \A i \in 1 .. n : r[i] = IF i <= Len(fds[p]) THEN fds[p][i] ELSE Empty
                          /\ Refs(r, s) = Refs(fds[p], s)
    <3> TAKE s \in Stream
    <3>1. s # Empty
      BY EndsTyped
    <3>2. QED BY <1>2, <1>3, <3>1, RefsResize
  <2>2. r \in Vector /\ r[g + 1] = x /\ Len(r) = n
    BY <1>2, <1>3, <1>4, RefsResize DEF resize, Vector
  <2> HIDE DEF r
  <2>3. DOMAIN r = 1 .. n
    BY <2>2 DEF Vector
  <2>4. QED BY <2>1, <2>2, <2>3
<1> HIDE DEF r
<1>7. q \in Vector
  BY <1>2, <1>3, <1>6 DEF Vector
<1>8. \A s \in Stream : /\ Leaked(p, n, s) \in Nat
                        /\ Leaked(p, n, s) > 0 => Refs(fds[p], s) > 0 /\ x = Empty
  <2> TAKE s \in Stream
  <2>1. Refs(fds[p], s) \in Nat
    BY <1>2, RefsTyped
  <2>2. Len(fds[p]) <= capacity[p] /\ capacity[p] \in Nat
    BY <1>1, <1>2 DEF Typed
  <2>3. Leaked(p, n, s) > 0 => n > capacity[p] /\ Refs(fds[p], s) > 0
    BY <2>1 DEF Leaked, Realloc
  <2>4. QED BY <1>2, <1>3, <1>5, <2>1, <2>2, <2>3 DEF Leaked
<1>9. One(x) \in [Stream -> Nat] /\ new \in [Stream -> Nat]
  BY <1>8 DEF One
<1>10. ASSUME NEW s \in Stream
       PROVE  /\ One(x)[s] <= TotalRefs(s)
              /\ TotalRefs(s)' \in Nat /\ TotalRefs(s)' <= TotalRefs(s) - One(x)[s] + new[s]
              /\ new[s] > 0 => s \in streams /\ s \notin drop(One(x))
  <2>1. /\ TotalRefs(s) \in Nat /\ Refs(fds[p], s) \in Nat /\ Refs(fds[p], s) <= TotalRefs(s)
    BY <1>1, <1>2, TotalTyped
  <2>2. Refs(q, s) = Refs(r, s) - (IF r[g + 1] = s THEN 1 ELSE 0) + (IF d = s THEN 1 ELSE 0)
    <3>1. PICK i : i = g + 1
      OBVIOUS
    <3>2. i \in DOMAIN r /\ r \in Vector /\ d \in Stream \cup {Empty}
      BY <1>2, <1>3, <1>6, <3>1
    <3>3. Refs([r EXCEPT ![i] = d], s)
            = Refs(r, s) - (IF r[i] = s THEN 1 ELSE 0) + (IF d = s THEN 1 ELSE 0)
      BY <3>2, RefsSet
    <3>4. QED BY <3>1, <3>3
  <2>3. Refs(q, s) \in Nat
    BY <1>7, RefsTyped
  <2>4. /\ One(x)[s] = (IF x = s THEN 1 ELSE 0) /\ One(d)[s] = (IF d = s THEN 1 ELSE 0)
        /\ new[s] = Leaked(p, n, s) + One(d)[s] /\ s # Empty
    BY EndsTyped DEF One
  <2>5. TotalRefs(s)' = TotalRefs(s) - Refs(fds[p], s) + Refs(q, s)
    <3> HIDE DEF q
    <3>1. QED BY <1>1, <1>2, <1>7, OneChanges
  <2>6. x = s => Refs(fds[p], s) >= 1
    <3>1. Refs(fds[p], s) > 0 <=> \E i \in DOMAIN fds[p] : fds[p][i] = s
      BY <1>2, RefsTyped
    <3>2. QED BY <1>2, <2>1, <2>4, <3>1
  <2>7. s \in drop(One(x)) => x = s /\ owners[s] = 1
    BY <2>4 DEF drop
  <2>8. FilesInv => NoDanglingFd
    BY <1>1 DEF FilesInv
  <2>9. /\ TotalRefs(s) > 0 => s \in streams
        /\ TotalRefs(s) <= owners[s] /\ owners[s] \in Nat
    BY <1>1, <2>8, OwnersCover
  <2>10. d = s => s \in streams /\ s \notin drop(One(x))
    <3> SUFFICES ASSUME d = s
                 PROVE  s \in streams /\ s \notin drop(One(x))
      OBVIOUS
    <3>1. f + 1 \in DOMAIN fds[p] /\ fds[p][f + 1] = s
      BY <1>2, <2>4
    <3>2. Refs(fds[p], s) > 0
      BY <1>2, <3>1, RefsTyped
    <3>3. f # g /\ x = s => Refs(fds[p], s) >= 2
      <4>1. x = s => g + 1 \in DOMAIN fds[p] /\ fds[p][g + 1] = s
        BY <1>2, <2>4
      <4>2. f # g => f + 1 # g + 1
        OBVIOUS
      <4>3. QED BY <1>2, <3>1, <4>1, <4>2, RefsTwo
    <3>4. f = g => owners[s] > 1
      BY <1>1, <2>4
    <3>5. QED BY <2>1, <2>7, <2>9, <3>2, <3>3, <3>4
  <2>11. /\ Leaked(p, n, s) \in Nat
         /\ Leaked(p, n, s) > 0 => Refs(fds[p], s) > 0 /\ x = Empty
    BY <1>8
  <2> HIDE DEF q, new
  <2>12. Refs(r, s) = Refs(fds[p], s) /\ r[g + 1] = x
    BY <1>6
  <2>13. One(x)[s] <= TotalRefs(s)
    BY <2>1, <2>4, <2>6
  <2>14. TotalRefs(s)' \in Nat /\ TotalRefs(s)' <= TotalRefs(s) - One(x)[s] + new[s]
    BY <2>1, <2>2, <2>3, <2>4, <2>5, <2>11, <2>12
  <2>15. new[s] > 0 => Leaked(p, n, s) > 0 \/ d = s
    BY <2>4, <2>11
  <2>16. Leaked(p, n, s) > 0 => s \in streams /\ s \notin drop(One(x))
    BY <2>1, <2>4, <2>7, <2>9, <2>11
  <2>17. QED BY <2>10, <2>13, <2>14, <2>15, <2>16
<1>11. fds' \in [Tid -> Vector]
  BY <1>1, <1>2, <1>7 DEF Typed
<1> HIDE DEF q, new
<1>12. QED BY <1>1, <1>9, <1>10, <1>11, DropKeeps

\* wait: the descriptors of a zombie.
LEMMA ReapFiles ==
  ASSUME IInv, NEW t \in Tid, reap(t)
  PROVE  /\ FilesInv' /\ PowerTyped'
         /\ owners' \in [Stream -> Nat] /\ streams' \in SUBSET Stream
         /\ eof' \in SUBSET Pipe /\ out' \in SUBSET Pipe /\ nbRef' \in [Pipe -> 0 .. 2]
         /\ fds' \in [Tid -> Vector]
<1>1. PICK z \in processes :
        /\ processes' = processes \ {z} /\ fds' = [fds EXCEPT ![z] = <<>>]
        /\ Drop([s \in Stream |-> Refs(fds[z], s)], Zero)
  BY DEF reap
<1> DEFINE c == [s \in Stream |-> Refs(fds[z], s)]
<1>2. Typed /\ FilesInv /\ power = "on" /\ made' = made
  BY DEF reap, Running, IInv
<1>3. c \in [Stream -> Nat] /\ Zero \in [Stream -> Nat]
  BY <1>2, TotalTyped DEF Zero
<1>4. ASSUME NEW s \in Stream
      PROVE  /\ c[s] <= TotalRefs(s)
             /\ TotalRefs(s)' \in Nat /\ TotalRefs(s)' <= TotalRefs(s) - c[s] + Zero[s]
             /\ ~(Zero[s] > 0)
  <2>1. TotalRefs(s) \in Nat /\ Refs(fds[z], s) \in Nat /\ Refs(fds[z], s) <= TotalRefs(s)
    BY <1>2, TotalTyped
  <2>2. TotalRefs(s)' = TotalRefs(s) - Refs(fds[z], s)
    BY <1>1, <1>2, ReapChanges
  <2>3. c[s] = Refs(fds[z], s) /\ Zero[s] = 0
    BY DEF Zero
  <2>4. QED BY <2>1, <2>2, <2>3
<1>5. fds' \in [Tid -> Vector]
  <2>1. <<>> \in Vector
    BY DEF Vector
  <2>2. QED BY <1>1, <1>2, <2>1 DEF Typed
<1>6. Drop(c, Zero)
  BY <1>1
<1> HIDE DEF c
<1>7. QED BY <1>2, <1>3, <1>4, <1>5, <1>6, DropKeeps

\* A call that frees nothing and counts the new descriptors.
LEMMA GrowKeeps ==
  ASSUME Typed, FilesInv, power = "on", UNCHANGED <<made, streams, eof, out, nbRef, power>>,
         NEW e \in [Stream -> Nat], owners' = [s \in Stream |-> owners[s] + e[s]],
         \A s \in Stream : /\ TotalRefs(s)' \in Nat /\ TotalRefs(s)' <= TotalRefs(s) + e[s]
                           /\ TotalRefs(s)' > 0 => TotalRefs(s) > 0
  PROVE  FilesInv' /\ owners' \in [Stream -> Nat]
<1>1. Made' /\ (EndsCounted => EndsCounted')
  BY DEF FilesInv, Made, EndsCounted
<1>2. NoDanglingFd /\ EndsCounted
  BY DEF FilesInv
<1>3. ASSUME NEW s \in Stream, TotalRefs(s)' > 0
      PROVE  s \in streams' /\ owners'[s] >= TotalRefs(s)'
  <2>1. /\ TotalRefs(s) \in Nat /\ owners[s] \in Nat /\ TotalRefs(s) <= owners[s]
        /\ TotalRefs(s) > 0 => s \in streams
    BY <1>2, OwnersCover
  <2>2. owners'[s] = owners[s] + e[s] /\ e[s] \in Nat
    OBVIOUS
  <2>3. QED BY <1>3, <2>1, <2>2
<1>4. NoDanglingFd'
  BY <1>3 DEF NoDanglingFd
<1>5. owners' \in [Stream -> Nat]
  BY DEF Typed
<1>6. QED BY <1>1, <1>2, <1>4, <1>5 DEF FilesInv

\* sysdup: a copy more, of a stream that was referred to.
LEMMA DupFiles ==
  ASSUME IInv, NEW t \in Tid, NEW f \in Nat, dup(t, f)
  PROVE  FilesInv' /\ owners' \in [Stream -> Nat] /\ fds' \in [Tid -> Vector]
<1> DEFINE p == process[t]
           n == Len(fds[p]) + 1
           d == Desc(t, f)
           q == Append(fds[p], d)
           e == [s \in Stream |-> Leaked(p, n, s) + One(d)[s]]
<1>1. /\ Typed /\ FilesInv /\ power = "on" /\ p # NoProcess
      /\ fds' = [fds EXCEPT ![p] = Append(@, d)] /\ processes' = processes
      /\ owners' = [s \in Stream |-> owners[s] + Leaked(p, n, s) + One(d)[s]]
      /\ UNCHANGED <<made, streams, eof, out, nbRef, power>>
  BY DEF dup, Running, IInv, pipeVars
<1>2. /\ p \in processes /\ p \in Tid /\ fds[p] \in Vector
      /\ d \in Stream \cup {Empty}
      /\ d # Empty => Refs(fds[p], d) > 0
  BY <1>1, DescTyped
<1>3. fds' = [fds EXCEPT ![p] = q]
  BY <1>1, <1>2 DEF Typed
<1> HIDE DEF p, d
<1>4. q \in Vector
  BY <1>2 DEF Vector
<1>5. ASSUME NEW s \in Stream
      PROVE  /\ Leaked(p, n, s) \in Nat /\ One(d)[s] \in Nat
             /\ TotalRefs(s)' \in Nat /\ TotalRefs(s)' <= TotalRefs(s) + e[s]
             /\ TotalRefs(s)' > 0 => TotalRefs(s) > 0
  <2>1. /\ TotalRefs(s) \in Nat /\ Refs(fds[p], s) \in Nat /\ Refs(fds[p], s) <= TotalRefs(s)
    BY <1>1, <1>2, TotalTyped
  <2>2. Refs(q, s) = Refs(fds[p], s) + (IF d = s THEN 1 ELSE 0)
    BY <1>2, RefsAppend
  <2>3. TotalRefs(s)' = TotalRefs(s) - Refs(fds[p], s) + Refs(q, s)
    <3> HIDE DEF q
    <3>1. QED BY <1>1, <1>2, <1>3, <1>4, OneChanges
  <2>4. Leaked(p, n, s) \in Nat
    BY <2>1 DEF Leaked
  <2>5. One(d)[s] = (IF d = s THEN 1 ELSE 0) /\ s # Empty
    BY EndsTyped DEF One
  <2>6. e[s] = Leaked(p, n, s) + One(d)[s]
    OBVIOUS
  <2>7. d = s => Refs(fds[p], s) > 0
    BY <1>2, <2>5
  <2> HIDE DEF q, e
  <2>8. QED BY <2>1, <2>2, <2>3, <2>4, <2>5, <2>6, <2>7
<1>6. e \in [Stream -> Nat] /\ owners' = [s \in Stream |-> owners[s] + e[s]]
  <2>1. \A s \in Stream : owners[s] \in Nat
    BY <1>1 DEF Typed
  <2>2. \A s \in Stream : owners[s] + Leaked(p, n, s) + One(d)[s] = owners[s] + e[s]
    BY <1>5, <2>1
  <2>3. QED BY <1>1, <1>5, <2>2
<1>7. fds' \in [Tid -> Vector]
  BY <1>1, <1>2, <1>3, <1>4 DEF Typed
<1> HIDE DEF e
<1>8. QED BY <1>1, <1>5, <1>6, <1>7, GrowKeeps

\* fork: all the descriptors once more.
LEMMA ForkFiles ==
  ASSUME IInv, NEW t \in Tid, fork(t)
  PROVE  FilesInv' /\ owners' \in [Stream -> Nat] /\ fds' \in [Tid -> Vector]
<1> DEFINE p == process[t]
           e == [s \in Stream |-> Refs(fds[p], s)]
<1>1. PICK z \in Tid : /\ Fresh(z) /\ processes' = processes \cup {z}
                       /\ fds' = [fds EXCEPT ![z] = fds[p]]
  BY DEF fork
<1>2. /\ Typed /\ FilesInv /\ power = "on" /\ p # NoProcess
      /\ owners' = [s \in Stream |-> owners[s] + Refs(fds[p], s)]
      /\ UNCHANGED <<made, streams, eof, out, nbRef, power>>
  BY DEF fork, Running, IInv, pipeVars
<1>3. p \in processes /\ p \in Tid /\ fds[p] \in Vector /\ z \notin processes
  BY <1>1, <1>2 DEF Typed, Fresh
<1> HIDE DEF p
<1>4. ASSUME NEW s \in Stream
      PROVE  /\ e[s] \in Nat /\ e[s] = Refs(fds[p], s)
             /\ TotalRefs(s)' \in Nat /\ TotalRefs(s)' <= TotalRefs(s) + e[s]
             /\ TotalRefs(s)' > 0 => TotalRefs(s) > 0
  <2>1. /\ TotalRefs(s) \in Nat /\ Refs(fds[p], s) \in Nat /\ Refs(fds[p], s) <= TotalRefs(s)
    BY <1>2, <1>3, TotalTyped
  <2>2. TotalRefs(s)' = TotalRefs(s) + Refs(fds[p], s)
    BY <1>1, <1>2, <1>3, ForkChanges
  <2>3. e[s] = Refs(fds[p], s)
    OBVIOUS
  <2>4. QED BY <2>1, <2>2, <2>3
<1>5. e \in [Stream -> Nat] /\ owners' = [s \in Stream |-> owners[s] + e[s]]
  BY <1>2, <1>4
<1>6. fds' \in [Tid -> Vector]
  BY <1>1, <1>2, <1>3 DEF Typed
<1> HIDE DEF e
<1>7. QED BY <1>2, <1>4, <1>5, <1>6, GrowKeeps

\* syspipe: the two ends of a pipe that nobody refers to yet.
LEMMA PipeFiles ==
  ASSUME IInv, NEW t \in Tid, pipe(t)
  PROVE  /\ FilesInv'
         /\ owners' \in [Stream -> Nat] /\ streams' \in SUBSET Stream
         /\ out' \in SUBSET Pipe /\ nbRef' \in [Pipe -> 0 .. 2]
         /\ made' \in 0 .. MaxPipe /\ fds' \in [Tid -> Vector]
<1> DEFINE p == process[t]
           k == made + 1
           m == IF Realloc(p, Len(fds[p]) + 1) THEN Len(fds[p]) + 1 ELSE Len(fds[p]) + 2
           one == Append(fds[p], Out(k))
           q == Append(one, In(k))
<1>1. /\ Typed /\ FilesInv /\ power = "on" /\ p # NoProcess /\ made < MaxPipe
      /\ fds' = [fds EXCEPT ![p] = @ \o <<Out(k), In(k)>>] /\ processes' = processes
      /\ owners' = [s \in Stream |-> IF s \in {In(k), Out(k)} THEN 1
                                     ELSE owners[s] + Leaked(p, m, s)]
      /\ streams' = streams \cup {In(k), Out(k)} /\ out' = out \cup {k}
      /\ nbRef' = [nbRef EXCEPT ![k] = 2] /\ made' = k
      /\ UNCHANGED <<eof, power>>
  BY DEF pipe, Running, IInv
<1>2. p \in processes /\ p \in Tid /\ fds[p] \in Vector
  BY <1>1 DEF Typed
<1>3. made \in Nat /\ made' \in 0 .. MaxPipe /\ k \in Pipe /\ k \notin 1 .. made
  BY <1>1, BoundsAssumption DEF Typed, Pipe
<1>4. In(k) \in Stream /\ Out(k) \in Stream /\ In(k) # Out(k) /\ In(k)[1] = k /\ Out(k)[1] = k
  BY <1>3, EndsTyped
<1>5. fds' = [fds EXCEPT ![p] = q]
  <2>1. fds[p] \o <<Out(k), In(k)>> = q
    <3>1. PICK x, y : x = Out(k) /\ y = In(k)
      OBVIOUS
    <3>2. x \in Stream \cup {Empty} /\ y \in Stream \cup {Empty}
      BY <1>4, <3>1
    <3>3. fds[p] \o <<x, y>> = Append(Append(fds[p], x), y)
      <4> DEFINE v == fds[p]
                 l == v \o <<x, y>>
                 r == Append(Append(v, x), y)
      <4>1. v \in Vector /\ Len(v) \in Nat
        BY <1>2 DEF Vector
      <4> HIDE DEF v
      <4>2. <<x, y>> \in Vector /\ Len(<<x, y>>) = 2
        BY <3>2 DEF Vector
      <4>3. /\ l \in Vector /\ Len(l) = Len(v) + 2
            /\ \A i \in 1 .. Len(v) : l[i] = v[i]
            /\ l[Len(v) + 1] = x /\ l[Len(v) + 2] = y
        BY <4>1, <4>2 DEF Vector
      <4>4. /\ r \in Vector /\ Len(r) = Len(v) + 2
            /\ \A i \in 1 .. Len(v) : r[i] = v[i]
            /\ r[Len(v) + 1] = x /\ r[Len(v) + 2] = y
        BY <3>2, <4>1 DEF Vector
      <4> HIDE DEF l, r
      <4>5. \A i \in 1 .. Len(v) + 2 : l[i] = r[i]
        BY <4>1, <4>3, <4>4
      <4>6. l = r
        BY <4>1, <4>3, <4>4, <4>5, SeqEqual DEF Vector
      <4>7. QED BY <4>6 DEF l, r, v
    <3>4. QED BY <3>1, <3>3
  <2>2. QED BY <1>1, <2>1
<1> HIDE DEF p, m
<1>6. /\ In(k) \notin streams /\ Out(k) \notin streams
      /\ \A j \in 1 .. made : /\ In(j) \notin {In(k), Out(k)} /\ Out(j) \notin {In(k), Out(k)}
                              /\ j \in Pipe /\ j # k
  <2>1. \A j \in 1 .. made : j \in Pipe /\ j # k
    <3>1. made \in Nat /\ MaxPipe \in Nat /\ made < MaxPipe
      BY <1>1, <1>3, BoundsAssumption
    <3>2. QED BY <3>1 DEF Pipe
  <2>2. \A s \in streams : s[1] \in 1 .. made
    BY <1>1 DEF FilesInv, Made
  <2>3. QED BY <1>3, <1>4, <2>1, <2>2, EndsTyped
<1>7. one \in Vector /\ q \in Vector
  BY <1>2, <1>4 DEF Vector
<1>8. ASSUME NEW s \in Stream
      PROVE  /\ TotalRefs(s)' \in Nat /\ Leaked(p, m, s) \in Nat
             /\ TotalRefs(s) \in Nat /\ TotalRefs(s) <= owners[s] /\ owners[s] \in Nat
             /\ TotalRefs(s) > 0 => s \in streams
             /\ s \in {In(k), Out(k)} => TotalRefs(s)' = 1
             /\ s \notin {In(k), Out(k)} => TotalRefs(s)' = TotalRefs(s)
  <2>1. TotalRefs(s) \in Nat /\ Refs(fds[p], s) \in Nat
    BY <1>1, <1>2, TotalTyped
  <2>2. Refs(one, s) = Refs(fds[p], s) + (IF Out(k) = s THEN 1 ELSE 0)
    BY <1>2, <1>4, RefsAppend
  <2>3. Refs(q, s) = Refs(one, s) + (IF In(k) = s THEN 1 ELSE 0)
    <3> HIDE DEF one
    <3>1. QED BY <1>4, <1>7, RefsAppend
  <2>4. TotalRefs(s)' = TotalRefs(s) - Refs(fds[p], s) + Refs(q, s)
    <3> HIDE DEF q
    <3>1. QED BY <1>1, <1>2, <1>5, <1>7, OneChanges
  <2>5. /\ TotalRefs(s) > 0 => s \in streams
        /\ TotalRefs(s) <= owners[s] /\ owners[s] \in Nat
    BY <1>1, OwnersCover DEF FilesInv
  <2>6. Leaked(p, m, s) \in Nat
    BY <2>1 DEF Leaked
  <2>7. s \in {In(k), Out(k)} => TotalRefs(s) = 0
    BY <1>6, <2>1, <2>5
  <2> HIDE DEF one, q
  <2>8. s \in {In(k), Out(k)} => TotalRefs(s)' = 1
    BY <1>4, <2>1, <2>2, <2>3, <2>4, <2>7
  <2>9. s \notin {In(k), Out(k)} => TotalRefs(s)' = TotalRefs(s)
    BY <2>1, <2>2, <2>3, <2>4
  <2>10. QED BY <2>1, <2>5, <2>6, <2>8, <2>9
<1> HIDE DEF q
<1>9. NoDanglingFd'
  <2>1. ASSUME NEW s \in Stream, TotalRefs(s)' > 0
        PROVE  s \in streams' /\ owners'[s] >= TotalRefs(s)'
    <3>1. owners'[s] = IF s \in {In(k), Out(k)} THEN 1 ELSE owners[s] + Leaked(p, m, s)
      BY <1>1
    <3>2. s \in streams' <=> s \in streams \/ s \in {In(k), Out(k)}
      BY <1>1
    <3>3. QED BY <1>8, <2>1, <3>1, <3>2
  <2>2. QED BY <2>1 DEF NoDanglingFd
<1>10. EndsCounted'
  <2> SUFFICES ASSUME NEW j \in 1 .. k
               PROVE  /\ j \in eof' <=> In(j) \notin streams'
                      /\ j \in out' <=> Out(j) \in streams'
                      /\ nbRef'[j] = Cardinality(streams' \cap {In(j), Out(j)})
    BY <1>1 DEF EndsCounted
  <2>1. CASE j \in 1 .. made
    <3>1. /\ j \in eof <=> In(j) \notin streams
          /\ j \in out <=> Out(j) \in streams
          /\ nbRef[j] = Cardinality(streams \cap {In(j), Out(j)})
      BY <1>1, <2>1 DEF FilesInv, EndsCounted
    <3>2. In(j) \notin {In(k), Out(k)} /\ Out(j) \notin {In(k), Out(k)} /\ j \in Pipe /\ j # k
      BY <1>6, <2>1
    <3>3. streams' \cap {In(j), Out(j)} = streams \cap {In(j), Out(j)}
      BY <1>1, <3>2
    <3>4. nbRef'[j] = nbRef[j]
      BY <1>1, <3>2 DEF Typed
    <3>5. QED BY <1>1, <3>1, <3>2, <3>3, <3>4
  <2>2. CASE j = k
    <3>1. k \notin eof
      BY <1>1, <1>3 DEF FilesInv, Made
    <3>2. streams' \cap {In(k), Out(k)} = {In(k)} \cup {Out(k)}
      BY <1>1
    <3>3. IsFiniteSet({In(k)}) /\ Cardinality({In(k)}) = 1 /\ Out(k) \notin {In(k)}
      BY <1>4, FS_Singleton
    <3>4. Cardinality({In(k)} \cup {Out(k)})
            = IF Out(k) \in {In(k)} THEN Cardinality({In(k)}) ELSE Cardinality({In(k)}) + 1
      BY <3>3, FS_AddElement
    <3>5. Cardinality(streams' \cap {In(k), Out(k)}) = 2
      BY <3>2, <3>3, <3>4
    <3>6. nbRef'[k] = 2
      BY <1>1, <1>3 DEF Typed
    <3>7. QED BY <1>1, <2>2, <3>1, <3>5, <3>6
  <2>3. QED BY <1>3, <2>1, <2>2
<1>11. Made'
  <2>1. 1 .. made' = (1 .. made) \cup {k}
    BY <1>1, <1>3
  <2>2. Made /\ eof' = eof /\ out' = out \cup {k} /\ streams' = streams \cup {In(k), Out(k)}
    BY <1>1 DEF FilesInv
  <2> HIDE DEF k
  <2>3. QED BY <1>4, <2>1, <2>2 DEF Made
<1>12. /\ owners' \in [Stream -> Nat]
  <2>1. \A s \in Stream : owners[s] + Leaked(p, m, s) \in Nat
    BY <1>8
  <2>2. QED BY <1>1, <2>1
<1>13. /\ streams' \in SUBSET Stream /\ out' \in SUBSET Pipe /\ nbRef' \in [Pipe -> 0 .. 2]
       /\ fds' \in [Tid -> Vector]
  <2>1. /\ streams \in SUBSET Stream /\ out \in SUBSET Pipe /\ nbRef \in [Pipe -> 0 .. 2]
        /\ fds \in [Tid -> Vector]
    BY <1>1 DEF Typed
  <2>2. 2 \in 0 .. 2
    OBVIOUS
  <2> HIDE DEF k
  <2>3. nbRef' \in [Pipe -> 0 .. 2]
    BY <1>1, <1>3, <2>1, <2>2
  <2>4. fds' \in [Tid -> Vector]
    BY <1>2, <1>5, <1>7, <2>1
  <2>5. streams' \in SUBSET Stream /\ out' \in SUBSET Pipe
    BY <1>1, <1>3, <1>4, <2>1
  <2>6. QED BY <2>3, <2>4, <2>5
<1>14. QED BY <1>3, <1>9, <1>10, <1>11, <1>12, <1>13 DEF FilesInv

-----------------------------------------------------------------------------
(* The capacity that a vector grows to.                                      *)

\* A set of naturals has a least element.
LEMMA Least ==
  ASSUME NEW T \in SUBSET Nat, T # {}
  PROVE  \E n \in T : \A m \in T : n <= m
<1> DEFINE Upto(n) == 0 .. n
           C == {Upto(n) : n \in T}
<1>1. IsWellFoundedOn(StrictSubsetOrdering(Nat), FiniteSubsetsOf(Nat))
  BY FS_StrictSubsetOrderingWellFounded
<1>2. \A n \in T : Upto(n) \in FiniteSubsetsOf(Nat)
  <2> TAKE n \in T
  <2>1. IsFiniteSet(0 .. n)
    BY FS_Interval
  <2>2. QED BY <2>1 DEF FiniteSubsetsOf
<1>3. \A n \in T, m \in T : m < n => <<Upto(m), Upto(n)>> \in StrictSubsetOrdering(Nat)
  <2> TAKE n \in T, m \in T
  <2>1. m < n => /\ Upto(m) \in SUBSET Nat /\ Upto(n) \in SUBSET Nat
                 /\ Upto(m) \subseteq Upto(n) /\ n \in Upto(n) /\ n \notin Upto(m)
    OBVIOUS
  <2> HIDE DEF Upto
  <2>2. QED BY <2>1 DEF StrictSubsetOrdering
<1> HIDE DEF Upto
<1>4. C # {} /\ C \subseteq FiniteSubsetsOf(Nat)
  BY <1>2
<1> HIDE DEF C
<1>5. \E x \in C : \A y \in C : ~(<<y, x>> \in StrictSubsetOrdering(Nat))
  BY <1>1, <1>4, WFMin
<1>6. PICK n \in T : \A m \in T : ~(<<Upto(m), Upto(n)>> \in StrictSubsetOrdering(Nat))
  BY <1>5 DEF C
<1>7. \A m \in T : ~(m < n)
  BY <1>3, <1>6
<1>8. QED BY <1>7

\* The powers of two: they double, and exceed their exponents.
LEMMA PowersDouble ==
  ASSUME NEW n \in Nat
  PROVE  /\ 2^n \in Nat /\ 2^(n + 1) = 2 * 2^n /\ n < 2^n /\ 2^1 = 2
<1> DEFINE I(m) == 1 .. m
<1>1. \A m \in Nat : /\ IsFiniteSet(I(m)) /\ Cardinality(I(m)) = m
                     /\ IsFiniteSet(SUBSET I(m)) /\ Cardinality(SUBSET I(m)) = 2^m
                     /\ 2^m \in Nat
  <2> TAKE m \in Nat
  <2>1. IsFiniteSet(1 .. m) /\ Cardinality(1 .. m) = m
    <3>1. /\ IsFiniteSet(1 .. m)
          /\ Cardinality(1 .. m) = IF 1 > m THEN 0 ELSE m - 1 + 1
      BY FS_Interval
    <3>2. QED BY <3>1
  <2>2. /\ IsFiniteSet(SUBSET I(m))
        /\ Cardinality(SUBSET I(m)) = 2^Cardinality(I(m))
    <3> HIDE DEF I
    <3>1. QED BY <2>1, FS_SUBSET DEF I
  <2>3. Cardinality(SUBSET I(m)) \in Nat
    BY <2>2, FS_CardinalityType
  <2>4. QED BY <2>1, <2>2, <2>3
<1>2. \A m \in Nat : 2^(m + 1) = 2 * 2^m
  <2> TAKE m \in Nat
  <2> DEFINE A == SUBSET I(m)
             x == m + 1
             B == {X \cup {x} : X \in A}
  <2>1. x \notin I(m) /\ I(m + 1) = I(m) \cup {x}
    OBVIOUS
  <2>2. /\ IsFiniteSet(A) /\ Cardinality(A) = 2^m /\ 2^m \in Nat
        /\ Cardinality(SUBSET I(m + 1)) = 2^(m + 1)
    <3>1. m + 1 \in Nat
      OBVIOUS
    <3> HIDE DEF I
    <3>2. QED BY <1>1, <3>1
  <2> HIDE DEF x, I
  <2>3. SUBSET (I(m) \cup {x}) = A \cup B
    <3>1. ASSUME NEW Y \in SUBSET (I(m) \cup {x}), Y \notin A
          PROVE  Y \in B
      <4>1. x \in Y /\ Y \ {x} \in A
        BY <3>1
      <4>2. Y = (Y \ {x}) \cup {x}
        BY <4>1
      <4>3. QED BY <4>1, <4>2
    <3>2. QED BY <3>1
  <2>4. A \cap B = {}
    BY <2>1
  <2>5. ExistsBijection(A, B)
    <3> DEFINE f == [X \in A |-> X \cup {x}]
    <3>1. f \in [A -> B] /\ \A Y \in B : \E X \in A : f[X] = Y
      OBVIOUS
    <3>2. \A X, Y \in A : f[X] = f[Y] => X = Y
      <4> TAKE X \in A, Y \in A
      <4>1. x \notin X /\ x \notin Y
        BY <2>1
      <4>2. f[X] = X \cup {x} /\ f[Y] = Y \cup {x}
        OBVIOUS
      <4>3. QED BY <4>1, <4>2
    <3> HIDE DEF f
    <3>3. QED
      BY <3>1, <3>2 DEF ExistsBijection, Bijection, Injection, Surjection, IsInjective
  <2> HIDE DEF A, B
  <2>6. IsFiniteSet(B) /\ Cardinality(B) = Cardinality(A)
    BY <2>2, <2>5, FS_Bijection
  <2>7. Cardinality(A \cup B) = Cardinality(A) + Cardinality(B) - Cardinality(A \cap B)
    BY <2>2, <2>6, FS_Union
  <2>8. Cardinality(A \cap B) = 0
    BY <2>4, FS_EmptySet
  <2>9. I(m + 1) = I(m) \cup {x}
    BY <2>1
  <2>10. 2^(m + 1) = Cardinality(A \cup B)
    BY <2>2, <2>3, <2>9
  <2>11. QED BY <2>2, <2>6, <2>7, <2>8, <2>10
<1>3. n < 2^n
  <2> DEFINE S == I(n)
             f == [x \in S |-> {x}]
  <2>1. f \in Injection(S, SUBSET S) /\ \A x \in S : f[x] # {}
    BY DEF Injection, IsInjective
  <2>2. f \notin Surjection(S, SUBSET S)
    BY <2>1 DEF Surjection
  <2>3. /\ Cardinality(S) = n /\ IsFiniteSet(SUBSET S) /\ Cardinality(SUBSET S) = 2^n
        /\ 2^n \in Nat
    BY <1>1
  <2> HIDE DEF S, f
  <2>4. /\ Cardinality(S) <= Cardinality(SUBSET S)
        /\ Cardinality(S) = Cardinality(SUBSET S) <=> f \in Surjection(S, SUBSET S)
    BY <2>1, <2>3, FS_Injection
  <2>5. QED BY <2>2, <2>3, <2>4
<1>4. 2^1 = 2
  <2>1. IsFiniteSet({}) /\ Cardinality({}) = 0
    BY FS_EmptySet
  <2>2. Cardinality(SUBSET {}) = 2^Cardinality({})
    BY <2>1, FS_SUBSET
  <2>3. SUBSET {} = {{}}
    OBVIOUS
  <2>4. Cardinality({{}}) = 1
    BY FS_Singleton
  <2>5. 2^0 = 1
    BY <2>1, <2>2, <2>3, <2>4
  <2>6. 2^(0 + 1) = 2 * 2^0
    BY <1>2
  <2>7. 0 + 1 = 1
    OBVIOUS
  <2>8. QED BY <2>5, <2>6, <2>7
<1>5. QED BY <1>1, <1>2, <1>3, <1>4

\* strategy(n) leaves room for one more than n.
LEMMA StrategyGrows ==
  ASSUME NEW n \in Nat
  PROVE  strategy(n) \in Nat /\ n + 1 < strategy(n)
<1> DEFINE T == {i \in 1 .. n + 1 : n + 1 < 2^i}
<1>1. \A i \in Nat : 2^i \in Nat /\ 2^(i + 1) = 2 * 2^i /\ i < 2^i /\ 2^1 = 2
  BY PowersDouble
<1>2. n + 1 \in T /\ T \in SUBSET Nat
  BY <1>1
<1>3. PICK i \in T : \A j \in T : i <= j
  BY <1>2, Least
<1>4. i \in 1 .. n + 1 /\ n + 1 < 2^i /\ 2^i \in Nat
  BY <1>1, <1>3
<1>5. 2^i <= 2 * (n + 1)
  <2>1. CASE i = 1
    BY <1>1, <2>1
  <2>2. CASE i # 1
    <3>1. i - 1 \in 1 .. n + 1 /\ i - 1 \notin T
      BY <1>3, <1>4, <2>2
    <3>2. 2^(i - 1) \in Nat /\ 2^(i - 1) <= n + 1
      BY <1>1, <3>1
    <3>3. 2^((i - 1) + 1) = 2 * 2^(i - 1)
      BY <1>1, <3>1
    <3>4. (i - 1) + 1 = i
      BY <1>4
    <3>5. 2^i = 2 * 2^(i - 1)
      BY <3>3, <3>4
    <3>6. QED BY <3>2, <3>5
  <2>3. QED BY <2>1, <2>2
<1>6. \E c \in {2^j : j \in 1 .. (n + 1)} : c <= 2 * (n + 1) /\ n + 1 < c
  BY <1>4, <1>5
<1>7. strategy(n) \in {2^j : j \in 1 .. (n + 1)} /\ n + 1 < strategy(n)
  BY <1>6 DEF strategy
<1>8. QED BY <1>1, <1>7

-----------------------------------------------------------------------------
(* Every step keeps the invariant, one part of it after the other.           *)

\* A step of thread t, with the arguments it may have.
Step(t, f, g, n) ==
  \/ pipe(t) \/ fork(t) \/ clone(t) \/ exit(t) \/ texit(t) \/ reap(t)
  \/ close(t, f) \/ dup(t, f) \/ dup2Self(t, f) \/ dup2(t, f, g)
  \/ readData(t, f, n) \/ readBlock(t, f, n) \/ write(t, f, n)
  \/ wakeData(t) \/ wakeEnd(t) \/ wakeRefuse(t)

LEMMA StepOn ==
  ASSUME NEW t \in Tid, NEW f \in Nat, NEW g \in Nat, NEW n \in Nat, Step(t, f, g, n)
  PROVE  power = "on" /\ process[t] # NoProcess
BY DEF Step, pipe, fork, clone, exit, texit, reap, close, dup, dup2Self, dup2, readData, readBlock,
       write, wakeData, wakeEnd, wakeRefuse, Running, Woken

\* What each step leaves alone.
LEMMA Frames ==
  ASSUME NEW t, NEW f, NEW g, NEW n
  PROVE  /\ pipe(t) =>
              UNCHANGED <<processes, process, deque, eof, written, taken, waiting, waited, waitings,
                   call, retargeted, power>>
         /\ fork(t) =>
              UNCHANGED <<streams, made, deque, eof, out, nbRef, written, taken, waiting, waited,
                   waitings, call, retargeted, power>>
         /\ clone(t) =>
              UNCHANGED <<processes, fds, capacity, owners, streams, made, deque, eof, out, nbRef,
                   written, taken, waiting, waited, waitings, call, retargeted, power>>
         /\ exit(t) =>
              UNCHANGED <<processes, fds, capacity, owners, streams, made, deque, eof, out, nbRef,
                   written, taken, waiting, waited, waitings, call, retargeted>>
         /\ texit(t) =>
              UNCHANGED <<processes, fds, capacity, owners, streams, made, deque, eof, out, nbRef,
                   written, taken, waiting, waited, waitings, call, retargeted, power>>
         /\ reap(t) =>
              UNCHANGED <<process, made, deque, written, taken, waiting, waited, waitings, call,
                   retargeted>>
         /\ close(t, f) =>
              UNCHANGED <<processes, process, capacity, made, deque, written, taken, waiting,
                   waited, waitings, call>>
         /\ dup(t, f) =>
              UNCHANGED <<processes, process, streams, made, deque, eof, out, nbRef, written, taken,
                   waiting, waited, waitings, call, retargeted, power>>
         /\ dup2Self(t, f) =>
              UNCHANGED <<processes, process, fds, capacity, owners, streams, made, deque, eof, out,
                   nbRef, written, taken, waiting, waited, waitings, call, retargeted>>
         /\ dup2(t, f, g) =>
              UNCHANGED <<processes, process, made, deque, written, taken, waiting, waited,
                   waitings, call>>
         /\ readData(t, f, n) =>
              UNCHANGED <<processes, process, fds, capacity, owners, streams, made, eof, out, nbRef,
                   written, waiting, waited, waitings, call, retargeted, power>>
         /\ readBlock(t, f, n) =>
              UNCHANGED <<processes, process, fds, capacity, owners, streams, made, deque, eof, out,
                   nbRef, written, taken, waited, retargeted, power>>
         /\ write(t, f, n) =>
              UNCHANGED <<processes, process, fds, capacity, owners, streams, made, eof, out, nbRef,
                   taken, waiting, call, retargeted, power>>
         /\ wakeData(t) =>
              UNCHANGED <<processes, process, fds, capacity, owners, streams, made, eof, out, nbRef,
                   written, waitings, power>>
         /\ wakeEnd(t) =>
              UNCHANGED <<processes, process, fds, capacity, owners, streams, made, deque, eof, out,
                   nbRef, written, taken, waitings, power>>
         /\ wakeRefuse(t) =>
              UNCHANGED <<processes, process, fds, capacity, owners, streams, made, deque, eof, out,
                   nbRef, written, taken, waiting, call, retargeted, power>>
<1>1. ASSUME pipe(t)
      PROVE  UNCHANGED <<processes, process, deque, eof, written, taken, waiting, waited, waitings,
                   call, retargeted, power>>
  BY <1>1 DEF pipe, waitVars
<1>2. ASSUME fork(t)
      PROVE  UNCHANGED <<streams, made, deque, eof, out, nbRef, written, taken, waiting, waited,
                   waitings, call, retargeted, power>>
  BY <1>2 DEF fork, pipeVars, waitVars
<1>3. ASSUME clone(t)
      PROVE  UNCHANGED <<processes, fds, capacity, owners, streams, made, deque, eof, out, nbRef,
                   written, taken, waiting, waited, waitings, call, retargeted, power>>
  BY <1>3 DEF clone, fdVars, pipeVars, waitVars
<1>4. ASSUME exit(t)
      PROVE  UNCHANGED <<processes, fds, capacity, owners, streams, made, deque, eof, out, nbRef,
                   written, taken, waiting, waited, waitings, call, retargeted>>
  BY <1>4 DEF exit, fdVars, pipeVars, waitVars
<1>5. ASSUME texit(t)
      PROVE  UNCHANGED <<processes, fds, capacity, owners, streams, made, deque, eof, out, nbRef,
                   written, taken, waiting, waited, waitings, call, retargeted, power>>
  BY <1>5 DEF texit, fdVars, pipeVars, waitVars
<1>6. ASSUME reap(t)
      PROVE  UNCHANGED <<process, made, deque, written, taken, waiting, waited, waitings, call,
                   retargeted>>
  BY <1>6 DEF reap, waitVars
<1>7. ASSUME close(t, f)
      PROVE  UNCHANGED <<processes, process, capacity, made, deque, written, taken, waiting,
                   waited, waitings, call>>
  BY <1>7 DEF close
<1>8. ASSUME dup(t, f)
      PROVE  UNCHANGED <<processes, process, streams, made, deque, eof, out, nbRef, written, taken,
                   waiting, waited, waitings, call, retargeted, power>>
  BY <1>8 DEF dup, pipeVars, waitVars
<1>9. ASSUME dup2Self(t, f)
      PROVE  UNCHANGED <<processes, process, fds, capacity, owners, streams, made, deque, eof, out,
                   nbRef, written, taken, waiting, waited, waitings, call, retargeted>>
  <2>1. UNCHANGED <<procVars, fdVars, pipeVars, waitVars>>
    BY <1>9, Zenon DEF dup2Self
  <2>2. QED BY <2>1 DEF procVars, fdVars, pipeVars, waitVars
<1>10. ASSUME dup2(t, f, g)
      PROVE  UNCHANGED <<processes, process, made, deque, written, taken, waiting, waited,
                   waitings, call>>
  BY <1>10 DEF dup2
<1>11. ASSUME readData(t, f, n)
      PROVE  UNCHANGED <<processes, process, fds, capacity, owners, streams, made, eof, out, nbRef,
                   written, waiting, waited, waitings, call, retargeted, power>>
  BY <1>11 DEF readData, procVars, fdVars, waitVars
<1>12. ASSUME readBlock(t, f, n)
      PROVE  UNCHANGED <<processes, process, fds, capacity, owners, streams, made, deque, eof, out,
                   nbRef, written, taken, waited, retargeted, power>>
  BY <1>12 DEF readBlock, procVars, fdVars, pipeVars
<1>13. ASSUME write(t, f, n)
      PROVE  UNCHANGED <<processes, process, fds, capacity, owners, streams, made, eof, out, nbRef,
                   taken, waiting, call, retargeted, power>>
  BY <1>13 DEF write, procVars, fdVars
<1>14. ASSUME wakeData(t)
      PROVE  UNCHANGED <<processes, process, fds, capacity, owners, streams, made, eof, out, nbRef,
                   written, waitings, power>>
  BY <1>14 DEF wakeData, procVars, fdVars
<1>15. ASSUME wakeEnd(t)
      PROVE  UNCHANGED <<processes, process, fds, capacity, owners, streams, made, deque, eof, out,
                   nbRef, written, taken, waitings, power>>
  BY <1>15 DEF wakeEnd, procVars, fdVars, pipeVars
<1>16. ASSUME wakeRefuse(t)
      PROVE  UNCHANGED <<processes, process, fds, capacity, owners, streams, made, deque, eof, out,
                   nbRef, written, taken, waiting, call, retargeted, power>>
  BY <1>16 DEF wakeRefuse, procVars, fdVars, pipeVars
<1>17. QED
  BY <1>1, <1>2, <1>3, <1>4, <1>5, <1>6, <1>7, <1>8, <1>9, <1>10, <1>11, <1>12, <1>13, <1>14, <1>15, <1>16

\* Processes and their threads.
LEMMA ProcessesKept ==
  ASSUME Typed, NEW t \in Tid, NEW f \in Nat, NEW g \in Nat, NEW n \in Nat, Step(t, f, g, n)
  PROVE  /\ processes' \in SUBSET Tid
         /\ process' \in [Tid -> Tid \cup {NoProcess}]
         /\ \A u \in Tid : process'[u] # NoProcess => process'[u] \in processes'
<1>1. /\ processes \in SUBSET Tid
      /\ process \in [Tid -> Tid \cup {NoProcess}]
      /\ \A u \in Tid : process[u] # NoProcess => process[u] \in processes
      /\ process[t] # NoProcess
  BY StepOn DEF Typed
<1>2. CASE fork(t)
  <2>1. PICK z \in Tid : processes' = processes \cup {z} /\ process' = [process EXCEPT ![z] = z]
    BY <1>2 DEF fork
  <2>2. QED BY <1>1, <2>1
<1>3. CASE clone(t)
  <2>1. PICK z \in Tid : process' = [process EXCEPT ![z] = process[t]] /\ processes' = processes
    BY <1>3 DEF clone
  <2>2. QED BY <1>1, <2>1
<1>4. CASE exit(t)
  BY <1>1, <1>4 DEF exit
<1>5. CASE texit(t)
  BY <1>1, <1>5 DEF texit
<1>6. CASE reap(t)
  <2>1. PICK z \in processes : Zombie(z) /\ processes' = processes \ {z} /\ process' = process
    BY <1>6 DEF reap
  <2>2. \A u \in Tid : process[u] # z
    BY <2>1 DEF Zombie, Siblings
  <2>3. QED BY <1>1, <2>1, <2>2
<1>7. CASE UNCHANGED <<processes, process>>
  BY <1>1, <1>7
<1>8. QED
  BY <1>2, <1>3, <1>4, <1>5, <1>6, <1>7, Frames DEF Step

\* The capacity after reserve.
LEMMA ReserveKeeps ==
  ASSUME Typed, NEW p \in Tid, NEW n \in Nat
  PROVE  /\ reserve(p, n) \in [Tid -> Nat]
         /\ reserve(p, n)[p] >= n
         /\ Realloc(p, n) => reserve(p, n)[p] >= n + 2
         /\ \A r \in Tid : r # p => reserve(p, n)[r] = capacity[r]
<1>1. capacity \in [Tid -> Nat] /\ strategy(n) \in Nat /\ strategy(n) >= n + 2
  <2>1. strategy(n) \in Nat /\ n + 1 < strategy(n)
    BY StrategyGrows
  <2>2. strategy(n) >= n + 2
    BY <2>1
  <2>3. QED BY <2>1, <2>2 DEF Typed
<1>2. CASE Realloc(p, n)
  BY <1>1, <1>2 DEF reserve
<1>3. CASE ~Realloc(p, n)
  BY <1>1, <1>3 DEF reserve, Realloc
<1>4. QED BY <1>2, <1>3

\* A system call of t that changes the vector of its process and reserves n.
LEMMA TableKept ==
  ASSUME Typed, NEW p \in processes, NEW q \in Vector, NEW n \in Nat,
         Len(q) <= n \/ (Realloc(p, n) /\ Len(q) <= n + 1), Len(q) <= MaxFd,
         fds' = [fds EXCEPT ![p] = q], capacity' = reserve(p, n), UNCHANGED processes
  PROVE  /\ \A r \in Tid : Len(fds'[r]) <= MaxFd
         /\ capacity' \in [Tid -> Nat]
         /\ \A r \in processes' : Len(fds'[r]) <= capacity'[r]
<1>1. /\ p \in Tid /\ processes \in SUBSET Tid /\ fds \in [Tid -> Vector]
      /\ \A r \in Tid : Len(fds[r]) <= MaxFd
      /\ \A r \in processes : Len(fds[r]) <= capacity[r]
  BY DEF Typed
<1>2. /\ capacity' \in [Tid -> Nat] /\ capacity'[p] >= n
      /\ Realloc(p, n) => capacity'[p] >= n + 2
      /\ \A r \in Tid : r # p => capacity'[r] = capacity[r]
  BY <1>1, ReserveKeeps
<1>3. \A r \in Tid : fds'[r] = IF r = p THEN q ELSE fds[r]
  BY <1>1
<1>4. Len(q) \in Nat
  BY DEF Vector
<1>5. capacity'[p] \in Nat
  BY <1>1, <1>2
<1>6. Len(q) <= capacity'[p]
  BY <1>2, <1>4, <1>5
<1>7. QED BY <1>1, <1>2, <1>3, <1>6

\* The vectors: _size and _capacity.
LEMMA TablesKept ==
  ASSUME IInv, NEW t \in Tid, NEW f \in Nat, NEW g \in Nat, NEW n \in Nat, Step(t, f, g, n)
  PROVE  /\ fds' \in [Tid -> Vector]
         /\ \A r \in Tid : Len(fds'[r]) <= MaxFd
         /\ capacity' \in [Tid -> Nat]
         /\ \A r \in processes' : Len(fds'[r]) <= capacity'[r]
<1> DEFINE p == process[t]
           v == fds[p]
<1>1. /\ Typed /\ p \in processes /\ p \in Tid /\ v \in Vector /\ Len(v) \in 0 .. MaxFd
      /\ MaxFd \in Nat /\ processes \in SUBSET Tid /\ fds \in [Tid -> Vector]
      /\ capacity \in [Tid -> Nat] /\ Len(v) <= capacity[p]
      /\ \A r \in Tid : Len(fds[r]) <= MaxFd
      /\ \A r \in processes : Len(fds[r]) <= capacity[r]
  BY StepOn, DescTyped, BoundsAssumption DEF IInv, Typed
<1>2. CASE pipe(t)
  <2> DEFINE m == IF Realloc(p, Len(v) + 1) THEN Len(v) + 1 ELSE Len(v) + 2
             q == v \o <<Out(made + 1), In(made + 1)>>
  <2>1. /\ fds' = [fds EXCEPT ![p] = @ \o <<Out(made + 1), In(made + 1)>>]
        /\ capacity' = reserve(p, m) /\ UNCHANGED processes /\ Len(v) + 2 <= MaxFd
    BY <1>2 DEF pipe
  <2>2. fds' = [fds EXCEPT ![p] = q] /\ fds' \in [Tid -> Vector]
    BY <1>2, <2>1, PipeFiles
  <2>3. q \in Vector
    BY <1>1, <2>2
  <2>4. Len(q) = Len(v) + 2
    <3>1. PICK x, y : x = Out(made + 1) /\ y = In(made + 1)
      OBVIOUS
    <3> HIDE DEF v
    <3>2. Len(v \o <<x, y>>) = Len(v) + 2
      BY <1>1 DEF Vector
    <3>3. QED BY <3>1, <3>2
  <2>5. m \in Nat /\ (Len(v) + 2 <= m \/ (Realloc(p, m) /\ Len(v) + 2 <= m + 1))
    BY <1>1
  <2> HIDE DEF p, v, m, q
  <2>6. QED BY <1>1, <2>1, <2>2, <2>3, <2>4, <2>5, TableKept
<1>3. CASE close(t, f)
  <2> DEFINE q == [v EXCEPT ![f + 1] = Empty]
  <2>1. fds' = [fds EXCEPT ![p] = q] /\ UNCHANGED <<processes, capacity>>
    BY <1>3 DEF close
  <2> HIDE DEF p, v
  <2>2. q \in Vector /\ Len(q) = Len(v)
    <3>1. f + 1 \in DOMAIN v
      BY <1>1, <1>3, StepOn, DescTyped DEF close, v, p
    <3>2. v \in Vector
      BY <1>1
    <3>3. q \in Vector
      BY <3>1, <3>2 DEF Vector
    <3>4. DOMAIN q = DOMAIN v
      OBVIOUS
    <3> HIDE DEF q
    <3>5. QED BY <3>2, <3>3, <3>4 DEF Vector
  <2> HIDE DEF q
  <2>3. QED BY <1>1, <2>1, <2>2 DEF v
<1>4. CASE dup(t, f)
  <2> DEFINE m == Len(v) + 1
             q == Append(v, Desc(t, f))
  <2>1. /\ fds' = [fds EXCEPT ![p] = q] /\ UNCHANGED processes
        /\ capacity' = reserve(p, m) /\ m <= MaxFd
    BY <1>4 DEF dup
  <2>2. Desc(t, f) \in Stream \cup {Empty}
    BY <1>1, StepOn, DescTyped
  <2>3. q \in Vector /\ Len(q) = m /\ m \in Nat
    BY <1>1, <2>2 DEF Vector
  <2> HIDE DEF p, v, m, q
  <2>4. fds' \in [Tid -> Vector]
    BY <1>1, <2>1, <2>3
  <2>5. Len(q) <= m /\ Len(q) <= MaxFd
    BY <2>1, <2>3
  <2>6. QED BY <1>1, <2>1, <2>3, <2>4, <2>5, TableKept
<1>5. CASE dup2(t, f, g)
  <2> DEFINE m == IF g < Len(v) THEN Len(v) ELSE g + 1
             r == resize(v, m)
             q == [r EXCEPT ![g + 1] = Desc(t, f)]
  <2>1. /\ fds' = [fds EXCEPT ![p] = [resize(@, m) EXCEPT ![g + 1] = Desc(t, f)]]
        /\ UNCHANGED processes
        /\ capacity' = reserve(p, m) /\ m <= MaxFd
    BY <1>5 DEF dup2
  <2>2. fds' = [fds EXCEPT ![p] = q] /\ fds' \in [Tid -> Vector]
    BY <1>5, <2>1, Dup2Files
  <2>3. q \in Vector
    BY <1>1, <2>2
  <2>4. m \in Nat
    BY <1>1
  <2>5. Len(q) = m
    BY <2>4 DEF resize
  <2> HIDE DEF p, v, m, q
  <2>6. Len(q) <= m /\ Len(q) <= MaxFd
    BY <2>1, <2>4, <2>5
  <2>7. QED BY <1>1, <2>1, <2>2, <2>3, <2>4, <2>6, TableKept
<1>6. CASE fork(t)
  <2>1. PICK z \in Tid : /\ processes' = processes \cup {z} /\ z \notin processes
                         /\ fds' = [fds EXCEPT ![z] = v]
                         /\ capacity' = [capacity EXCEPT ![z] = strategy(Len(v))]
    BY <1>6 DEF fork, Fresh
  <2> HIDE DEF p, v
  <2>2. Len(v) \in Nat /\ strategy(Len(v)) \in Nat /\ Len(v) + 1 < strategy(Len(v))
    <3>1. PICK l : l = Len(v)
      OBVIOUS
    <3>2. l \in Nat
      BY <1>1, <3>1
    <3>3. strategy(l) \in Nat /\ l + 1 < strategy(l)
      BY <3>2, StrategyGrows
    <3>4. QED BY <3>1, <3>2, <3>3
  <2>3. QED BY <1>1, <2>1, <2>2
<1>7. CASE reap(t)
  <2>1. PICK z \in processes : /\ processes' = processes \ {z} /\ fds' = [fds EXCEPT ![z] = <<>>]
                               /\ capacity' = [capacity EXCEPT ![z] = 0]
    BY <1>7 DEF reap
  <2>2. <<>> \in Vector /\ Len(<<>>) = 0
    BY DEF Vector
  <2>3. QED BY <1>1, <2>1, <2>2
<1>8. CASE UNCHANGED <<processes, fds, capacity>>
  BY <1>1, <1>8
<1>9. QED
  BY <1>2, <1>3, <1>4, <1>5, <1>6, <1>7, <1>8, Frames DEF Step

\* The descriptors, the streams and the ends of the pipes.
LEMMA FilesKept ==
  ASSUME IInv, NEW t \in Tid, NEW f \in Nat, NEW g \in Nat, NEW n \in Nat, Step(t, f, g, n)
  PROVE  /\ FilesInv' /\ PowerTyped'
         /\ owners' \in [Stream -> Nat] /\ streams' \in SUBSET Stream
         /\ made' \in 0 .. MaxPipe
         /\ eof' \in SUBSET Pipe /\ out' \in SUBSET Pipe /\ nbRef' \in [Pipe -> 0 .. 2]
<1>1. /\ FilesInv /\ power = "on" /\ owners \in [Stream -> Nat] /\ streams \in SUBSET Stream
      /\ made \in 0 .. MaxPipe /\ eof \in SUBSET Pipe /\ out \in SUBSET Pipe
      /\ nbRef \in [Pipe -> 0 .. 2]
  BY StepOn DEF IInv, Typed
<1>2. power' = "on" => PowerTyped'
  BY DEF PowerTyped
<1>3. CASE pipe(t)
  BY <1>1, <1>2, <1>3, PipeFiles, Frames
<1>4. CASE close(t, f)
  BY <1>1, <1>4, CloseFiles, Frames
<1>5. CASE dup(t, f)
  BY <1>1, <1>2, <1>5, DupFiles, Frames
<1>6. CASE dup2(t, f, g)
  BY <1>1, <1>6, Dup2Files, Frames
<1>7. CASE fork(t)
  BY <1>1, <1>2, <1>7, ForkFiles, Frames
<1>8. CASE reap(t)
  BY <1>1, <1>8, ReapFiles, Frames
<1>9. CASE UNCHANGED <<processes, fds, owners, streams, made, eof, out, nbRef>>
           /\ PowerTyped'
  <2>1. Made'
    BY <1>1, <1>9 DEF FilesInv, Made
  <2>2. \A s \in Stream : TotalRefs(s)' = TotalRefs(s)
    BY <1>9 DEF TotalRefs
  <2>3. NoDanglingFd /\ EndsCounted => NoDanglingFd' /\ EndsCounted'
    <3>1. EndsCounted => EndsCounted'
      BY <1>9 DEF EndsCounted
    <3>2. ASSUME NoDanglingFd
          PROVE  NoDanglingFd'
      <4>1. \A s \in Stream : TotalRefs(s) > 0 => s \in streams /\ owners[s] >= TotalRefs(s)
        BY <1>1, <3>2 DEF NoDanglingFd
      <4>2. QED BY <1>9, <2>2, <4>1 DEF NoDanglingFd
    <3>3. QED BY <3>1, <3>2
  <2>4. FilesInv'
    BY <1>1, <2>1, <2>3 DEF FilesInv
  <2>5. QED BY <1>1, <1>9, <2>4
<1>10. exit(t) => PowerTyped'
  <2>1. exit(t) => power' = "~Waiting" \/ power' = power
    BY Zenon DEF exit
  <2>2. power = power' => PowerTyped'
    BY <1>1, Zenon DEF PowerTyped
  <2>3. power' = "~Waiting" => PowerTyped'
    BY Zenon DEF PowerTyped
  <2>4. QED BY <2>1, <2>2, <2>3, Zenon
<1>11. dup2Self(t, f) => PowerTyped'
  <2>1. dup2Self(t, f) => power' = "use after free"
    BY Zenon DEF dup2Self
  <2>2. power' = "use after free" => PowerTyped'
    BY Zenon DEF PowerTyped
  <2>3. QED BY <2>1, <2>2, Zenon
<1>12. power' = power => PowerTyped'
  BY <1>1, <1>2
<1>13. QED
  BY <1>3, <1>4, <1>5, <1>6, <1>7, <1>8, <1>9, <1>10, <1>11, <1>12, Frames DEF Step

\* The bytes a + 1 to b.
Run(a, b) == [i \in 1 .. (b - a) |-> a + i]

LEMMA RunTyped ==
  ASSUME NEW a \in 0 .. MaxBytes, NEW b \in a .. MaxBytes
  PROVE  Run(a, b) \in Seq(1 .. MaxBytes) /\ Len(Run(a, b)) = b - a
<1>1. a \in Nat /\ b \in Nat /\ a <= b /\ b <= MaxBytes
  BY BoundsAssumption
<1>2. \A i \in 1 .. (b - a) : a + i \in 1 .. MaxBytes
  BY <1>1, BoundsAssumption
<1>3. b - a \in Nat
  BY <1>1
<1>4. QED BY <1>2, <1>3 DEF Run

\* Reading m bytes, and writing m.
LEMMA RunRead ==
  ASSUME NEW a \in 0 .. MaxBytes, NEW b \in a .. MaxBytes, NEW m \in 0 .. b - a
  PROVE  SubSeq(Run(a, b), m + 1, b - a) = Run(a + m, b)
<1> DEFINE s == Run(a, b)
           n == b - a
<1>1. /\ a \in Nat /\ b \in Nat /\ n \in Nat /\ m \in 0 .. n /\ b = a + n
      /\ a + m \in 0 .. MaxBytes /\ b \in (a + m) .. MaxBytes
  BY BoundsAssumption
<1>2. s \in Seq(1 .. MaxBytes) /\ Len(s) = n /\ \A i \in 1 .. n : s[i] = a + i
  BY RunTyped DEF Run
<1>3. /\ Run(a + m, b) \in Seq(1 .. MaxBytes) /\ Len(Run(a + m, b)) = b - (a + m)
      /\ \A i \in 1 .. b - (a + m) : Run(a + m, b)[i] = a + m + i
  BY <1>1, RunTyped DEF Run
<1> HIDE DEF s, n
<1>4. b - (a + m) = n - m
  BY <1>1
<1>5. /\ SubSeq(s, m + 1, n) \in Seq(1 .. MaxBytes) /\ Len(SubSeq(s, m + 1, n)) = n - m
      /\ \A i \in 1 .. n - m : SubSeq(s, m + 1, n)[i] = s[m + i]
  <2>1. /\ m + 1 \in 1 .. Len(s) + 1 /\ n \in m .. Len(s) /\ n - (m + 1) + 1 = n - m
        /\ \A i \in 1 .. n - m : (m + 1) + i - 1 = m + i
    BY <1>1, <1>2
  <2>2. PICK l : l = m + 1
    OBVIOUS
  <2>3. /\ l \in Int /\ n \in Int /\ (l <= n \/ n - l + 1 = 0)
        /\ \A i \in l .. n : s[i] \in 1 .. MaxBytes
    <3>1. l \in Int /\ n \in Int /\ (l <= n \/ n - l + 1 = 0) /\ \A i \in l .. n : i \in 1 .. n
      BY <1>1, <2>2
    <3>2. \A i \in 1 .. n : s[i] \in 1 .. MaxBytes
      <4>1. \A i \in 1 .. n : a + i \in 1 .. MaxBytes
        BY <1>1, BoundsAssumption
      <4>2. QED BY <1>2, <4>1
    <3>3. QED BY <3>1, <3>2
  <2>4. /\ SubSeq(s, l, n) \in Seq(1 .. MaxBytes)
        /\ Len(SubSeq(s, l, n)) = IF l <= n THEN n - l + 1 ELSE 0
        /\ \A i \in 1 .. n - l + 1 : SubSeq(s, l, n)[i] = s[l + i - 1]
    BY <2>3, SubSeqProperties
  <2>5. n - l + 1 = n - m /\ \A i \in 1 .. n - m : l + i - 1 = m + i
    BY <1>1, <2>2
  <2>6. QED BY <2>2, <2>3, <2>4, <2>5
<1> DEFINE x == SubSeq(s, m + 1, n)
           y == Run(a + m, b)
<1>6. \A i \in 1 .. n - m : s[m + i] = a + m + i
  BY <1>1, <1>2
<1>7. \A i \in 1 .. n - m : x[i] = y[i]
  BY <1>3, <1>4, <1>5, <1>6
<1>8. x = y
  <2>1. x \in Seq(1 .. MaxBytes) /\ y \in Seq(1 .. MaxBytes) /\ Len(x) = n - m /\ Len(y) = n - m
    BY <1>3, <1>4, <1>5
  <2> HIDE DEF x, y
  <2>2. QED BY <1>7, <2>1, SeqEqual
<1>9. QED BY <1>8 DEF s, n

LEMMA RunWrite ==
  ASSUME NEW a \in 0 .. MaxBytes, NEW b \in a .. MaxBytes, NEW m \in 0 .. MaxBytes - b
  PROVE  Run(a, b) \o [i \in 1 .. m |-> b + i] = Run(a, b + m)
<1> DEFINE s == Run(a, b)
           n == b - a
           z == [i \in 1 .. m |-> b + i]
           x == s \o z
           y == Run(a, b + m)
<1>1. /\ a \in Nat /\ b \in Nat /\ n \in Nat /\ m \in Nat /\ b = a + n
      /\ b + m \in a .. MaxBytes /\ (b + m) - a = n + m
  BY BoundsAssumption
<1>2. s \in Seq(1 .. MaxBytes) /\ Len(s) = n /\ \A i \in 1 .. n : s[i] = a + i
  BY RunTyped DEF Run
<1>3. z \in Seq(1 .. MaxBytes) /\ Len(z) = m /\ \A i \in 1 .. m : z[i] = b + i
  <2>1. \A i \in 1 .. m : b + i \in 1 .. MaxBytes
    BY <1>1, BoundsAssumption
  <2>2. QED BY <1>1, <2>1
<1>4. y \in Seq(1 .. MaxBytes) /\ Len(y) = n + m /\ \A i \in 1 .. n + m : y[i] = a + i
  <2>1. y \in Seq(1 .. MaxBytes) /\ Len(y) = (b + m) - a
    BY <1>1, RunTyped
  <2>2. \A i \in 1 .. (b + m) - a : y[i] = a + i
    BY DEF Run
  <2> HIDE DEF y, n
  <2>3. QED BY <1>1, <2>1, <2>2
<1> HIDE DEF s, n, z, y
<1>5. /\ x \in Seq(1 .. MaxBytes) /\ Len(x) = n + m
      /\ \A i \in 1 .. n + m : x[i] = IF i <= n THEN s[i] ELSE z[i - n]
  BY <1>1, <1>2, <1>3, ConcatProperties
<1> HIDE DEF x
<1>6. \A i \in 1 .. n + m : x[i] = y[i]
  <2> TAKE i \in 1 .. n + m
  <2>1. CASE i <= n
    BY <1>1, <1>2, <1>4, <1>5, <2>1
  <2>2. CASE i > n
    <3>1. i - n \in 1 .. m /\ b + (i - n) = a + i
      BY <1>1, <2>2
    <3>2. QED BY <1>1, <1>3, <1>4, <1>5, <2>2, <3>1
  <2>3. QED BY <1>1, <2>1, <2>2
<1>7. x = y
  BY <1>1, <1>4, <1>5, <1>6, SeqEqual
<1>8. QED BY <1>7 DEF x, y, s, z

LEMMA PopKeeps ==
  ASSUME Typed, Fifo, NEW k \in Pipe, NEW n \in Nat, pop(k, n), written' = written
  PROVE  /\ deque' \in [Pipe -> Seq(1 .. MaxBytes)] /\ taken' \in [Pipe -> 0 .. MaxBytes]
         /\ Fifo'
<1> DEFINE a == taken[k]
           b == written[k]
           m == IF n < Len(deque[k]) THEN n ELSE Len(deque[k])
<1>1. /\ taken \in [Pipe -> 0 .. MaxBytes] /\ written \in [Pipe -> 0 .. MaxBytes]
      /\ deque \in [Pipe -> Seq(1 .. MaxBytes)] /\ MaxBytes \in Nat
      /\ \A j \in Pipe : deque[j] = Run(taken[j], written[j]) /\ taken[j] <= written[j]
  BY BoundsAssumption DEF Typed, Fifo, PipeFifo, Run
<1>2. a \in 0 .. MaxBytes /\ b \in a .. MaxBytes
  BY <1>1
<1>3. deque[k] = Run(a, b)
  BY <1>1
<1>4. Len(deque[k]) = b - a
  BY <1>2, <1>3, RunTyped
<1>5. /\ deque' = [deque EXCEPT ![k] = SubSeq(@, m + 1, Len(@))]
      /\ taken' = [taken EXCEPT ![k] = @ + m]
  BY DEF pop
<1> HIDE DEF a, b
<1>6. m \in 0 .. b - a
  BY <1>2, <1>4
<1> HIDE DEF m
<1>7. deque'[k] = SubSeq(deque[k], m + 1, Len(deque[k])) /\ taken'[k] = a + m
  BY <1>1, <1>5 DEF a
<1>8. SubSeq(Run(a, b), m + 1, b - a) = Run(a + m, b)
  BY <1>2, <1>6, RunRead
<1>9. deque'[k] = Run(taken'[k], b)
  BY <1>3, <1>4, <1>7, <1>8
<1>10. taken'[k] \in 0 .. MaxBytes /\ b \in taken'[k] .. MaxBytes
  BY <1>1, <1>2, <1>6, <1>7
<1>11. deque'[k] \in Seq(1 .. MaxBytes)
  BY <1>9, <1>10, RunTyped
<1>12. \A j \in Pipe : j # k => deque'[j] = deque[j] /\ taken'[j] = taken[j]
  BY <1>1, <1>5
<1>13. deque' \in [Pipe -> Seq(1 .. MaxBytes)]
  BY <1>1, <1>5, <1>11, <1>12
<1>14. taken' \in [Pipe -> 0 .. MaxBytes]
  BY <1>1, <1>5, <1>10, <1>12
<1>15. \A j \in Pipe : deque'[j] = Run(taken'[j], written'[j]) /\ taken'[j] <= written'[j]
  <2> TAKE j \in Pipe
  <2>1. CASE j = k
    <3>1. written'[k] = b /\ taken'[k] <= b
      BY <1>1, <1>10 DEF b
    <3>2. QED BY <1>9, <2>1, <3>1
  <2>2. CASE j # k
    BY <1>1, <1>12, <2>2
  <2>3. QED BY <2>1, <2>2
<1>16. QED BY <1>13, <1>14, <1>15 DEF Fifo, PipeFifo, Run

LEMMA WriteKeeps ==
  ASSUME Typed, Fifo, NEW k \in Pipe, NEW n \in Nat, written[k] + n <= MaxBytes,
         deque' = [deque EXCEPT ![k] = @ \o [i \in 1 .. n |-> written[k] + i]],
         written' = [written EXCEPT ![k] = @ + n], taken' = taken
  PROVE  /\ deque' \in [Pipe -> Seq(1 .. MaxBytes)] /\ written' \in [Pipe -> 0 .. MaxBytes]
         /\ Fifo'
<1> DEFINE a == taken[k]
           b == written[k]
<1>1. /\ taken \in [Pipe -> 0 .. MaxBytes] /\ written \in [Pipe -> 0 .. MaxBytes]
      /\ deque \in [Pipe -> Seq(1 .. MaxBytes)] /\ MaxBytes \in Nat
      /\ \A j \in Pipe : deque[j] = Run(taken[j], written[j]) /\ taken[j] <= written[j]
  BY BoundsAssumption DEF Typed, Fifo, PipeFifo, Run
<1>2. a \in 0 .. MaxBytes /\ b \in a .. MaxBytes /\ n \in 0 .. MaxBytes - b
  BY <1>1
<1>3. deque[k] = Run(a, b)
  BY <1>1
<1>4. Run(a, b) \o [i \in 1 .. n |-> b + i] = Run(a, b + n)
  <2> HIDE DEF a, b
  <2>1. QED BY <1>2, RunWrite
<1>5. deque'[k] = Run(a, b + n) /\ written'[k] = b + n /\ taken'[k] = a
  BY <1>1, <1>3, <1>4
<1> HIDE DEF a, b
<1>6. b + n \in a .. MaxBytes /\ b + n \in 0 .. MaxBytes /\ a <= b + n
  BY <1>1, <1>2
<1>7. deque'[k] \in Seq(1 .. MaxBytes)
  BY <1>2, <1>5, <1>6, RunTyped
<1>8. \A j \in Pipe : j # k => deque'[j] = deque[j] /\ written'[j] = written[j]
  BY <1>1
<1>9. deque' \in [Pipe -> Seq(1 .. MaxBytes)] /\ written' \in [Pipe -> 0 .. MaxBytes]
  <2>1. \A j \in Pipe : deque'[j] \in Seq(1 .. MaxBytes) /\ written'[j] \in 0 .. MaxBytes
    BY <1>1, <1>5, <1>6, <1>7, <1>8
  <2>2. QED BY <1>1, <2>1
<1>10. \A j \in Pipe : deque'[j] = Run(taken'[j], written'[j]) /\ taken'[j] <= written'[j]
  <2> TAKE j \in Pipe
  <2>1. CASE j = k
    BY <1>5, <1>6, <2>1
  <2>2. CASE j # k
    BY <1>1, <1>8, <2>2
  <2>3. QED BY <2>1, <2>2
<1>11. QED BY <1>9, <1>10 DEF Fifo, PipeFifo, Run

\* The bytes.
LEMMA BytesKept ==
  ASSUME IInv, NEW t \in Tid, NEW f \in Nat, NEW g \in Nat, NEW n \in Nat, Step(t, f, g, n)
  PROVE  /\ deque' \in [Pipe -> Seq(1 .. MaxBytes)]
         /\ written' \in [Pipe -> 0 .. MaxBytes] /\ taken' \in [Pipe -> 0 .. MaxBytes]
         /\ Fifo'
<1>1. /\ Typed /\ Fifo /\ deque \in [Pipe -> Seq(1 .. MaxBytes)]
      /\ written \in [Pipe -> 0 .. MaxBytes] /\ taken \in [Pipe -> 0 .. MaxBytes]
      /\ call \in [Tid -> Nat \X Nat]
  BY DEF IInv, Typed
<1>2. ASSUME NEW d, Readable(d)
      PROVE  d[1] \in Pipe
  BY <1>2, EndsTyped DEF Readable
<1>3. CASE readData(t, f, n)
  <2>1. Readable(Desc(t, f)) /\ pop(Desc(t, f)[1], n) /\ written' = written
    BY <1>3 DEF readData
  <2>2. Desc(t, f)[1] \in Pipe
    BY <1>2, <2>1
  <2>3. QED BY <1>1, <2>1, <2>2, PopKeeps
<1>4. CASE wakeData(t)
  <2>1. Readable(ReadDesc(t)) /\ pop(ReadDesc(t)[1], ReadCount(t)) /\ written' = written
    BY <1>4 DEF wakeData
  <2>2. ReadDesc(t)[1] \in Pipe /\ ReadCount(t) \in Nat
    BY <1>1, <1>2, <2>1 DEF ReadCount
  <2>3. QED BY <1>1, <2>1, <2>2, PopKeeps
<1>5. CASE write(t, f, n)
  <2>1. PICK k \in Pipe :
          /\ written[k] + n <= MaxBytes
          /\ deque' = [deque EXCEPT ![k] = @ \o [i \in 1 .. n |-> written[k] + i]]
          /\ written' = [written EXCEPT ![k] = @ + n] /\ taken' = taken
    BY <1>5 DEF write
  <2>2. QED BY <1>1, <2>1, WriteKeeps
<1>6. CASE UNCHANGED <<deque, written, taken>>
  BY <1>1, <1>6 DEF Fifo, PipeFifo
<1>7. QED BY <1>3, <1>4, <1>5, <1>6, Frames DEF Step

\* The blocked threads and where they are registered.
LEMMA WaitsKept ==
  ASSUME IInv, NEW t \in Tid, NEW f \in Nat, NEW g \in Nat, NEW n \in Nat, Step(t, f, g, n)
  PROVE  /\ waiting' \in [Tid -> Stream \cup {None}]
         /\ waited' \in [Tid -> Stream \cup {None}]
         /\ waitings' \in [Stream -> SUBSET Tid]
         /\ call' \in [Tid -> Nat \X Nat]
         /\ retargeted' \in SUBSET Tid
         /\ Asleep'
<1>1. /\ waiting \in [Tid -> Stream \cup {None}] /\ waited \in [Tid -> Stream \cup {None}]
      /\ waitings \in [Stream -> SUBSET Tid] /\ call \in [Tid -> Nat \X Nat]
      /\ retargeted \in SUBSET Tid /\ process \in [Tid -> Tid \cup {NoProcess}]
      /\ \A u \in Tid : process[u] # NoProcess => process[u] \in processes
      /\ Typed /\ Asleep /\ process[t] # NoProcess
  BY StepOn DEF IInv, Typed
<1>2. None \notin Stream /\ \A k \in Pipe : Out(k) \in Stream /\ Out(k) # None
  BY EndsTyped
<1>3. \A u \in Tid :
        /\ waiting[u] # None => process[u] # NoProcess /\ waiting[u] \in {Out(k) : k \in Pipe}
        /\ waited[u] \in {None, waiting[u]}
        /\ \A s \in Stream : u \in waitings[s] <=> waiting[u] = s /\ waited[u] = None
  BY <1>1 DEF Asleep
<1>4. CASE UNCHANGED <<waiting, waited, waitings, call, retargeted>>
           /\ \A u \in Tid : waiting[u] # None => process'[u] # NoProcess
  BY <1>1, <1>3, <1>4 DEF Asleep
<1>5. CASE UNCHANGED <<waiting, waited, waitings, call, process>> /\ retargeted' \in SUBSET Tid
  BY <1>1, <1>5 DEF Asleep
<1>6. close(t, f) \/ dup2(t, f, g) => retargeted' \in SUBSET Tid
  BY <1>1 DEF close, dup2, Retarget
<1>7. fork(t) \/ clone(t) => \A u \in Tid : process[u] # NoProcess => process'[u] # NoProcess
  <2>1. ASSUME fork(t), NEW u \in Tid, process[u] # NoProcess
        PROVE  process'[u] # NoProcess
    <3>1. PICK z \in Tid : Fresh(z) /\ process' = [process EXCEPT ![z] = z]
      BY <2>1 DEF fork
    <3>2. QED BY <1>1, <2>1, <3>1 DEF Fresh
  <2>2. ASSUME clone(t), NEW u \in Tid, process[u] # NoProcess
        PROVE  process'[u] # NoProcess
    <3>1. PICK z \in Tid : Fresh(z) /\ process' = [process EXCEPT ![z] = process[t]]
      BY <2>2 DEF clone
    <3>2. QED BY <1>1, <2>2, <3>1 DEF Fresh
  <2>3. QED BY <2>1, <2>2
<1>8. exit(t) \/ texit(t) =>
        \A u \in Tid : waiting[u] # None => process'[u] = process[u]
  <2>1. exit(t) => \/ process' = process
                   \/ /\ \A u \in Siblings(process[t]) : ~Blocked(u)
                      /\ process' = [u \in Tid |-> IF process[u] = process[t] THEN NoProcess
                                                                            ELSE process[u]]
    BY Zenon DEF exit
  <2>2. texit(t) => ~Blocked(t) /\ process' = [process EXCEPT ![t] = NoProcess]
    BY DEF texit, Running
  <2>3. QED BY <1>1, <2>1, <2>2 DEF Siblings, Blocked
<1>9. CASE readBlock(t, f, n)
  <2> DEFINE d == Desc(t, f)
  <2>1. /\ waiting[t] = None /\ d \in {Out(k) : k \in Pipe}
        /\ waiting' = [waiting EXCEPT ![t] = d]
        /\ waitings' = [waitings EXCEPT ![d] = @ \cup {t}]
        /\ call' = [call EXCEPT ![t] = <<f, n>>]
        /\ UNCHANGED <<process, waited, retargeted>>
    BY <1>9, Frames DEF readBlock, Running, Blocked, Readable
  <2> HIDE DEF d
  <2>2. waited[t] = None /\ d \in Stream /\ d # None
    BY <1>2, <1>3, <2>1
  <2>3. \A u \in Tid :
          /\ waiting'[u] # None => process'[u] # NoProcess /\ waiting'[u] \in {Out(k) : k \in Pipe}
          /\ waited'[u] \in {None, waiting'[u]}
          /\ \A s \in Stream : u \in waitings'[s] <=> waiting'[u] = s /\ waited'[u] = None
    <3> TAKE u \in Tid
    <3>1. CASE u = t
      BY <1>1, <1>2, <1>3, <2>1, <2>2, <3>1
    <3>2. CASE u # t
      BY <1>1, <1>3, <2>1, <2>2, <3>2
    <3>3. QED BY <3>1, <3>2
  <2>4. Asleep'
    BY <2>3 DEF Asleep
  <2>5. <<f, n>> \in Nat \X Nat
    OBVIOUS
  <2>6. QED BY <1>1, <2>1, <2>2, <2>4, <2>5
<1>10. CASE write(t, f, n)
  <2>1. PICK k \in Pipe :
          /\ \/ freeReaders(k)
             \/ UNCHANGED <<waited, waitings>>
          /\ UNCHANGED <<process, waiting, call, retargeted>>
    BY <1>10, Frames DEF write
  <2>2. CASE freeReaders(k)
    <3>1. Out(k) \in Stream /\ Out(k) # None
      BY <1>2
    <3> DEFINE o == Out(k)
    <3>2. /\ waited' = [u \in Tid |-> IF u \in waitings[o] THEN o ELSE waited[u]]
          /\ waitings' = [waitings EXCEPT ![o] = {}]
      BY <2>2 DEF freeReaders
    <3> HIDE DEF o
    <3>3. \A u \in Tid :
            /\ waited'[u] \in {None, waiting[u]}
            /\ \A s \in Stream : u \in waitings'[s] <=> waiting[u] = s /\ waited'[u] = None
      <4> TAKE u \in Tid
      <4>1. CASE u \in waitings[o]
        <5>1. waiting[u] = o /\ waited'[u] = o
          BY <1>1, <1>3, <3>1, <3>2, <4>1 DEF o
        <5>2. \A s \in Stream : u \notin waitings'[s]
          BY <1>1, <1>3, <3>1, <3>2, <5>1 DEF o
        <5>3. QED BY <3>1, <5>1, <5>2 DEF o
      <4>2. CASE u \notin waitings[o]
        <5>1. waited'[u] = waited[u]
          BY <3>2, <4>2
        <5>2. \A s \in Stream : u \in waitings'[s] <=> u \in waitings[s]
          BY <1>1, <3>2, <4>2
        <5>3. QED BY <1>3, <5>1, <5>2
      <4>3. QED BY <4>1, <4>2
    <3>4. Asleep'
      BY <1>3, <2>1, <3>3 DEF Asleep
    <3>5. waited' \in [Tid -> Stream \cup {None}] /\ waitings' \in [Stream -> SUBSET Tid]
      BY <1>1, <3>1, <3>2 DEF o
    <3>6. QED BY <1>1, <2>1, <3>4, <3>5
  <2>3. CASE UNCHANGED <<waited, waitings>>
    BY <1>1, <2>1, <2>3 DEF Asleep
  <2>4. QED BY <2>1, <2>2, <2>3
<1>11. CASE wakeData(t) \/ wakeEnd(t)
  <2>1. /\ waited[t] # None /\ waiting' = [waiting EXCEPT ![t] = None]
        /\ waited' = [waited EXCEPT ![t] = None] /\ call' = [call EXCEPT ![t] = <<0, 0>>]
        /\ retargeted' = retargeted \ {t} /\ UNCHANGED <<process, waitings>>
    BY <1>11, Frames DEF wakeData, wakeEnd, Woken, Unblock
  <2>2. \A s \in Stream : t \notin waitings[s] /\ s # None
    BY <1>2, <1>3, <2>1
  <2>3. Asleep'
    <3>1. \A u \in Tid :
            /\ waiting'[u] # None => process'[u] # NoProcess /\ waiting'[u] \in {Out(k) : k \in Pipe}
            /\ waited'[u] \in {None, waiting'[u]}
            /\ \A s \in Stream : u \in waitings'[s] <=> waiting'[u] = s /\ waited'[u] = None
      <4> TAKE u \in Tid
      <4>1. CASE u = t
        BY <1>1, <2>1, <2>2, <4>1
      <4>2. CASE u # t
        BY <1>1, <1>3, <2>1, <4>2
      <4>3. QED BY <4>1, <4>2
    <3>2. QED BY <3>1 DEF Asleep
  <2>4. <<0, 0>> \in Nat \X Nat
    OBVIOUS
  <2>5. QED BY <1>1, <2>1, <2>3, <2>4
<1>12. CASE wakeRefuse(t)
  <2>1. /\ waited[t] # None /\ waited' = [waited EXCEPT ![t] = None]
        /\ waitings' = [waitings EXCEPT ![waiting[t]] = @ \cup {t}]
        /\ UNCHANGED <<process, waiting, call, retargeted>>
    BY <1>12, Frames DEF wakeRefuse, Woken, refuse
  <2>2. waiting[t] # None /\ waiting[t] \in Stream
    BY <1>2, <1>3, <2>1
  <2> DEFINE d == waiting[t]
  <2>3. Asleep'
    <3>1. \A u \in Tid :
            /\ waited'[u] \in {None, waiting[u]}
            /\ \A s \in Stream : u \in waitings'[s] <=> waiting[u] = s /\ waited'[u] = None
      <4> TAKE u \in Tid
      <4>1. CASE u = t
        <5>1. waited'[t] = None /\ \A s \in Stream : t \notin waitings[s]
          BY <1>1, <1>3, <2>1
        <5>2. \A s \in Stream : t \in waitings'[s] <=> s = waiting[t]
          BY <1>1, <2>1, <2>2, <5>1
        <5>3. QED BY <4>1, <5>1, <5>2
      <4>2. CASE u # t
        <5>1. waited'[u] = waited[u] /\ \A s \in Stream : u \in waitings'[s] <=> u \in waitings[s]
          BY <1>1, <2>1, <2>2, <4>2
        <5>2. QED BY <1>3, <5>1
      <4>3. QED BY <4>1, <4>2
    <3>2. QED BY <1>3, <2>1, <3>1 DEF Asleep
  <2>4. QED BY <1>1, <2>1, <2>2, <2>3
<1>13. QED
  BY <1>3, <1>4, <1>5, <1>6, <1>7, <1>8, <1>9, <1>10, <1>11, <1>12, Frames DEF Step

\* What the steps do to a thread that stays blocked, and whose descriptor is not
\* reassigned: the entry of its descriptor stays.
LEMMA EntryKept ==
  ASSUME IInv, NEW t \in Tid, NEW f \in Nat, NEW g \in Nat, NEW n \in Nat, Step(t, f, g, n),
         NEW u \in Tid, process[u] # NoProcess, NEW c \in Nat, c < Len(fds[process[u]]),
         process[u] = process[t] /\ close(t, f) => c # f,
         process[u] = process[t] /\ dup2(t, f, g) => c # g
  PROVE  /\ c < Len(fds'[process[u]])
         /\ fds'[process[u]][c + 1] = fds[process[u]][c + 1]
<1> DEFINE p == process[u]
           v == fds[p]
<1>1. /\ Typed /\ fds \in [Tid -> Vector] /\ p \in processes /\ p \in Tid /\ v \in Vector
      /\ process[t] # NoProcess /\ process[t] \in Tid /\ process[t] \in processes
      /\ processes \in SUBSET Tid
  BY StepOn, DescTyped DEF IInv, Typed
<1>2. fds' \in [Tid -> Vector]
  BY TablesKept
<1>3. Len(v) \in Nat /\ c + 1 \in 1 .. Len(v) /\ c < Len(v)
  <2>1. c < Len(v)
    OBVIOUS
  <2> HIDE DEF v
  <2>2. QED BY <1>1, <2>1 DEF Vector
<1>4. CASE fds'[p] = v
  BY <1>3, <1>4
<1>5. CASE p # process[t] /\ (pipe(t) \/ close(t, f) \/ dup(t, f) \/ dup2(t, f, g))
  <2>1. \E w : fds' = [fds EXCEPT ![process[t]] = w]
    BY <1>5 DEF pipe, close, dup, dup2
  <2>2. fds'[p] = v
    BY <1>1, <1>5, <2>1
  <2>3. QED BY <1>4, <2>2
<1>6. CASE fork(t)
  <2>1. PICK z \in Tid : Fresh(z) /\ fds' = [fds EXCEPT ![z] = fds[process[t]]]
    BY <1>6 DEF fork
  <2>2. fds'[p] = v
    BY <1>1, <2>1 DEF Fresh
  <2>3. QED BY <1>4, <2>2
<1>7. CASE reap(t)
  <2>1. PICK z \in processes : Zombie(z) /\ fds' = [fds EXCEPT ![z] = <<>>]
    BY <1>7 DEF reap
  <2>2. z # p
    BY <2>1 DEF Zombie, Siblings
  <2>3. fds'[p] = v
    BY <1>1, <2>1, <2>2
  <2>4. QED BY <1>4, <2>3
<1>8. CASE p = process[t] /\ pipe(t)
  <2>1. PICK x, y : fds' = [fds EXCEPT ![p] = v \o <<x, y>>]
    BY <1>8 DEF pipe
  <2>2. fds'[p] = v \o <<x, y>>
    BY <1>1, <2>1
  <2> HIDE DEF v
  <2>3. Len(v \o <<x, y>>) = Len(v) + 2 /\ (v \o <<x, y>>)[c + 1] = v[c + 1]
    <3>1. v \in Seq(Stream \cup {Empty, x, y}) /\ <<x, y>> \in Seq(Stream \cup {Empty, x, y})
      BY <1>1 DEF Vector
    <3>2. QED BY <1>3, <3>1
  <2>4. QED BY <1>3, <2>2, <2>3 DEF v
<1>9. CASE p = process[t] /\ dup(t, f)
  <2>1. fds' = [fds EXCEPT ![p] = Append(v, Desc(t, f))]
    BY <1>9 DEF dup
  <2>2. fds'[p] = Append(v, Desc(t, f))
    BY <1>1, <2>1
  <2>3. QED BY <1>1, <1>3, <2>2 DEF Vector
<1>10. CASE p = process[t] /\ close(t, f)
  <2>1. fds' = [fds EXCEPT ![p] = [v EXCEPT ![f + 1] = Empty]] /\ c # f
    BY <1>10 DEF close
  <2>2. fds'[p] = [v EXCEPT ![f + 1] = Empty]
    BY <1>1, <2>1
  <2>3. fds'[p] \in Vector /\ DOMAIN fds'[p] = DOMAIN v /\ fds'[p][c + 1] = v[c + 1]
    BY <1>1, <1>2, <1>3, <2>1, <2>2
  <2>4. Len(fds'[p]) = Len(v)
    BY <1>1, <2>3 DEF Vector
  <2>5. QED BY <1>3, <2>3, <2>4
<1>11. CASE p = process[t] /\ dup2(t, f, g)
  <2> DEFINE m == IF g < Len(v) THEN Len(v) ELSE g + 1
             r == resize(v, m)
  <2>1. fds' = [fds EXCEPT ![p] = [r EXCEPT ![g + 1] = Desc(t, f)]] /\ c # g
    BY <1>11 DEF dup2
  <2>2. fds'[p] = [r EXCEPT ![g + 1] = Desc(t, f)]
    BY <1>1, <2>1
  <2>3. m \in Nat /\ m >= Len(v)
    BY <1>3
  <2> HIDE DEF m, v
  <2>4. DOMAIN r = 1 .. m /\ r[c + 1] = v[c + 1]
    BY <1>3, <2>3 DEF resize
  <2>5. fds'[p] \in Vector /\ DOMAIN fds'[p] = 1 .. m /\ fds'[p][c + 1] = v[c + 1]
    BY <1>1, <1>2, <1>3, <2>1, <2>2, <2>4
  <2>6. Len(fds'[p]) = m
    BY <2>3, <2>5 DEF Vector
  <2>7. QED BY <1>3, <2>3, <2>5, <2>6 DEF v
<1>12. CASE UNCHANGED fds
  BY <1>4, <1>12
<1>13. QED
  BY <1>5, <1>6, <1>7, <1>8, <1>9, <1>10, <1>11, <1>12, Frames DEF Step

\* A thread that stays blocked and that is not a reader of the descriptor that is
\* reassigned still reads the same one.
LEMMA SleeperKept ==
  ASSUME IInv, NEW t \in Tid, NEW f \in Nat, NEW g \in Nat, NEW n \in Nat, Step(t, f, g, n),
         NEW u \in Tid, waiting[u] # None, waiting'[u] # None, u \notin retargeted'
  PROVE  /\ u \notin retargeted /\ waiting'[u] = waiting[u] /\ call'[u] = call[u]
         /\ ReadDesc(u) = waiting[u] /\ ReadDesc(u)' = waiting[u]
<1>1. /\ process \in [Tid -> Tid \cup {NoProcess}] /\ process[u] # NoProcess
      /\ waiting \in [Tid -> Stream \cup {None}] /\ call \in [Tid -> Nat \X Nat]
      /\ waiting[u] \in Stream /\ Aimed /\ Typed /\ process[t] # NoProcess
  <2>1. Typed /\ Asleep /\ Aimed
    BY DEF IInv
  <2>2. process[u] # NoProcess
    BY <2>1 DEF Asleep
  <2>3. process[t] # NoProcess
    BY StepOn
  <2>4. waiting[u] \in Stream
    BY <2>1 DEF Typed
  <2>5. QED BY <2>1, <2>2, <2>3, <2>4 DEF Typed
<1>2. CASE wakeData(t) \/ wakeEnd(t)
  <2>1. /\ waiting' = [waiting EXCEPT ![t] = None] /\ retargeted' = retargeted \ {t}
        /\ call' = [call EXCEPT ![t] = <<0, 0>>] /\ UNCHANGED <<process, fds>>
    BY <1>2, Frames DEF wakeData, wakeEnd, Unblock
  <2>2. u # t
    BY <1>1, <2>1
  <2>3. u \notin retargeted /\ waiting'[u] = waiting[u] /\ call'[u] = call[u]
    BY <1>1, <2>1, <2>2
  <2>4. QED BY <1>1, <2>1, <2>3 DEF Aimed, ReadDesc, Desc
<1>3. ~wakeData(t) /\ ~wakeEnd(t) =>
        u \notin retargeted /\ waiting'[u] = waiting[u] /\ call'[u] = call[u]
  <2>1. close(t, f) \/ dup2(t, f, g) => retargeted \subseteq retargeted'
    BY DEF close, dup2, Retarget
  <2>2. CASE UNCHANGED <<waiting, call>> /\ retargeted \subseteq retargeted'
    BY <2>2
  <2>3. CASE readBlock(t, f, n)
    <3>1. waiting[t] = None /\ \E d, e : /\ waiting' = [waiting EXCEPT ![t] = d]
                                         /\ call' = [call EXCEPT ![t] = e]
                                         /\ UNCHANGED retargeted
      BY <2>3, Frames DEF readBlock, Running, Blocked
    <3>2. QED BY <1>1, <3>1
  <2>4. QED BY <2>1, <2>2, <2>3, Frames DEF Step
<1>4. ~wakeData(t) /\ ~wakeEnd(t) => process'[u] = process[u]
  <2>1. ASSUME fork(t) \/ clone(t)
        PROVE  process'[u] = process[u]
    <3>1. PICK z \in Tid : Fresh(z) /\ \E w : process' = [process EXCEPT ![z] = w]
      BY <2>1 DEF fork, clone
    <3>2. QED BY <1>1, <3>1 DEF Fresh
  <2>2. exit(t) => \/ process' = process
                   \/ /\ \A w \in Siblings(process[t]) : ~Blocked(w)
                      /\ process' = [w \in Tid |-> IF process[w] = process[t] THEN NoProcess
                                                                            ELSE process[w]]
    BY Zenon DEF exit
  <2>3. texit(t) => ~Blocked(t) /\ process' = [process EXCEPT ![t] = NoProcess]
    BY DEF texit, Running
  <2>4. exit(t) \/ texit(t) => process'[u] = process[u]
    BY <1>1, <2>2, <2>3 DEF Siblings, Blocked
  <2>5. QED BY <2>1, <2>4, Frames DEF Step
<1>5. CASE ~wakeData(t) /\ ~wakeEnd(t)
  <2> DEFINE c == call[u][1]
             v == fds[process[u]]
  <2>1. c \in Nat /\ ReadDesc(u) = waiting[u] /\ ReadDesc(u) = Desc(u, c)
    BY <1>1, <1>3, <1>5 DEF Aimed, ReadDesc
  <2>2. c < Len(v) /\ waiting[u] = v[c + 1]
    BY <1>1, <2>1, EndsTyped DEF Desc
  <2>3. close(t, f) /\ process[u] = process[t] => c # f
    BY DEF close, Retarget, Blocked
  <2>4. dup2(t, f, g) /\ process[u] = process[t] => c # g
    BY DEF dup2, Retarget, Blocked
  <2>5. c < Len(fds'[process[u]]) /\ fds'[process[u]][c + 1] = v[c + 1]
    <3> HIDE DEF c
    <3>1. c \in Nat /\ c < Len(fds[process[u]]) /\ process[u] # NoProcess
      BY <1>1, <2>1, <2>2 DEF v
    <3>2. process[u] = process[t] /\ close(t, f) => c # f
      BY <2>3
    <3>3. process[u] = process[t] /\ dup2(t, f, g) => c # g
      BY <2>4
    <3>4. \A e \in Nat : /\ e < Len(fds[process[u]])
                         /\ process[u] = process[t] /\ close(t, f) => e # f
                         /\ process[u] = process[t] /\ dup2(t, f, g) => e # g
            => /\ e < Len(fds'[process[u]])
               /\ fds'[process[u]][e + 1] = fds[process[u]][e + 1]
      BY <3>1, EntryKept
    <3>5. QED BY <3>1, <3>2, <3>3, <3>4 DEF v
  <2>6. ReadDesc(u)' = IF c < Len(fds'[process[u]]) THEN fds'[process[u]][c + 1] ELSE Empty
    BY <1>3, <1>4, <1>5 DEF ReadDesc, Desc
  <2>7. QED BY <1>3, <1>5, <2>1, <2>2, <2>5, <2>6
<1>6. QED BY <1>2, <1>5

LEMMA AimedKept ==
  ASSUME IInv, NEW t \in Tid, NEW f \in Nat, NEW g \in Nat, NEW n \in Nat, Step(t, f, g, n)
  PROVE  Aimed'
<1> SUFFICES ASSUME NEW u \in Tid, u \notin retargeted', waiting'[u] # None
             PROVE  ReadDesc(u)' = waiting'[u]
  BY DEF Aimed
<1>1. CASE waiting[u] # None
  BY <1>1, SleeperKept
<1>2. CASE waiting[u] = None
  <2>1. waiting \in [Tid -> Stream \cup {None}] /\ call \in [Tid -> Nat \X Nat]
    BY DEF IInv, Typed
  <2>2. ~wakeData(t) /\ ~wakeEnd(t)
    BY <1>2, <2>1 DEF wakeData, wakeEnd, Unblock
  <2>3. readBlock(t, f, n)
    BY <1>2, <2>2, Frames DEF Step
  <2>4. /\ waiting' = [waiting EXCEPT ![t] = Desc(t, f)] /\ call' = [call EXCEPT ![t] = <<f, n>>]
        /\ UNCHANGED <<process, fds>>
    BY <2>3, Frames DEF readBlock
  <2>5. u = t /\ waiting'[u] = Desc(t, f) /\ call'[u][1] = f
    BY <1>2, <2>1, <2>4
  <2>6. ReadDesc(u)' = Desc(t, f)
    BY <2>4, <2>5 DEF ReadDesc, Desc
  <2>7. QED BY <2>5, <2>6
<1>3. QED BY <1>1, <1>2

\* The deque of a pipe from which nothing can be read stays empty until a write.
LEMMA EmptyKept ==
  ASSUME IInv, NEW t \in Tid, NEW f \in Nat, NEW g \in Nat, NEW n \in Nat, Step(t, f, g, n),
         NEW k \in Pipe, deque[k] = <<>>, ~(write(t, f, n) /\ Desc(t, f) = In(k))
  PROVE  deque'[k] = <<>>
<1>1. deque \in [Pipe -> Seq(1 .. MaxBytes)]
  BY DEF IInv, Typed
<1>2. CASE UNCHANGED deque
  BY <1>2
<1>3. ASSUME readData(t, f, n) \/ wakeData(t)
      PROVE  deque'[k] = <<>>
  <2>1. PICK j, m : deque[j] # <<>> /\ pop(j, m)
    BY <1>3 DEF readData, wakeData, HasData
  <2>2. j # k /\ \E w : deque' = [deque EXCEPT ![j] = w]
    BY <2>1 DEF pop
  <2>3. QED BY <1>1, <2>2
<1>4. ASSUME write(t, f, n)
      PROVE  deque'[k] = <<>>
  <2>1. PICK j \in Pipe : Desc(t, f) = In(j) /\ \E w : deque' = [deque EXCEPT ![j] = w]
    BY <1>4 DEF write
  <2>2. j # k
    BY <1>4, <2>1
  <2>3. QED BY <1>1, <2>1, <2>2
<1>5. QED BY <1>2, <1>3, <1>4, Frames DEF Step

\* A write to the pipe that a thread waits for wakes it.
LEMMA WriteWakes ==
  ASSUME IInv, NEW t \in Tid, NEW f \in Nat, NEW n \in Nat, write(t, f, n),
         NEW u \in Tid \ retargeted, NEW k \in Pipe, waiting[u] = Out(k), waited[u] = None,
         Desc(t, f) = In(k)
  PROVE  waited'[u] # None
<1>1. /\ Typed /\ FilesInv /\ Asleep /\ Aimed /\ power = "on"
  BY DEF IInv, write, Running
<1>2. /\ Out(k) \in Stream /\ Out(k) # None /\ Out(k) # Empty /\ Out(k)[1] = k
  BY EndsTyped
<1>3. process[u] # NoProcess /\ u \in waitings[Out(k)] /\ ReadDesc(u) = Out(k)
  BY <1>1, <1>2 DEF Asleep, Aimed
<1>4. call[u][1] \in Nat
  BY <1>1 DEF Typed
<1>5. Out(k) \in streams
  <2>1. PICK c \in Nat : c = call[u][1]
    BY <1>4
  <2>2. Desc(u, c) = Out(k)
    BY <1>3, <2>1 DEF ReadDesc
  <2>3. QED BY <1>1, <1>2, <1>3, <2>2, DescAlive
<1>6. k \in out
  <2>1. k \in 1 .. made
    BY <1>1, <1>2, <1>5 DEF FilesInv, Made
  <2>2. QED BY <1>1, <1>5, <2>1 DEF FilesInv, EndsCounted
<1>7. freeReaders(k)
  <2>1. PICK j \in Pipe : Desc(t, f) = In(j) /\ (freeReaders(j) \/ j \notin out)
    BY DEF write
  <2>2. j = k
    BY <2>1, EndsTyped
  <2>3. QED BY <1>6, <2>1, <2>2
<1>8. QED BY <1>2, <1>3, <1>7 DEF freeReaders

LEMMA NoMissedWriteKept ==
  ASSUME IInv, NEW t \in Tid, NEW f \in Nat, NEW g \in Nat, NEW n \in Nat, Step(t, f, g, n)
  PROVE  NoMissedWrite'
<1> SUFFICES ASSUME NEW u \in Tid, u \notin retargeted', waiting'[u] # None, waited'[u] = None
             PROVE  ReadDesc(u)' = waiting'[u] /\ ~HasData(ReadDesc(u), ReadCount(u))'
  BY DEF NoMissedWrite, Blocked
<1>1. /\ Typed /\ Asleep /\ Aimed /\ NoMissedWrite /\ power = "on"
      /\ waiting \in [Tid -> Stream \cup {None}] /\ waited \in [Tid -> Stream \cup {None}]
      /\ call \in [Tid -> Nat \X Nat]
  BY StepOn DEF IInv, Typed
<1>2. ReadDesc(u)' = waiting'[u]
  BY AimedKept DEF Aimed
<1>3. SUFFICES call'[u][2] > 0 => deque'[waiting'[u][1]] = <<>>
  BY <1>2 DEF HasData, ReadCount
<1>4. CASE waiting[u] # None
  <2>1. u \notin retargeted /\ waiting'[u] = waiting[u] /\ call'[u] = call[u] /\ ReadDesc(u) = waiting[u]
    BY <1>4, SleeperKept
  <2>2. PICK k \in Pipe : waiting[u] = Out(k)
    BY <1>1, <1>4 DEF Asleep
  <2>3. Out(k)[1] = k
    BY EndsTyped
  <2>4. CASE waited[u] = None
    <3>1. call[u][2] > 0 => deque[k] = <<>>
      BY <1>1, <1>4, <2>1, <2>2, <2>3, <2>4 DEF NoMissedWrite, Blocked, HasData, ReadCount
    <3>2. ~(write(t, f, n) /\ Desc(t, f) = In(k))
      BY <2>1, <2>2, <2>4, WriteWakes
    <3>3. call[u][2] > 0 => deque'[k] = <<>>
      BY <3>1, <3>2, EmptyKept
    <3>4. QED BY <2>1, <2>2, <2>3, <3>3
  <2>5. CASE waited[u] # None
    <3>1. wakeRefuse(t) \/ wakeData(t) \/ wakeEnd(t) \/ write(t, f, n)
      BY <2>5, Frames DEF Step
    <3>2. ~write(t, f, n)
      BY <2>5, <1>1, EndsTyped DEF write, freeReaders
    <3>3. u = t
      <4>1. \E w : waited' = [waited EXCEPT ![t] = w]
        BY <3>1, <3>2 DEF wakeRefuse, wakeData, wakeEnd, Unblock, refuse
      <4>2. QED BY <1>1, <2>5, <4>1
    <3>4. ~wakeData(t) /\ ~wakeEnd(t)
      BY <1>1, <3>3 DEF wakeData, wakeEnd, Unblock
    <3>5. wakeRefuse(t) /\ UNCHANGED deque
      BY <3>1, <3>2, <3>4, Frames
    <3>6. ~HasData(ReadDesc(u), ReadCount(u))
      BY <3>3, <3>5 DEF wakeRefuse
    <3>7. QED BY <2>1, <2>2, <2>3, <3>5, <3>6 DEF HasData, ReadCount
  <2>6. QED BY <2>4, <2>5
<1>5. CASE waiting[u] = None
  <2>1. ~wakeData(t) /\ ~wakeEnd(t)
    BY <1>1, <1>5 DEF wakeData, wakeEnd, Unblock
  <2>2. readBlock(t, f, n)
    BY <1>5, <2>1, Frames DEF Step
  <2>3. /\ waiting' = [waiting EXCEPT ![t] = Desc(t, f)] /\ call' = [call EXCEPT ![t] = <<f, n>>]
        /\ ~HasData(Desc(t, f), n) /\ UNCHANGED deque
    BY <2>2, Frames DEF readBlock
  <2>4. u = t /\ waiting'[u] = Desc(t, f) /\ call'[u][2] = n
    BY <1>1, <1>5, <2>3
  <2>5. QED BY <2>3, <2>4 DEF HasData
<1>6. QED BY <1>4, <1>5

LEMMA StepKeeps ==
  ASSUME IInv, NEW t \in Tid, NEW f \in Nat, NEW g \in Nat, NEW n \in Nat, Step(t, f, g, n)
  PROVE  IInv'
<1>1. Typed
  BY DEF IInv
<1>2. Typed'
  <2>1. /\ processes' \in SUBSET Tid
        /\ process' \in [Tid -> Tid \cup {NoProcess}]
        /\ \A u \in Tid : process'[u] # NoProcess => process'[u] \in processes'
    BY <1>1, ProcessesKept
  <2>2. /\ fds' \in [Tid -> Vector]
        /\ \A r \in Tid : Len(fds'[r]) <= MaxFd
        /\ capacity' \in [Tid -> Nat]
        /\ \A r \in processes' : Len(fds'[r]) <= capacity'[r]
    BY TablesKept
  <2>3. /\ owners' \in [Stream -> Nat] /\ streams' \in SUBSET Stream
        /\ made' \in 0 .. MaxPipe
        /\ eof' \in SUBSET Pipe /\ out' \in SUBSET Pipe /\ nbRef' \in [Pipe -> 0 .. 2]
    BY FilesKept
  <2>4. /\ deque' \in [Pipe -> Seq(1 .. MaxBytes)]
        /\ written' \in [Pipe -> 0 .. MaxBytes] /\ taken' \in [Pipe -> 0 .. MaxBytes]
    BY BytesKept
  <2>5. /\ waiting' \in [Tid -> Stream \cup {None}]
        /\ waited' \in [Tid -> Stream \cup {None}]
        /\ waitings' \in [Stream -> SUBSET Tid]
        /\ call' \in [Tid -> Nat \X Nat]
        /\ retargeted' \in SUBSET Tid
    BY WaitsKept
  <2>6. QED BY <2>1, <2>2, <2>3, <2>4, <2>5, Zenon DEF Typed
<1>3. FilesInv' /\ PowerTyped'
  BY FilesKept
<1>4. Asleep'
  BY WaitsKept
<1>5. Fifo'
  BY BytesKept
<1>6. Aimed' /\ NoMissedWrite'
  BY AimedKept, NoMissedWriteKept
<1>7. QED BY <1>2, <1>3, <1>4, <1>5, <1>6 DEF IInv

\* The initial states.
LEMMA InitHolds == Init => IInv
<1> SUFFICES ASSUME Init
             PROVE  IInv
  OBVIOUS
<1>1. 1 \in Tid /\ NoProcess \notin Tid /\ MaxTid \in Nat /\ MaxPipe \in Nat /\ MaxBytes \in Nat
  BY BoundsAssumption DEF Tid, NoProcess
<1>2. Typed
  <2>1. <<Empty, Empty, Empty>> \in Vector /\ <<>> \in Vector
    BY DEF Vector
  <2>2. /\ processes \in SUBSET Tid
        /\ process \in [Tid -> Tid \cup {NoProcess}]
        /\ \A t \in Tid : process[t] # NoProcess => process[t] \in processes
    BY <1>1 DEF Init, NoProcess
  <2>3. fds \in [Tid -> Vector]
    BY <2>1 DEF Init
  <2>4. \A p \in Tid : Len(fds[p]) = IF p = 1 THEN 3 ELSE 0
    BY DEF Init
  <2>5. capacity \in [Tid -> Nat] /\ processes = {1} /\ capacity[1] = 4
    BY <1>1 DEF Init
  <2>6. /\ \A p \in Tid : Len(fds[p]) <= MaxFd
        /\ \A p \in processes : Len(fds[p]) <= capacity[p]
    BY <1>1, <2>4, <2>5, BoundsAssumption
  <2>7. /\ owners \in [Stream -> Nat] /\ streams \in SUBSET Stream /\ made \in 0 .. MaxPipe
        /\ deque \in [Pipe -> Seq(1 .. MaxBytes)]
        /\ eof \in SUBSET Pipe /\ out \in SUBSET Pipe /\ nbRef \in [Pipe -> 0 .. 2]
        /\ written \in [Pipe -> 0 .. MaxBytes] /\ taken \in [Pipe -> 0 .. MaxBytes]
    BY <1>1 DEF Init
  <2>8. /\ waiting \in [Tid -> Stream \cup {None}] /\ waited \in [Tid -> Stream \cup {None}]
        /\ waitings \in [Stream -> SUBSET Tid] /\ retargeted \in SUBSET Tid
        /\ call \in [Tid -> Nat \X Nat]
    BY DEF Init
  <2>9. QED BY <2>2, <2>3, <2>5, <2>6, <2>7, <2>8 DEF Typed
<1>3. NoDanglingFd
  <2>1. ASSUME NEW s \in Stream
        PROVE  TotalRefs(s) = 0
    <3>1. processes = {1} /\ fds[1] = <<Empty, Empty, Empty>>
      BY <1>1 DEF Init
    <3>2. At(fds[1], s) = {}
      BY <3>1, EndsTyped DEF At
    <3>3. Places(processes, fds, s) = {}
      BY <3>1, <3>2 DEF Places
    <3>4. QED BY <3>3, TotalIsPlaces, FS_EmptySet
  <2>2. QED BY <2>1 DEF NoDanglingFd
<1>4. FilesInv
  BY <1>3 DEF FilesInv, Made, EndsCounted, Init
<1>5. PowerTyped
  BY Zenon DEF Init, PowerTyped
<1>6. Asleep
  BY EndsTyped DEF Init, Asleep
<1>7. Aimed /\ NoMissedWrite
  BY DEF Init, Aimed, NoMissedWrite, Blocked
<1>8. Fifo
  <2>1. \A k \in Pipe : deque[k] = <<>> /\ written[k] = 0 /\ taken[k] = 0
    BY DEF Init
  <2>2. [i \in 1 .. (0 - 0) |-> 0 + i] = <<>>
    OBVIOUS
  <2>3. QED BY <2>1, <2>2 DEF Fifo, PipeFifo
<1>9. QED BY <1>2, <1>4, <1>5, <1>6, <1>7, <1>8 DEF IInv

LEMMA IdleKeeps == ASSUME IInv, UNCHANGED vars PROVE IInv'
<1>1. UNCHANGED <<processes, process, fds, capacity, owners, streams, made, deque, eof, out, nbRef,
                  written, taken, waiting, waited, waitings, call, retargeted, power>>
  BY DEF vars, procVars, fdVars, pipeVars, waitVars
<1>2. Typed' /\ PowerTyped'
  BY <1>1, Zenon DEF IInv, Typed, PowerTyped
<1>3. FilesInv'
  BY <1>1 DEF IInv, FilesInv, Made, NoDanglingFd, EndsCounted, TotalRefs
<1>4. Asleep' /\ Aimed' /\ Fifo' /\ NoMissedWrite'
  BY <1>1 DEF IInv, Asleep, Aimed, Fifo, PipeFifo, NoMissedWrite, Blocked, ReadDesc, ReadCount,
              HasData, Desc
<1>5. QED BY <1>2, <1>3, <1>4 DEF IInv

LEMMA NextSteps ==
  ASSUME Next
  PROVE  \/ UNCHANGED vars
         \/ \E t \in Tid, f, g, n \in Nat : Step(t, f, g, n)
<1>1. Fd \subseteq Nat /\ Count \subseteq Nat
  BY BoundsAssumption
<1>2. CASE stopped
  BY <1>2 DEF stopped
<1>3. CASE \E t \in Tid : wake(t)
  BY <1>3 DEF wake, Step
<1>4. CASE \E t \in Tid : syscall(t)
  <2>1. PICK t \in Tid : syscall(t)
    BY <1>4
  <2>2. CASE pipe(t) \/ fork(t) \/ clone(t) \/ exit(t) \/ texit(t) \/ reap(t)
    <3>1. Step(t, 0, 0, 0)
      BY <2>2, Zenon DEF Step
    <3>2. QED BY <3>1
  <2>3. CASE \E f \in Fd : close(t, f) \/ dup(t, f) \/ dup2Self(t, f)
    <3>1. PICK f \in Fd : close(t, f) \/ dup(t, f) \/ dup2Self(t, f)
      BY <2>3
    <3>2. Step(t, f, 0, 0)
      BY <3>1, Zenon DEF Step
    <3>3. QED BY <1>1, <3>2
  <2>4. CASE \E f, g \in Fd : dup2(t, f, g)
    <3>1. PICK f \in Fd, g \in Fd : dup2(t, f, g)
      BY <2>4
    <3>2. Step(t, f, g, 0)
      BY <3>1, Zenon DEF Step
    <3>3. QED BY <1>1, <3>2
  <2>5. CASE \E f \in Fd, n \in Count : readData(t, f, n) \/ readBlock(t, f, n) \/ write(t, f, n)
    <3>1. PICK f \in Fd, n \in Count : readData(t, f, n) \/ readBlock(t, f, n) \/ write(t, f, n)
      BY <2>5
    <3>2. Step(t, f, 0, n)
      BY <3>1, Zenon DEF Step
    <3>3. QED BY <1>1, <3>2
  <2>6. QED BY <2>1, <2>2, <2>3, <2>4, <2>5, Zenon DEF syscall
<1>5. QED BY <1>2, <1>3, <1>4, Zenon DEF Next

LEMMA InvHolds == Spec => []IInv
<1>1. IInv /\ [Next]_vars => IInv'
  <2> SUFFICES ASSUME IInv, [Next]_vars
               PROVE  IInv'
    OBVIOUS
  <2>1. CASE UNCHANGED vars
    BY <2>1, IdleKeeps
  <2>2. CASE Next
    <3>1. CASE \E t \in Tid, f, g, n \in Nat : Step(t, f, g, n)
      <4>1. PICK t \in Tid, f \in Nat, g \in Nat, n \in Nat : Step(t, f, g, n)
        BY <3>1
      <4>2. QED BY <4>1, StepKeeps
    <3>2. QED BY <2>1, <2>2, <3>1, NextSteps
  <2>3. QED BY <2>1, <2>2
<1>2. QED BY <1>1, InitHolds, PTL DEF Spec

-----------------------------------------------------------------------------
(* The theorems.                                                             *)

\* Through dup, dup2, close, fork, exit, wait and the reallocations of _fds
\* (FileDescriptor.cpp:31-98, Process.cpp), a stream that a descriptor refers to
\* is not deleted and its owners count the descriptors; a pipe says end of file,
\* or EPIPE, only when no process has the other end (PipeStream.cpp).
THEOREM DescriptorsSafe == Spec => []FdInv
<1>1. IInv => FdInv
  <2> SUFFICES ASSUME IInv
               PROVE  FdInv
    OBVIOUS
  <2>1. Typed /\ PowerTyped /\ FilesInv
    BY DEF IInv
  <2>2. TypeOK
    BY <2>1, Zenon DEF Typed, PowerTyped, TypeOK, Vector
  <2>3. EndsAgree
    <3> SUFFICES ASSUME power = "on", NEW k \in 1 .. made
                 PROVE  /\ k \in eof <=> In(k) \notin streams
                        /\ k \in out <=> Out(k) \in streams
                        /\ k \in eof => TotalRefs(In(k)) = 0
                        /\ k \notin out => TotalRefs(Out(k)) = 0
                        /\ nbRef[k] = Cardinality(streams \cap {In(k), Out(k)})
      BY DEF EndsAgree
    <3>1. /\ k \in eof <=> In(k) \notin streams
          /\ k \in out <=> Out(k) \in streams
          /\ nbRef[k] = Cardinality(streams \cap {In(k), Out(k)})
          /\ NoDanglingFd
      BY <2>1 DEF FilesInv, EndsCounted
    <3>2. In(k) \in Stream /\ Out(k) \in Stream
      BY <2>1, BoundsAssumption, EndsTyped DEF Typed, Pipe
    <3>3. /\ TotalRefs(In(k)) \in Nat /\ (TotalRefs(In(k)) > 0 => In(k) \in streams)
          /\ TotalRefs(Out(k)) \in Nat /\ (TotalRefs(Out(k)) > 0 => Out(k) \in streams)
      BY <2>1, <3>1, <3>2, OwnersCover
    <3>4. QED BY <3>1, <3>3
  <2>4. NoDanglingFd
    BY <2>1 DEF FilesInv, NoDanglingFd
  <2>5. QED BY <2>2, <2>3, <2>4 DEF FdInv
<1>2. QED BY <1>1, InvHolds, PTL

\* What PipeStream::read takes is what PipeStream::write queued, in that order and
\* once (PipeStream.cpp), for any number of readers, of writers and of bytes.
THEOREM PipesAreFifo == Spec => []PipeFifo
<1>1. IInv => PipeFifo
  BY DEF IInv, Fifo
<1>2. QED BY <1>1, InvHolds, PTL

\* A reader that sleeps has nothing to read: the bytes that write queues wake the
\* readers of the pipe, and a reader that is refused is registered again, whatever
\* the other threads do with the descriptors between free() and the checker.
THEOREM WritesNotMissed == Spec => []NoMissedWrite
<1>1. IInv => NoMissedWrite
  BY DEF IInv
<1>2. QED BY <1>1, InvHolds, PTL
=============================================================================
