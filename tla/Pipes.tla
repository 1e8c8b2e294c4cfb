-------------------------------- MODULE Pipes --------------------------------
(***************************************************************************)
(* Pipes and file descriptors: PipeStream, the reference counts of         *)
(* FileDescriptor, the vector _fds of a process, and the system calls      *)
(* pipe, read, write, close, dup, dup2 with the fork, clone, exit and wait *)
(* that copy and destroy descriptors.                                      *)
(*                                                                         *)
(* The kernel is not preempted, so a system call is one step; which thread *)
(* the scheduler launches is any thread that is not blocked (Processes.tla *)
(* models the scheduler).  A woken thread evaluates its checker when run() *)
(* pops it: that is the step wake, at any later time.  The processes have  *)
(* closed the three descriptors they got from init.                        *)
(***************************************************************************)
EXTENDS Integers, Sequences, FiniteSets

CONSTANTS MaxTid,     \* threads and processes are numbered 1..MaxTid
          MaxPipe,    \* bound on the number of pipes created
          MaxFd,      \* bound on the size of a vector _fds
          Fd,         \* the descriptors that programs pass to system calls
          Count,      \* the counts that programs pass to read and write
          MaxBytes    \* bound on the bytes written to a pipe

ASSUME BoundsAssumption ==
    /\ MaxTid \in Nat \ {0}
    /\ MaxPipe \in Nat
    /\ MaxFd \in Nat /\ MaxFd >= 3
    /\ Fd \subseteq Nat /\ Count \subseteq Nat
    /\ MaxBytes \in Nat

Tid == 1..MaxTid
Pipe == 1..MaxPipe
NoProcess == 0
In(k) == <<k, "in">>          \* PipeStreamIn of pipe k: the write end
Out(k) == <<k, "out">>        \* PipeStreamOut of pipe k: the read end
Stream == Pipe \X {"in", "out"}
Empty == <<0, "empty">>       \* a FileDescriptor of type EMPTY
None == <<0, "none">>         \* nullptr

VARIABLES
    \* Process
    processes,        \* the Process objects
    process,          \* owner of each live thread, NoProcess for the others
    fds,              \* _fds: fd i is fds[p][i + 1]
    capacity,         \* _capacity of the vector _fds
    \* FileDescriptor
    owners,           \* *_owners of the FileDescriptors of a stream
    streams,          \* the streams that are not deleted
    \* PipeStream
    made,             \* number of pipes created
    deque,            \* _deque: the bytes, numbered in the order they are written
    eof,              \* the pipes whose _eof is set
    out,              \* the pipes whose _out is not nullptr
    nbRef,
    written,          \* ghost: bytes written to the pipe ...
    taken,            \* ghost: ... and read from it
    \* Waiting and Waitable
    waiting,          \* the stream thread t has called wait() on
    waited,           \* the stream that has called free() for t
    waitings,         \* the threads registered on the stream
    call,             \* fd and count that the checker of sysread has captured
    retargeted,       \* ghost: blocked threads whose fd was closed or reassigned since
    power             \* "on" or what stopped the kernel

procVars == <<processes, process, fds, capacity>>
fdVars == <<owners, streams>>
pipeVars == <<made, deque, eof, out, nbRef, written, taken>>
waitVars == <<waiting, waited, waitings, call, retargeted>>
vars == <<procVars, fdVars, pipeVars, waitVars, power>>

\* The types of the descriptor tables, of the pipes and of the blocked readers.
TypeOK ==
    /\ processes \subseteq Tid
    /\ process \in [Tid -> Tid \cup {NoProcess}]
    /\ \A p \in Tid : fds[p] \in Seq(Stream \cup {Empty}) /\ Len(fds[p]) <= MaxFd
    /\ \A p \in processes : Len(fds[p]) <= capacity[p]
    /\ owners \in [Stream -> Nat]
    /\ streams \subseteq Stream
    /\ made \in 0..MaxPipe
    /\ \A k \in Pipe : deque[k] \in Seq(1..MaxBytes)
    /\ eof \subseteq Pipe /\ out \subseteq Pipe
    /\ nbRef \in [Pipe -> 0..2]
    /\ written \in [Pipe -> 0..MaxBytes] /\ taken \in [Pipe -> 0..MaxBytes]
    /\ waiting \in [Tid -> Stream \cup {None}]
    /\ waited \in [Tid -> Stream \cup {None}]
    /\ waitings \in [Stream -> SUBSET Tid]
    /\ call \in [Tid -> Nat \X Nat]
    /\ retargeted \subseteq Tid
    /\ power \in {"on", "~Waiting", "~Waitable", "use after free"}

Init ==
    /\ processes = {1}
    /\ process = [t \in Tid |-> IF t = 1 THEN 1 ELSE NoProcess]
    /\ fds = [p \in Tid |-> IF p = 1 THEN <<Empty, Empty, Empty>> ELSE <<>>]
    /\ capacity = [p \in Tid |-> IF p = 1 THEN 4 ELSE 0]
    /\ owners = [s \in Stream |-> 0]
    /\ streams = {}
    /\ made = 0
    /\ deque = [k \in Pipe |-> <<>>]
    /\ eof = {} /\ out = {}
    /\ nbRef = [k \in Pipe |-> 0]
    /\ written = [k \in Pipe |-> 0]
    /\ taken = [k \in Pipe |-> 0]
    /\ waiting = [t \in Tid |-> None]
    /\ waited = [t \in Tid |-> None]
    /\ waitings = [s \in Stream |-> {}]
    /\ call = [t \in Tid |-> <<0, 0>>]
    /\ retargeted = {}
    /\ power = "on"

-----------------------------------------------------------------------------
(* vector and FileDescriptor *)

\* strategy(s) of vector: 1 << (bsr(s + 1) + 1).
strategy(s) == CHOOSE c \in {2^i : i \in 1..(s + 1)} : c <= 2 * (s + 1) /\ s + 1 < c

\* The number of descriptors in q that refer to stream s.
Refs(q, s) == Cardinality({i \in DOMAIN q : q[i] = s})

\* resize(n) for n larger than the size.
resize(q, n) == [i \in 1..n |-> IF i <= Len(q) THEN q[i] ELSE Empty]
Realloc(p, n) == n > capacity[p]
reserve(p, n) == IF Realloc(p, n) THEN [capacity EXCEPT ![p] = strategy(n)] ELSE capacity

\* reserve() copies the descriptors to a new array (FileDescriptor has no move
\* constructor) and does not destroy the old ones: their owners stay counted.
Leaked(p, n, s) == IF Realloc(p, n) THEN Refs(fds[p], s) ELSE 0

\* The streams whose last owner goes when c[s] descriptors of s are dropped.
drop(c) == {s \in Stream : c[s] > 0 /\ owners[s] = c[s]}

\* Mutant of decrRef: the shared PipeStream is released twice.
DecrTwice(D) == [k \in Pipe |-> nbRef[k] - 2 * Cardinality(D \cap {In(k), Out(k)})]

\* FileDescriptor::free of the streams in D, that is ~PipeStreamIn and
\* ~PipeStreamOut: sendEof, decrRef, _out = nullptr.
sendEof(D) == eof \cup {k \in Pipe : In(k) \in D}
clearOut(D) == out \ {k \in Pipe : Out(k) \in D}
decrRef(D) == [k \in Pipe |-> nbRef[k] - Cardinality(D \cap {In(k), Out(k)})]

\* Descriptors are dropped as c says and others copied as d says; fails in
\* ~Waitable when a deleted stream has waiters.
Drop(c, d) ==
    LET D == drop(c) IN
    IF \E s \in D : waitings[s] # {}
    THEN /\ power' = "~Waitable"
         /\ UNCHANGED <<fdVars, eof, out, nbRef>>
    ELSE /\ owners' = [s \in Stream |-> owners[s] - c[s] + d[s]]
         /\ streams' = streams \ D
         /\ eof' = sendEof(D)
         /\ out' = clearOut(D)
         /\ nbRef' = decrRef(D)
         /\ UNCHANGED power

Zero == [s \in Stream |-> 0]
One(x) == [s \in Stream |-> IF s = x THEN 1 ELSE 0]

-----------------------------------------------------------------------------
(* System calls of thread t *)

Blocked(t) == waiting[t] # None
Running(t) == power = "on" /\ process[t] # NoProcess /\ ~Blocked(t)

\* fd f of the process of t, Empty when the vector is shorter.
Desc(t, f) == LET q == fds[process[t]] IN IF f < Len(q) THEN q[f + 1] ELSE Empty

\* syspipe: _fds is resized twice, then the two ends are created.
pipe(t) ==
    LET p == process[t]
        n == Len(fds[p])
        m == IF Realloc(p, n + 1) THEN n + 1 ELSE n + 2
        k == made + 1
    IN  /\ Running(t)
        /\ made < MaxPipe /\ n + 2 <= MaxFd
        /\ made' = k
        /\ fds' = [fds EXCEPT ![p] = @ \o <<Out(k), In(k)>>]
        /\ capacity' = reserve(p, m)
        /\ owners' = [s \in Stream |-> IF s \in {In(k), Out(k)} THEN 1
                                       ELSE owners[s] + Leaked(p, m, s)]
        /\ streams' = streams \cup {In(k), Out(k)}
        /\ out' = out \cup {k}
        /\ nbRef' = [nbRef EXCEPT ![k] = 2]
        /\ UNCHANGED <<processes, process, deque, eof, written, taken, waitVars, power>>

\* What nbread does with a descriptor: bad is EBADF, data a read of at least one
\* byte, end the result 0, and otherwise the result is EBLOCK.
Readable(d) == d \in {Out(k) : k \in Pipe}
HasData(d, n) == n > 0 /\ deque[d[1]] # <<>>
AtEof(d) == d[1] \in eof

\* Mutant of pop: the first byte stays in the deque when all are read.
PopKeepsLast(k, n) ==
    LET m == IF n < Len(deque[k]) THEN n ELSE Len(deque[k]) IN
    /\ deque' = [deque EXCEPT ![k] = SubSeq(@, IF m = Len(@) THEN m ELSE m + 1, Len(@))]
    /\ taken' = [taken EXCEPT ![k] = @ + m]

\* PipeStream::read of at most n bytes.
pop(k, n) ==
    LET m == IF n < Len(deque[k]) THEN n ELSE Len(deque[k]) IN
    /\ deque' = [deque EXCEPT ![k] = SubSeq(@, m + 1, Len(@))]
    /\ taken' = [taken EXCEPT ![k] = @ + m]

readData(t, f, n) ==
    /\ Running(t)
    /\ Readable(Desc(t, f)) /\ HasData(Desc(t, f), n)
    /\ pop(Desc(t, f)[1], n)
    /\ UNCHANGED <<procVars, fdVars, made, eof, out, nbRef, written, waitVars, power>>

\* EBLOCK: wait({desc.get()}, checker).
readBlock(t, f, n) ==
    LET d == Desc(t, f) IN
    /\ Running(t)
    /\ Readable(d) /\ ~HasData(d, n) /\ ~AtEof(d)
    /\ waiting' = [waiting EXCEPT ![t] = d]
    /\ waitings' = [waitings EXCEPT ![d] = @ \cup {t}]
    /\ call' = [call EXCEPT ![t] = <<f, n>>]
    /\ UNCHANGED <<procVars, fdVars, pipeVars, waited, retargeted, power>>

\* Mutant of freeReaders: only one reader is woken.
WakeOneReader(k) ==
    /\ waited' = [t \in Tid |-> IF /\ t \in waitings[Out(k)]
                                   /\ \A u \in waitings[Out(k)] : t <= u
                                THEN Out(k) ELSE waited[t]]
    /\ waitings' = [waitings EXCEPT ![Out(k)] = {}]

\* _out->free().
freeReaders(k) ==
    /\ waited' = [t \in Tid |-> IF t \in waitings[Out(k)] THEN Out(k) ELSE waited[t]]
    /\ waitings' = [waitings EXCEPT ![Out(k)] = {}]

\* swrite and PipeStream::write of n bytes: they are queued even when the read end
\* is closed and the result is EPIPE.
write(t, f, n) ==
    \E k \in Pipe :
        /\ Running(t)
        /\ Desc(t, f) = In(k)
        /\ written[k] + n <= MaxBytes
        /\ deque' = [deque EXCEPT ![k] = @ \o [i \in 1..n |-> written[k] + i]]
        /\ written' = [written EXCEPT ![k] = @ + n]
        /\ \/ k \in out /\ freeReaders(k)
           \/ k \notin out /\ UNCHANGED <<waited, waitings>>
        /\ UNCHANGED <<procVars, fdVars, made, eof, out, nbRef, taken, waiting, call, retargeted,
                       power>>

\* fd g of process p is assigned: the threads blocked in a read of it.
Retarget(p, g) ==
    retargeted' = retargeted \cup {u \in Tid : process[u] = p /\ Blocked(u) /\ call[u][1] = g}

\* sysclose of a descriptor that is not empty.
close(t, f) ==
    /\ Running(t)
    /\ Desc(t, f) # Empty
    /\ fds' = [fds EXCEPT ![process[t]][f + 1] = Empty]
    /\ Drop(One(Desc(t, f)), Zero)
    /\ Retarget(process[t], f)
    /\ UNCHANGED <<processes, process, capacity, made, deque, written, taken,
                   waiting, waited, waitings, call>>

\* sysdup: the copy goes to the end of the vector.
dup(t, f) ==
    LET p == process[t]
        n == Len(fds[p]) + 1
    IN  /\ Running(t)
        /\ f < Len(fds[p])
        /\ n <= MaxFd
        /\ fds' = [fds EXCEPT ![p] = Append(@, Desc(t, f))]
        /\ capacity' = reserve(p, n)
        /\ owners' = [s \in Stream |-> owners[s] + Leaked(p, n, s) + One(Desc(t, f))[s]]
        /\ UNCHANGED <<processes, process, streams, pipeVars, waitVars, power>>

\* sysdup2 on another descriptor, or on itself when that does not free it.
dup2(t, f, g) ==
    LET p == process[t]
        n == IF g < Len(fds[p]) THEN Len(fds[p]) ELSE g + 1
        d == Desc(t, f)
    IN  /\ Running(t)
        /\ f < Len(fds[p])
        /\ n <= MaxFd
        /\ f = g /\ d # Empty => owners[d] > 1
        /\ fds' = [fds EXCEPT ![p] = [resize(@, n) EXCEPT ![g + 1] = d]]
        /\ capacity' = reserve(p, n)
        /\ Drop(One(Desc(t, g)), [s \in Stream |-> Leaked(p, n, s) + One(d)[s]])
        /\ Retarget(p, g)
        /\ UNCHANGED <<processes, process, made, deque, written, taken,
                       waiting, waited, waitings, call>>

\* sysdup2 of a descriptor on itself that is its only owner: operator= frees the
\* stream, then copies the freed descriptor.
dup2Self(t, f) ==
    /\ Running(t)
    /\ Desc(t, f) # Empty
    /\ owners[Desc(t, f)] = 1
    /\ power' = "use after free"
    /\ UNCHANGED <<procVars, fdVars, pipeVars, waitVars>>

-----------------------------------------------------------------------------
(* Processes *)

Fresh(q) == q \notin processes /\ process[q] = NoProcess
Unblock(t) == /\ waiting' = [waiting EXCEPT ![t] = None]
              /\ waited' = [waited EXCEPT ![t] = None]
              /\ call' = [call EXCEPT ![t] = <<0, 0>>]
              /\ retargeted' = retargeted \ {t}

\* The fork constructor of Process copies _fds.
fork(t) ==
    LET p == process[t] IN
    /\ Running(t)
    /\ \E q \in Tid :
        /\ Fresh(q)
        /\ processes' = processes \cup {q}
        /\ process' = [process EXCEPT ![q] = q]
        /\ fds' = [fds EXCEPT ![q] = fds[p]]
        /\ capacity' = [capacity EXCEPT ![q] = strategy(Len(fds[p]))]
    /\ owners' = [s \in Stream |-> owners[s] + Refs(fds[p], s)]
    /\ UNCHANGED <<streams, pipeVars, waitVars, power>>

clone(t) ==
    /\ Running(t)
    /\ \E q \in Tid : Fresh(q) /\ process' = [process EXCEPT ![q] = process[t]]
    /\ UNCHANGED <<processes, fds, capacity, fdVars, pipeVars, waitVars, power>>

Siblings(p) == {t \in Tid : process[t] = p}

\* exit of a process but init: its threads are deleted, which must not be blocked,
\* and its descriptors stay.
exit(t) ==
    /\ Running(t) /\ process[t] # 1
    /\ \/ /\ \E u \in Siblings(process[t]) : Blocked(u)
          /\ power' = "~Waiting"
          /\ UNCHANGED process
       \/ /\ \A u \in Siblings(process[t]) : ~Blocked(u)
          /\ process' = [u \in Tid |-> IF process[u] = process[t] THEN NoProcess
                                                               ELSE process[u]]
          /\ UNCHANGED power
    /\ UNCHANGED <<processes, fds, capacity, fdVars, pipeVars, waitVars>>

\* texit of a thread that is not the last of its process.
texit(t) ==
    /\ Running(t)
    /\ Siblings(process[t]) # {t}
    /\ process' = [process EXCEPT ![t] = NoProcess]
    /\ UNCHANGED <<processes, fds, capacity, fdVars, pipeVars, waitVars, power>>

Zombie(q) == q \in processes /\ Siblings(q) = {}

\* wait by a thread of the parent: ~Process destroys _fds.
reap(t) ==
    /\ Running(t)
    /\ \E q \in processes :
        /\ Zombie(q)
        /\ processes' = processes \ {q}
        /\ fds' = [fds EXCEPT ![q] = <<>>]
        /\ capacity' = [capacity EXCEPT ![q] = 0]
        /\ Drop([s \in Stream |-> Refs(fds[q], s)], Zero)
    /\ UNCHANGED <<process, made, deque, written, taken, waitVars>>

-----------------------------------------------------------------------------
(* run() pops a thread whose stream has called free(): OK() evaluates the checker
   of sysread, which calls nbread with the captured fd and count. *)

Woken(t) == power = "on" /\ process[t] # NoProcess /\ waited[t] # None
ReadDesc(t) == Desc(t, call[t][1])
ReadCount(t) == call[t][2]

wakeData(t) ==
    /\ Woken(t)
    /\ Readable(ReadDesc(t)) /\ HasData(ReadDesc(t), ReadCount(t))
    /\ pop(ReadDesc(t)[1], ReadCount(t))
    /\ Unblock(t)
    /\ UNCHANGED <<procVars, fdVars, made, eof, out, nbRef, written, waitings, power>>

\* nbread returns 0 or EBADF.
wakeEnd(t) ==
    LET d == ReadDesc(t) IN
    /\ Woken(t)
    /\ Readable(d) => ~HasData(d, ReadCount(t)) /\ AtEof(d)
    /\ Unblock(t)
    /\ UNCHANGED <<procVars, fdVars, pipeVars, waitings, power>>

\* Mutant of refuse: the thread is not registered again.
RefuseUnregistered(t) ==
    /\ waited' = [waited EXCEPT ![t] = None]
    /\ UNCHANGED waitings

\* refuse() inserts the thread in the stream it waited for, even if that stream is
\* deleted: the insertion is then made in freed memory.
refuse(t) ==
    /\ waited' = [waited EXCEPT ![t] = None]
    /\ waitings' = [waitings EXCEPT ![waiting[t]] = @ \cup {t}]

wakeRefuse(t) ==
    LET d == ReadDesc(t) IN
    /\ Woken(t)
    /\ Readable(d) /\ ~HasData(d, ReadCount(t)) /\ ~AtEof(d)
    /\ refuse(t)
    /\ UNCHANGED <<procVars, fdVars, pipeVars, waiting, call, retargeted, power>>

stopped == power # "on" /\ UNCHANGED vars

wake(t) == wakeData(t) \/ wakeEnd(t) \/ wakeRefuse(t)

syscall(t) ==
    \/ pipe(t) \/ fork(t) \/ clone(t) \/ exit(t) \/ texit(t) \/ reap(t)
    \/ \E f \in Fd :
        \/ close(t, f) \/ dup(t, f) \/ dup2Self(t, f)
        \/ \E g \in Fd : dup2(t, f, g)
        \/ \E n \in Count : readData(t, f, n) \/ readBlock(t, f, n) \/ write(t, f, n)

Next == (\E t \in Tid : syscall(t) \/ wake(t)) \/ stopped

Spec == Init /\ [][Next]_vars

\* run() comes back to every queued thread (ReadyThreadRuns of Processes.tla).
Fairness == \A t \in Tid : WF_vars(wake(t))
FairSpec == Spec /\ Fairness
-----------------------------------------------------------------------------
(* Safety *)

TotalRefs(s) ==
    Cardinality(UNION {{<<p, i>> : i \in {j \in DOMAIN fds[p] : fds[p][j] = s}}
                       : p \in processes})

\* Reference counting frees nothing that is in use: through dup, dup2, close, fork,
\* exit, wait and the reallocations of _fds, a stream that a descriptor of any
\* process refers to is not deleted and all these descriptors are counted.
NoDanglingFd ==
    power = "on" =>
        \A s \in Stream : TotalRefs(s) > 0 => s \in streams /\ owners[s] >= TotalRefs(s)

\* A pipe says end of file only when no process has its write end, and the writer
\* gets EPIPE only when no process has the read end; the PipeStream they share
\* lives as long as one of them.
EndsAgree ==
    power = "on" => \A k \in 1..made :
        /\ k \in eof <=> In(k) \notin streams
        /\ k \in out <=> Out(k) \in streams
        /\ k \in eof => TotalRefs(In(k)) = 0
        /\ k \notin out => TotalRefs(Out(k)) = 0
        /\ nbRef[k] = Cardinality(streams \cap {In(k), Out(k)})

\* The descriptors, the streams and the pipes agree, whichever process closes what.
FdInv == TypeOK /\ NoDanglingFd /\ EndsAgree

\* Bytes are neither lost, duplicated nor reordered, whatever readers block, wake
\* up late or read in part.
PipeFifo ==
    \A k \in Pipe : deque[k] = [i \in 1..(written[k] - taken[k]) |-> taken[k] + i]

\* No write is missed: while a reader of at least one byte sleeps unwoken on a
\* descriptor that nobody has reassigned, there is no data for it.
NoMissedWrite ==
    power = "on" => \A t \in Tid \ retargeted :
        Blocked(t) /\ waited[t] = None
            => ReadDesc(t) = waiting[t] /\ ~HasData(ReadDesc(t), ReadCount(t))

-----------------------------------------------------------------------------
(* Liveness *)

\* A blocked reader of a pipe that has data gets some, unless another reader
\* takes it all or the descriptor is reassigned under the reader.
DataDelivered ==
    \A t \in Tid :
        (Blocked(t) /\ t \notin retargeted /\ HasData(waiting[t], ReadCount(t)))
        ~> (\/ ~Blocked(t) \/ t \in retargeted \/ power # "on"
            \/ deque[waiting[t][1]] = <<>>)
=============================================================================
