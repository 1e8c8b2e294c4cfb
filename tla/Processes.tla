------------------------------ MODULE Processes ------------------------------
(***************************************************************************)
(* The process system of the kernel: Scheduler, Process, Thread and the    *)
(* Waiting/Waitable protocol for the wait and read system calls.  What is  *)
(* read is a text window, whose input is a buffer that is empty or not.    *)
(*                                                                         *)
(* The kernel is not preempted (timerHandler returns at once when it       *)
(* interrupts kernel code), so a system call is one step.  It ends either  *)
(* by returning to the calling thread (current is unchanged) or in         *)
(* Scheduler::run, whose recursive calls are the steps Run...: while       *)
(* current is NoThread and the processor is not halted nothing but run()   *)
(* executes.                                                               *)
(*                                                                         *)
(* A thread is identified by its tid and a process by its pid; both are    *)
(* drawn from the same bitset.  The fields of a destroyed object are reset *)
(* so that states that differ only in dead memory are one state.           *)
(***************************************************************************)
EXTENDS Integers, Sequences

CONSTANTS Terminal,   \* the text windows threads read from
          MaxTid,     \* the bitset _tids has bits 0..MaxTid (0x8000 - 1 in the kernel)
          MaxFIFO     \* bound on the length of _threadFIFO, which exec makes grow:
                      \* fork, clone and exec leave room for the current thread

ASSUME BoundsAssumption == MaxTid \in Nat \ {0} /\ MaxFIFO \in Nat
ASSUME TerminalAssumption == \A w \in Terminal : w \notin Int

Tid == 1..MaxTid
NoThread == 0         \* nullptr
NoProcess == 0        \* nullptr
InitPid == 1
AnyChild == 0         \* pid argument 0 of syswait
Waitable == Tid \cup Terminal
Gone == MaxTid + 1    \* a Process* whose object has been deleted
Groups == {InitPid}   \* keys of Scheduler::_groups: fork copies the gid of init

VARIABLES
    \* Scheduler
    processes,        \* keys of _processes
    threads,          \* keys of _threads
    tids,             \* set bits of _tids: the free identifiers
    threadFIFO,
    current,          \* tid of _current
    runTryNum,
    halted,
    \* Process
    pthreads,         \* _threads: tids of the threads of the process
    parent,
    sons,
    terminated,       \* the processes whose _terminated is set
    mainTerminated,   \* the processes whose _mainTerminated is set
    waitings,         \* Waitable::_waitings: tids registered on the process or window
    \* Thread
    process,          \* _process
    waiting,          \* Waiting::_waiting: the processes or windows waited for
    waited,           \* Waiting::_waited: the process or window that called free()
    target,           \* the Process* the checker of waitp has captured
    input,            \* the windows whose _inputBuffer is not empty
    \* The machine: "on", "kend", or the assertion that called bsod
    power

schedVars == <<processes, threads, tids, threadFIFO, current, runTryNum, halted>>
procVars == <<pthreads, parent, sons, terminated, mainTerminated>>
waitVars == <<waitings, waiting, waited, target>>
vars == <<schedVars, procVars, waitVars, process, input, power>>

SchedType ==
    /\ processes \subseteq Tid
    /\ threads \subseteq Tid
    /\ tids \subseteq Tid
    /\ current \in Tid \cup {NoThread}
    /\ halted \in BOOLEAN

QueueType == threadFIFO \in Seq(Tid) /\ runTryNum \in Nat

ProcType ==
    /\ pthreads \in [Tid -> SUBSET Tid]
    /\ parent \in [Tid -> Tid \cup {NoProcess}]
    /\ sons \in [Tid -> SUBSET Tid]
    /\ terminated \subseteq Tid
    /\ mainTerminated \subseteq Tid
    /\ process \in [Tid -> Tid]

WaitType ==
    /\ waitings \in [Waitable -> SUBSET Tid]
    /\ waiting \in [Tid -> SUBSET Waitable]
    /\ waited \in [Tid -> Waitable \cup {NoProcess}]
    /\ target \in [Tid -> Tid \cup {AnyChild, Gone}]
    /\ input \subseteq Terminal
    /\ power \in {"on", "kend", "~Waiting", "map at"}

\* The types of the scheduler and its queue, of the processes and threads, and of
\* the waiting protocol.
TypeOK == SchedType /\ QueueType /\ ProcType /\ WaitType

\* kmain has created group 1, process 1 and its main thread, and calls run().
Init ==
    /\ processes = {InitPid}
    /\ threads = {InitPid}
    /\ tids = Tid \ {InitPid}
    /\ threadFIFO = <<InitPid>>
    /\ current = NoThread
    /\ runTryNum = 0
    /\ halted = FALSE
    /\ pthreads = [p \in Tid |-> IF p = InitPid THEN {InitPid} ELSE {}]
    /\ parent = [p \in Tid |-> NoProcess]
    /\ sons = [p \in Tid |-> {}]
    /\ terminated = {}
    /\ mainTerminated = {}
    /\ waitings = [w \in Waitable |-> {}]
    /\ process = [t \in Tid |-> InitPid]
    /\ waiting = [t \in Tid |-> {}]
    /\ waited = [t \in Tid |-> NoProcess]
    /\ target = [t \in Tid |-> AnyChild]
    /\ input = {}
    /\ power = "on"

-----------------------------------------------------------------------------
(* Waiting.h *)

\* The precondition of ~Waiting and of wait().
Idle(t) == waited[t] = NoProcess /\ waiting[t] = {}

\* Mutant of freeWaited: only one of the waiters is woken.
WakeOne(w) ==
    [t \in Tid |-> IF t \in waitings[w] /\ \A u \in waitings[w] : t <= u
                   THEN w ELSE waited[t]]

\* Waitable::free on the process or window w.
freeWaited(w) == [t \in Tid |-> IF t \in waitings[w] THEN w ELSE waited[t]]
freeWaitings(w) == [waitings EXCEPT ![w] = {}]

\* Waiting::wait({w}, checker), the checker having captured tg.
wait(t, w, tg) ==
    /\ waiting' = [waiting EXCEPT ![t] = {w}]
    /\ waitings' = [waitings EXCEPT ![w] = @ \cup {t}]
    /\ target' = [target EXCEPT ![t] = tg]
    /\ UNCHANGED waited

\* refuse() after OK() has cleared _waited.
refuse(t) ==
    /\ waited' = [waited EXCEPT ![t] = NoProcess]
    /\ waitings' = [w \in Waitable |-> IF w \in waiting[t] THEN waitings[w] \cup {t}
                                                           ELSE waitings[w]]
    /\ UNCHANGED <<waiting, target>>

-----------------------------------------------------------------------------
(* Helpers of Scheduler and Process *)

Running(t) == power = "on" /\ current = t /\ t # NoThread

\* A failed assertion: bsod() never returns.
Bsod(assertion) ==
    /\ power' = assertion
    /\ UNCHANGED <<schedVars, procVars, waitVars, process, input>>

\* The tids that freeT gives back when the threads of S are deleted.
freeT(S) == {t \in S : t \notin Groups /\ t \notin processes}

\* ~Thread of the threads of S: their _process is reset.
deleteThreads(S) == [t \in Tid |-> IF t \in S THEN InitPid ELSE process[t]]

\* The tids that freeP gives back when process q is deleted.
freeP(q) == {q} \ Groups

\* Mutant of stopCurent: the tid is not queued.
StopForgets == threadFIFO

\* The threadFIFO that stopCurent leaves (it also clears _current).
stopCurent == Append(threadFIFO, current)

\* getFreshTid: bsf finds the lowest set bit.
IsFreshTid(q) == q \in tids /\ \A r \in tids : q <= r

\* Mutant of terminate: the parent is not woken.
TerminateSilent(p) ==
    /\ terminated' = terminated \cup {p}
    /\ power' = IF p = InitPid THEN "kend" ELSE power
    /\ UNCHANGED <<waited, waitings>>

\* The part of Process::terminate that follows the deletion of the threads.
terminate(p) ==
    /\ terminated' = terminated \cup {p}
    /\ \/ /\ p = InitPid
          /\ power' = "kend"
          /\ UNCHANGED <<waited, waitings>>
       \/ /\ p # InitPid
          /\ waited' = freeWaited(parent[p])
          /\ waitings' = freeWaitings(parent[p])
          /\ UNCHANGED power

\* mainTerm and remThread: the _mainTerminated and _threads that they leave.
mainTerm(p, t) == mainTerminated \cup ({p} \cap {t})
remThread(p, t) == pthreads[p] \ {t}

\* Mutants of the two halves of orphan: the sons keep the deleted parent, or go to
\* their grandparent; init does not get them.
OrphanKeepsParent(q) == [parent EXCEPT ![q] = NoProcess]
OrphanToGrandparent(q) ==
    [p \in Tid |-> IF p = q THEN NoProcess
                   ELSE IF p \in sons[q] THEN parent[q] ELSE parent[p]]
OrphanForgotten(q) ==
    [p \in Tid |-> IF p = q THEN {}
                   ELSE sons[p] \ (IF p = parent[q] THEN {q} ELSE {})]

\* ~Process of the zombie q: its sons are orphaned, that is given to init,
\* and it leaves the _sons of its parent.
orphanParent(q) ==
    [p \in Tid |-> IF p = q THEN NoProcess
                   ELSE IF p \in sons[q] THEN InitPid ELSE parent[p]]
orphanSons(q) ==
    [p \in Tid |-> IF p = q THEN {}
                   ELSE (IF p = InitPid THEN sons[p] \cup sons[q] ELSE sons[p])
                        \ (IF p = parent[q] THEN {q} ELSE {})]
deleteProcess(q) ==
    /\ processes' = processes \ {q}
    /\ tids' = tids \cup freeP(q)
    /\ parent' = orphanParent(q)
    /\ sons' = orphanSons(q)
    /\ terminated' = terminated \ {q}
    /\ mainTerminated' = mainTerminated \ {q}
    /\ UNCHANGED pthreads

\* The sons nbwaitp looks at: all of them, or the one it is given.
Candidates(p, tg) == IF tg = AnyChild THEN sons[p] ELSE sons[p] \cap {tg}
Zombies(p, tg) == Candidates(p, tg) \cap terminated

\* The pointers to q that blocked threads hold dangle once q is deleted.
dangle(q) == [t \in Tid |-> IF target[t] = q THEN Gone ELSE target[t]]

-----------------------------------------------------------------------------
(* System calls of the running thread t *)

\* The new Process may get the address of a deleted one: the dangling pointers
\* of the threads in S then designate it.
fork(t) ==
    /\ Running(t)
    /\ Len(threadFIFO) + 2 <= MaxFIFO
    /\ \E q \in tids :
        /\ IsFreshTid(q)
        /\ tids' = tids \ {q}
        /\ processes' = processes \cup {q}
        /\ threads' = threads \cup {q}
        /\ threadFIFO' = Append(threadFIFO, q)
        /\ pthreads' = [pthreads EXCEPT ![q] = {q}]
        /\ process' = [process EXCEPT ![q] = q]
        /\ parent' = [parent EXCEPT ![q] = process[t]]
        /\ sons' = [sons EXCEPT ![process[t]] = @ \cup {q}]
        /\ \E S \in SUBSET {x \in threads : target[x] = Gone} :
              target' = [x \in Tid |-> IF x \in S THEN q ELSE target[x]]
    /\ UNCHANGED <<current, runTryNum, halted, terminated, mainTerminated,
                   waitings, waiting, waited, input, power>>

\* The EFAULT returns of clone (rip or stack outside user memory) change nothing.
clone(t) ==
    /\ Running(t)
    /\ Len(threadFIFO) + 2 <= MaxFIFO
    /\ \E q \in tids :
        /\ IsFreshTid(q)
        /\ tids' = tids \ {q}
        /\ threads' = threads \cup {q}
        /\ threadFIFO' = Append(threadFIFO, q)
        /\ pthreads' = [pthreads EXCEPT ![process[t]] = @ \cup {q}]
        /\ process' = [process EXCEPT ![q] = process[t]]
    /\ UNCHANGED <<processes, current, runTryNum, halted, parent, sons,
                   terminated, mainTerminated, waitVars, input, power>>

\* exit deletes every thread of the process, which must not be blocked (see
\* deleteBlocked).
exit(t) ==
    /\ Running(t)
    /\ LET p == process[t] IN
        /\ \A th \in pthreads[p] : Idle(th)
        /\ current' = NoThread
        /\ threads' = threads \ pthreads[p]
        /\ tids' = tids \cup freeT(pthreads[p])
        /\ process' = deleteThreads(pthreads[p])
        /\ pthreads' = [pthreads EXCEPT ![p] = {}]
        /\ terminate(p)
    /\ UNCHANGED <<processes, threadFIFO, runTryNum, halted, parent, sons,
                   mainTerminated, waiting, target, input>>

\* texit: Thread::terminate, then the deletion of the thread.
texit(t) ==
    /\ Running(t)
    /\ LET p == process[t] IN
        /\ current' = NoThread
        /\ mainTerminated' = mainTerm(p, t)
        /\ pthreads' = [pthreads EXCEPT ![p] = remThread(p, t)]
        /\ \/ /\ remThread(p, t) = {}
              /\ terminate(p)
           \/ /\ remThread(p, t) # {}
              /\ UNCHANGED <<terminated, waited, waitings, power>>
        /\ threads' = threads \ {t}
        /\ tids' = tids \cup freeT({t})
        /\ process' = deleteThreads({t})
    /\ UNCHANGED <<processes, threadFIFO, runTryNum, halted, parent, sons,
                   waiting, target, input>>

\* sysexec, when its argument checks have succeeded (EFAULT and EACCESS change
\* nothing): stopCurent queues the calling thread before clear() deletes it, and
\* the new main thread is queued in turn.
exec(t) ==
    /\ Running(t)
    /\ Len(threadFIFO) + 2 <= MaxFIFO
    /\ LET p == process[t] IN
        /\ \A th \in pthreads[p] : Idle(th)
        /\ current' = NoThread
        /\ threadFIFO' = Append(stopCurent, p)
        /\ threads' = (threads \ pthreads[p]) \cup {p}
        /\ tids' = tids \cup freeT(pthreads[p])
        /\ pthreads' = [pthreads EXCEPT ![p] = {p}]
        /\ process' = [deleteThreads(pthreads[p]) EXCEPT ![p] = p]
    /\ UNCHANGED <<processes, runTryNum, halted, parent, sons, terminated,
                   mainTerminated, waitVars, input, power>>

\* exit or exec by t deletes a thread that is blocked: ~Waiting asserts.
deleteBlocked(t) ==
    /\ Running(t)
    /\ \E th \in pthreads[process[t]] : ~Idle(th)
    /\ Bsod("~Waiting")

\* wait: nbwaitp finds a zombie and deletes it; the call returns.
waitReap(t, tg) ==
    /\ Running(t)
    /\ \E q \in Zombies(process[t], tg) :
        /\ deleteProcess(q)
        /\ target' = dangle(q)
    /\ UNCHANGED <<threads, threadFIFO, current, runTryNum, halted, waitings,
                   waiting, waited, process, input, power>>

\* wait: nbwaitp finds sons but no zombie; the thread blocks.
waitBlock(t, tg) ==
    /\ Running(t)
    /\ Candidates(process[t], tg) # {}
    /\ Zombies(process[t], tg) = {}
    /\ wait(t, process[t], tg)
    /\ threadFIFO' = stopCurent
    /\ current' = NoThread
    /\ UNCHANGED <<processes, threads, tids, runTryNum, halted, procVars,
                   process, input, power>>

\* TextWindow::read takes at most count characters of _inputBuffer.
consume(w) == input' \in {input, input \ {w}}

\* sysread of a text window (the EFAULT and EBADF returns change nothing): nbread
\* finds characters, or the thread blocks.
read(t, w) ==
    /\ Running(t)
    /\ w \in input
    /\ consume(w)
    /\ UNCHANGED <<schedVars, procVars, waitVars, process, power>>

readBlock(t, w) ==
    /\ Running(t)
    /\ w \notin input
    /\ wait(t, w, AnyChild)
    /\ threadFIFO' = stopCurent
    /\ current' = NoThread
    /\ UNCHANGED <<processes, threads, tids, runTryNum, halted, procVars,
                   process, input, power>>

\* wait for a pid that designates no process: schedul.getP asserts.
waitBadPid(t) ==
    /\ Running(t)
    /\ \E q \in Tid : q \notin processes
    /\ Bsod("map at")

-----------------------------------------------------------------------------
(* The scheduler *)

Scanning == power = "on" /\ current = NoThread /\ ~halted

\* Mutant of AllTried: off by one.
AllTriedButOne == runTryNum + 1 >= Len(threadFIFO)

AllTried == runTryNum >= Len(threadFIFO)

\* run(): every queued thread has been tried.
runIdle ==
    /\ Scanning
    /\ threadFIFO # <<>>
    /\ AllTried
    /\ runTryNum' = 0
    /\ halted' = TRUE
    /\ UNCHANGED <<processes, threads, tids, threadFIFO, current, procVars,
                   waitVars, process, input, power>>

\* run() takes the first tid of the queue.
Popping(t) ==
    /\ Scanning
    /\ threadFIFO # <<>>
    /\ ~AllTried
    /\ t = Head(threadFIFO)

\* The thread has been deleted since it was queued.
runDeleted ==
    /\ \E t \in Tid \ threads : Popping(t)
    /\ threadFIFO' = Tail(threadFIFO)
    /\ UNCHANGED <<processes, threads, tids, current, runTryNum, halted,
                   procVars, waitVars, process, input, power>>

\* Mutant of requeue: the blocked thread goes back to the front.
RequeueFront(t) ==
    /\ threadFIFO' = <<t>> \o Tail(threadFIFO)
    /\ runTryNum' = runTryNum + 1
    /\ UNCHANGED <<threads, current, halted, process, power>>

\* OK() is false.
requeue(t) ==
    /\ threadFIFO' = Append(Tail(threadFIFO), t)
    /\ runTryNum' = runTryNum + 1
    /\ UNCHANGED <<threads, current, halted, process, power>>

\* OK() is true: Thread::run.
launch(t) ==
    /\ threadFIFO' = Tail(threadFIFO)
    /\ current' = t
    /\ runTryNum' = 0
    /\ UNCHANGED <<threads, halted, process, power>>

runReady(t) ==
    /\ t \in threads /\ Popping(t)
    /\ Idle(t)
    /\ launch(t)
    /\ UNCHANGED <<processes, tids, procVars, waitVars, input>>

runBlocked(t) ==
    /\ t \in threads /\ Popping(t)
    /\ waited[t] = NoProcess /\ waiting[t] # {}
    /\ requeue(t)
    /\ UNCHANGED <<processes, tids, procVars, waitVars, input>>

\* The process of t has called free(): the checker of waitp calls nbwaitp again.
runRefuse(t) ==
    /\ t \in threads /\ Popping(t)
    /\ waited[t] \in Tid
    /\ Candidates(process[t], target[t]) # {}
    /\ Zombies(process[t], target[t]) = {}
    /\ refuse(t)
    /\ requeue(t)
    /\ UNCHANGED <<processes, tids, procVars, input>>

accept(t, tg) ==
    /\ waited' = [waited EXCEPT ![t] = NoProcess]
    /\ waiting' = [waiting EXCEPT ![t] = {}]
    /\ target' = [tg EXCEPT ![t] = AnyChild]
    /\ UNCHANGED waitings

runAcceptReap(t) ==
    /\ t \in threads /\ Popping(t)
    /\ waited[t] \in Tid
    /\ \E q \in Zombies(process[t], target[t]) :
        /\ deleteProcess(q)
        /\ accept(t, dangle(q))
    /\ launch(t)
    /\ UNCHANGED input

\* nbwaitp returns ECHILD: another thread of the process has reaped the son.
runAcceptNoChild(t) ==
    /\ t \in threads /\ Popping(t)
    /\ waited[t] \in Tid
    /\ Candidates(process[t], target[t]) = {}
    /\ accept(t, target)
    /\ launch(t)
    /\ UNCHANGED <<processes, tids, procVars, input>>

\* The window the thread reads has called free(): the checker of sysread calls
\* nbread again, which may find that another thread has read everything.
runRefuseRead(t) ==
    /\ t \in threads /\ Popping(t)
    /\ waited[t] \in Terminal \ input
    /\ refuse(t)
    /\ requeue(t)
    /\ UNCHANGED <<processes, tids, procVars, input>>

runAcceptRead(t) ==
    /\ t \in threads /\ Popping(t)
    /\ \E w \in input : waited[t] = w /\ consume(w)
    /\ accept(t, target)
    /\ launch(t)
    /\ UNCHANGED <<processes, tids, procVars>>

\* kloop, when rendering is due: a line has been typed in each window of L, whose
\* handleEvent appends it and calls free().
kloop(L) ==
    /\ input' = input \cup L
    /\ waited' = [t \in Tid |-> IF \E w \in L : t \in waitings[w]
                               THEN CHOOSE w \in L : t \in waitings[w]
                               ELSE waited[t]]
    /\ waitings' = [w \in Waitable |-> IF w \in L THEN {} ELSE waitings[w]]
    /\ UNCHANGED <<waiting, target>>

\* timerHandler in user mode when a quantum is over (Timer.tla counts ticks), or
\* sysleave when it could not return: the thread is queued, then kloop and run().
timerPreempt ==
    /\ power = "on" /\ current # NoThread
    /\ threadFIFO' = stopCurent
    /\ current' = NoThread
    /\ \E L \in SUBSET Terminal : kloop(L)
    /\ UNCHANGED <<processes, threads, tids, runTryNum, halted, procVars,
                   process, power>>

\* timerHandler while the processor sleeps in run().
timerHalted ==
    /\ power = "on" /\ halted
    /\ halted' = FALSE
    /\ \E L \in SUBSET Terminal : kloop(L)
    /\ UNCHANGED <<processes, threads, tids, threadFIFO, current, runTryNum,
                   procVars, process, power>>

\* kend() and bsod() loop for ever.
stopped == power # "on" /\ UNCHANGED vars

-----------------------------------------------------------------------------
syscall(t) ==
    \/ fork(t) \/ clone(t)
    \/ exit(t) \/ deleteBlocked(t) \/ texit(t) \/ exec(t)
    \/ \E tg \in Tid \cup {AnyChild} : waitReap(t, tg) \/ waitBlock(t, tg)
    \/ \E w \in Terminal : read(t, w) \/ readBlock(t, w)
    \/ waitBadPid(t)

run ==
    \/ runIdle \/ runDeleted
    \/ \E t \in Tid : \/ runReady(t) \/ runBlocked(t) \/ runRefuse(t)
                      \/ runAcceptReap(t) \/ runAcceptNoChild(t)
                      \/ runRefuseRead(t) \/ runAcceptRead(t)

Next ==
    \/ \E t \in Tid : syscall(t)
    \/ run
    \/ timerPreempt \/ timerHalted
    \/ stopped

Spec == Init /\ [][Next]_vars

\* The kernel executes run() until it launches a thread or halts, and the timer
\* keeps ticking.
Fairness == WF_vars(run) /\ WF_vars(timerPreempt) /\ WF_vars(timerHalted)
FairSpec == Spec /\ Fairness
-----------------------------------------------------------------------------
(* Safety *)

Queued(t) == \E i \in DOMAIN threadFIFO : threadFIFO[i] = t
Blocked(t) == waited[t] = NoProcess /\ waiting[t] # {}
InWait(t) == waiting[t] \cap Tid # {}

\* No thread is lost by the scheduler: whatever system calls, deletions and
\* preemptions happen, a registered thread is _current or in _threadFIFO.
NoThreadLost == \A t \in threads : t = current \/ Queued(t)

\* The bitset _tids, _threads, _processes and _groups agree: an identifier is
\* free exactly when nothing uses it, so fork and clone never hand out the tid of
\* a live thread or of a zombie, and none leaks (freeT, freeP).
TidsAccounted == tids = Tid \ (threads \cup processes \cup Groups)

\* "Reference between objects" of Process.h: Process::_threads and
\* Thread::_process are inverse, and only registered objects are linked.
ThreadsOwned ==
    \A t, p \in Tid : t \in pthreads[p] <=> /\ t \in threads
                                            /\ process[t] = p
                                            /\ p \in processes

\* The process hierarchy: _parent and _sons are inverse and every process but
\* init has a parent that exists, through fork, orphan and ~Process.
Hierarchy ==
    /\ parent[InitPid] = NoProcess
    /\ \A p \in processes \ {InitPid} : parent[p] \in processes \ {p}
    /\ \A p, q \in Tid : q \in sons[p] <=> q \in processes /\ parent[q] = p

\* ... and it has no cycle: no set of processes without init is closed under the
\* _parent links, so that they lead from every process to init.
RootedAtInit ==
    \A S \in SUBSET (processes \ {InitPid}) : S # {} => \E p \in S : parent[p] \in processes \ S

\* What exists: init, alive as long as the machine runs; zombies are processes,
\* _current is a thread, a thread belongs to a process, and the thread whose tid is
\* a pid is the main thread of that process.
Registered ==
    /\ InitPid \in processes
    /\ power = "on" => InitPid \notin terminated
    /\ terminated \subseteq processes
    /\ current \in threads \cup {NoThread}
    /\ \A t \in threads : process[t] \in processes
    /\ \A t \in threads \cap processes : process[t] = t

\* A process is a zombie exactly when it owns no thread, whichever of exit and
\* texit killed it and whichever thread of it was the last.
ZombieIffThreadless == \A p \in processes : p \in terminated <=> pthreads[p] = {}

\* assert(_mainTerminated) of Process::remThread: the last thread of a process
\* never leaves before its main thread has, in spite of exec and clone.
MainTerminatedFirst ==
    \A p \in processes : p \notin pthreads[p] /\ p \notin terminated => p \in mainTerminated

\* The two sides of the waiting protocol agree: a thread is registered in
\* _waitings exactly when it waits for the process and has not been woken; in
\* particular nothing is registered on a zombie that is about to be deleted
\* (~Waitable).
WaitersRegistered ==
    \A t \in Tid, w \in Waitable :
        t \in waitings[w] <=> /\ t \in threads
                              /\ waited[t] = NoProcess
                              /\ w \in waiting[t]

\* A thread that is blocked in wait and not woken still has to wait: it has a
\* candidate son and none of them is a zombie, although sons die, are reaped by
\* other threads and reuse pids meanwhile.  init is apart: see NoLostOrphan.
NoLostWakeup ==
    \A t \in threads : Blocked(t) /\ InWait(t) /\ process[t] # InitPid =>
        /\ Candidates(process[t], target[t]) # {}
        /\ Zombies(process[t], target[t]) = {}

\* A thread that is blocked on a text window has nothing to read there, although
\* several threads share the window and each line wakes all of them.
NoStrandedReader ==
    \A t \in threads : Blocked(t) => waiting[t] \cap input = {}

\* The processor is halted only when no thread can run: a pass of run() over a
\* queue that shrinks by deleted tids and holds duplicates misses nobody.
IdleOnlyIfAllBlocked == halted => \A t \in threads : Blocked(t)

\* The object graph (GraphInv): the system calls and ~Process keep identifiers,
\* ownership, zombies and the hierarchy right together, none of them alone.  A pid
\* is given back without looking at _threads, which is right because a zombie owns
\* no thread and only its own main thread could have its tid.
GraphInv == /\ Registered
            /\ TidsAccounted
            /\ ThreadsOwned
            /\ ZombieIffThreadless
            /\ Hierarchy

\* The objects of the process system are well typed and their graph is right,
\* whatever fork, clone, exec, exit, texit and wait do to it.
ObjectInv == TypeOK /\ GraphInv

\* What becomes of a thread: the scheduler never loses it, and if it is the last
\* of its process the main thread has left before.
ThreadInv == NoThreadLost /\ MainTerminatedFirst

\* The waiting protocol: both sides agree on who is registered, and a thread that
\* sleeps in wait still has a reason to.
WaitInv == WaitersRegistered /\ NoLostWakeup

\* Nobody is forgotten: a thread blocked on a window has nothing to read, and the
\* processor halts only if every thread is blocked.
NobodyForgotten == NoStrandedReader /\ IdleOnlyIfAllBlocked

-----------------------------------------------------------------------------
(* Liveness *)

\* Round robin starves nobody: a thread that can run is launched, unless it is
\* deleted or the machine stops.
ReadyThreadRuns ==
    \A t \in Tid : (t \in threads /\ Idle(t)) ~>
                   (current = t \/ t \notin threads \/ power # "on")

\* A thread (not of init) that waits for a son that is a zombie gets it, unless
\* another thread reaps the zombie first.
WaiterServed ==
    \A t \in Tid :
        (/\ t \in threads /\ InWait(t) /\ process[t] # InitPid
         /\ Zombies(process[t], target[t]) # {})
        ~> (~InWait(t) \/ Zombies(process[t], target[t]) = {} \/ power # "on")
=============================================================================
