--------------------------- MODULE ProcessesProofs ---------------------------
(***************************************************************************)
(* What the processes, their threads and the timer owe each other, for any *)
(* number of processes, threads and text windows and for any quanta: the   *)
(* objects refer to each other consistently; time slices; the waiting      *)
(* protocol of Waiting.h (no wake-up of wait is lost, no reader is left    *)
(* with a line to read, the processor halts only when every thread is      *)
(* blocked); and the life cycle of ProcessLife.                            *)
(***************************************************************************)
EXTENDS MCProcesses, MCScheduling, TLAPS

\* What the proofs use of the identifiers.
LEMMA TidFacts ==
    /\ InitPid \in Tid
    /\ NoThread \notin Tid /\ NoProcess \notin Tid
    /\ AnyChild \notin Tid /\ Gone \notin Tid
    /\ Tid \subseteq Waitable /\ Terminal \subseteq Waitable
BY BoundsAssumption DEF Tid, NoThread, NoProcess, InitPid, AnyChild, Gone, Waitable

USE TidFacts

\* The queue that run() leaves after it has taken the first tid.
LEMMA PopType ==
    ASSUME NEW t, Popping(t), QueueType
    PROVE  /\ t \in Tid
           /\ Tail(threadFIFO) \in Seq(Tid)
           /\ Append(Tail(threadFIFO), t) \in Seq(Tid)
BY DEF Popping, QueueType

\* What kloop leaves of the waiting protocol.
LEMMA KloopType ==
    ASSUME NEW L \in SUBSET Terminal, kloop(L), WaitType
    PROVE  /\ input' \subseteq Terminal
           /\ waited' \in [Tid -> Waitable \cup {NoProcess}]
           /\ waitings' \in [Waitable -> SUBSET Tid]
<1>1. input' \subseteq Terminal
  BY DEF kloop, WaitType
<1>2. waitings' \in [Waitable -> SUBSET Tid]
  BY DEF kloop, WaitType
<1>3. ASSUME NEW t \in Tid, \E w \in L : t \in waitings[w]
      PROVE  (CHOOSE w \in L : t \in waitings[w]) \in Waitable
  BY <1>3
<1> QED
  BY <1>1, <1>2, <1>3 DEF kloop, WaitType

LEMMA InitType == Init => TypeOK
<1>1. Init => SchedType
  BY DEF Init, SchedType
<1>2. Init => QueueType
  BY DEF Init, QueueType
<1>3. Init => ProcType
  BY DEF Init, ProcType
<1>4. Init => WaitType
  BY DEF Init, WaitType
<1> QED
  BY <1>1, <1>2, <1>3, <1>4 DEF TypeOK

LEMMA NextType == TypeOK /\ [Next]_vars => TypeOK'
<1> SUFFICES ASSUME TypeOK, [Next]_vars PROVE TypeOK'
    OBVIOUS
<1>0. SchedType /\ QueueType /\ ProcType /\ WaitType
  BY DEF TypeOK
<1> USE <1>0 DEF schedVars, procVars, waitVars, Running
<1>1. ASSUME NEW t \in Tid, fork(t) PROVE TypeOK'
  <2>1. SchedType'
    BY <1>1 DEF SchedType, ProcType, fork
  <2>2. QueueType'
    BY <1>1 DEF QueueType, SchedType, fork
  <2>3. ProcType'
    BY <1>1 DEF SchedType, ProcType, fork
  <2>4. WaitType'
    BY <1>1 DEF SchedType, ProcType, WaitType, fork
  <2> QED
    BY <2>1, <2>2, <2>3, <2>4 DEF TypeOK
<1>2. ASSUME NEW t \in Tid, clone(t) PROVE TypeOK'
  <2>1. SchedType'
    BY <1>2 DEF SchedType, ProcType, clone
  <2>2. QueueType'
    BY <1>2 DEF QueueType, SchedType, clone
  <2>3. ProcType'
    BY <1>2 DEF SchedType, ProcType, clone
  <2>4. WaitType'
    BY <1>2 DEF SchedType, ProcType, WaitType, clone
  <2> QED
    BY <2>1, <2>2, <2>3, <2>4 DEF TypeOK
<1>3. ASSUME NEW t \in Tid, exit(t) PROVE TypeOK'
  <2>1. SchedType'
    BY <1>3 DEF SchedType, ProcType, exit, terminate, freeT, deleteThreads,
        freeWaited, freeWaitings
  <2>2. QueueType'
    BY <1>3 DEF QueueType, SchedType, exit, terminate, freeT, deleteThreads,
        freeWaited, freeWaitings
  <2>3. ProcType'
    BY <1>3 DEF SchedType, ProcType, exit, terminate, freeT, deleteThreads,
        freeWaited, freeWaitings
  <2>4. WaitType'
    BY <1>3, ZenonT(60)
        DEF SchedType, ProcType, WaitType, exit, terminate, freeT,
        deleteThreads, freeWaited, freeWaitings
  <2> QED
    BY <2>1, <2>2, <2>3, <2>4 DEF TypeOK
<1>4. ASSUME NEW t \in Tid, texit(t) PROVE TypeOK'
  <2>1. SchedType'
    BY <1>4 DEF SchedType, ProcType, texit, terminate, freeT, deleteThreads,
        freeWaited, freeWaitings, mainTerm, remThread
  <2>2. QueueType'
    BY <1>4 DEF QueueType, SchedType, texit, terminate, freeT, deleteThreads,
        freeWaited, freeWaitings, mainTerm, remThread
  <2>3. ProcType'
    BY <1>4 DEF SchedType, ProcType, texit, terminate, freeT, deleteThreads,
        freeWaited, freeWaitings, mainTerm, remThread
  <2>4. WaitType'
    BY <1>4, ZenonT(60)
        DEF SchedType, ProcType, WaitType, texit, terminate, freeT,
        deleteThreads, freeWaited, freeWaitings, mainTerm, remThread
  <2> QED
    BY <2>1, <2>2, <2>3, <2>4 DEF TypeOK
<1>5. ASSUME NEW t \in Tid, exec(t) PROVE TypeOK'
  <2>1. SchedType'
    BY <1>5 DEF SchedType, ProcType, exec, freeT, deleteThreads, stopCurent
  <2>2. QueueType'
    <3>1. stopCurent \in Seq(Tid)
      BY <1>5 DEF exec, QueueType, stopCurent
    <3>2. process[t] \in Tid
      BY DEF ProcType
    <3> QED
      BY <1>5, <3>1, <3>2 DEF QueueType, exec
  <2>3. ProcType'
    BY <1>5 DEF SchedType, ProcType, exec, freeT, deleteThreads, stopCurent
  <2>4. WaitType'
    BY <1>5 DEF SchedType, ProcType, WaitType, exec, freeT, deleteThreads,
        stopCurent
  <2> QED
    BY <2>1, <2>2, <2>3, <2>4 DEF TypeOK
<1>6. ASSUME NEW t \in Tid, deleteBlocked(t) \/ waitBadPid(t) PROVE TypeOK'
  <2>1. SchedType'
    BY <1>6 DEF SchedType, ProcType, deleteBlocked, waitBadPid, Bsod
  <2>2. QueueType'
    BY <1>6 DEF QueueType, SchedType, deleteBlocked, waitBadPid, Bsod
  <2>3. ProcType'
    BY <1>6 DEF SchedType, ProcType, deleteBlocked, waitBadPid, Bsod
  <2>4. WaitType'
    BY <1>6 DEF SchedType, ProcType, WaitType, deleteBlocked, waitBadPid, Bsod
  <2> QED
    BY <2>1, <2>2, <2>3, <2>4 DEF TypeOK
<1>7. ASSUME NEW t \in Tid, NEW tg \in Tid \cup {AnyChild}, waitReap(t, tg)
       PROVE TypeOK'
  <2>1. SchedType'
    BY <1>7 DEF SchedType, ProcType, waitReap, Zombies, Candidates,
        deleteProcess, freeP, orphanParent, orphanSons, dangle
  <2>2. QueueType'
    BY <1>7 DEF QueueType, SchedType, waitReap, Zombies, Candidates,
        deleteProcess, freeP, orphanParent, orphanSons, dangle
  <2>3. ProcType'
    BY <1>7 DEF SchedType, ProcType, waitReap, Zombies, Candidates,
        deleteProcess, freeP, orphanParent, orphanSons, dangle
  <2>4. WaitType'
    BY <1>7 DEF SchedType, ProcType, WaitType, waitReap, Zombies, Candidates,
        deleteProcess, freeP, orphanParent, orphanSons, dangle
  <2> QED
    BY <2>1, <2>2, <2>3, <2>4 DEF TypeOK
<1>8. ASSUME NEW t \in Tid, NEW tg \in Tid \cup {AnyChild}, waitBlock(t, tg)
       PROVE TypeOK'
  <2>1. SchedType'
    BY <1>8 DEF SchedType, ProcType, waitBlock, wait, stopCurent
  <2>2. QueueType'
    BY <1>8 DEF QueueType, SchedType, waitBlock, wait, stopCurent
  <2>3. ProcType'
    BY <1>8 DEF SchedType, ProcType, waitBlock, wait, stopCurent
  <2>4. WaitType'
    BY <1>8 DEF SchedType, ProcType, WaitType, waitBlock, wait, stopCurent
  <2> QED
    BY <2>1, <2>2, <2>3, <2>4 DEF TypeOK
<1>9. ASSUME runIdle \/ runDeleted \/ stopped \/ UNCHANGED vars
       PROVE TypeOK'
  <2>1. SchedType'
    BY <1>9 DEF SchedType, ProcType, runIdle, runDeleted, stopped,
        vars
  <2>2. QueueType'
    BY <1>9, PopType DEF QueueType, SchedType, runIdle, runDeleted, 
        stopped, vars
  <2>3. ProcType'
    BY <1>9 DEF SchedType, ProcType, runIdle, runDeleted, stopped,
        vars
  <2>4. WaitType'
    BY <1>9 DEF SchedType, ProcType, WaitType, runIdle, runDeleted, 
        stopped, vars
  <2> QED
    BY <2>1, <2>2, <2>3, <2>4 DEF TypeOK
<1>10. ASSUME NEW t \in Tid, runReady(t) \/ runBlocked(t) PROVE TypeOK'
  <2>1. SchedType'
    BY <1>10 DEF SchedType, ProcType, runReady, runBlocked, launch, requeue
  <2>2. QueueType'
    <3>1. Tail(threadFIFO) \in Seq(Tid) /\ Append(Tail(threadFIFO), t) \in Seq(Tid)
      BY <1>10, PopType DEF runReady, runBlocked
    <3> QED
      BY <1>10, <3>1 DEF QueueType, runReady, runBlocked, launch, requeue
  <2>3. ProcType'
    BY <1>10 DEF SchedType, ProcType, runReady, runBlocked, launch, requeue
  <2>4. WaitType'
    BY <1>10 DEF SchedType, ProcType, WaitType, runReady, runBlocked, launch,
        requeue
  <2> QED
    BY <2>1, <2>2, <2>3, <2>4 DEF TypeOK
<1>11. ASSUME NEW t \in Tid, runRefuse(t) PROVE TypeOK'
  <2>1. SchedType'
    BY <1>11 DEF SchedType, ProcType, runRefuse, refuse, requeue
  <2>2. QueueType'
    BY <1>11, PopType DEF QueueType, SchedType, runRefuse, refuse, requeue
  <2>3. ProcType'
    BY <1>11 DEF SchedType, ProcType, runRefuse, refuse, requeue
  <2>4. WaitType'
    BY <1>11 DEF SchedType, ProcType, WaitType, runRefuse, refuse, requeue
  <2> QED
    BY <2>1, <2>2, <2>3, <2>4 DEF TypeOK
<1>12. ASSUME NEW t \in Tid, runAcceptReap(t) PROVE TypeOK'
  <2>1. SchedType'
    BY <1>12 DEF SchedType, ProcType, runAcceptReap, launch, accept, Zombies,
        Candidates, deleteProcess, freeP, orphanParent, orphanSons, dangle
  <2>2. QueueType'
    BY <1>12, PopType DEF QueueType, SchedType, runAcceptReap, launch, accept,
        Zombies, Candidates, deleteProcess, freeP, orphanParent, orphanSons,
        dangle
  <2>3. ProcType'
    BY <1>12 DEF SchedType, ProcType, runAcceptReap, launch, accept, Zombies,
        Candidates, deleteProcess, freeP, orphanParent, orphanSons, dangle
  <2>4. WaitType'
    <3>1. PICK q : accept(t, dangle(q))
      BY <1>12 DEF runAcceptReap
    <3>2. dangle(q) \in [Tid -> Tid \cup {AnyChild, Gone}]
      BY DEF WaitType, dangle
    <3>3. UNCHANGED <<input, power>>
      BY <1>12 DEF runAcceptReap, launch
    <3> QED
      BY <3>1, <3>2, <3>3 DEF WaitType, accept
  <2> QED
    BY <2>1, <2>2, <2>3, <2>4 DEF TypeOK
<1>13. ASSUME NEW t \in Tid, runAcceptNoChild(t) PROVE TypeOK'
  <2>1. SchedType'
    BY <1>13 DEF SchedType, ProcType, runAcceptNoChild, launch, accept
  <2>2. QueueType'
    BY <1>13, PopType DEF QueueType, SchedType, runAcceptNoChild, launch, accept
  <2>3. ProcType'
    BY <1>13 DEF SchedType, ProcType, runAcceptNoChild, launch, accept
  <2>4. WaitType'
    BY <1>13 DEF SchedType, ProcType, WaitType, runAcceptNoChild, launch, accept
  <2> QED
    BY <2>1, <2>2, <2>3, <2>4 DEF TypeOK
<1>14. ASSUME timerPreempt \/ timerHalted PROVE TypeOK'
  <2>1. SchedType'
    BY <1>14 DEF SchedType, ProcType, timerPreempt, timerHalted, stopCurent
  <2>2. QueueType'
    BY <1>14 DEF QueueType, SchedType, timerPreempt, timerHalted, stopCurent
  <2>3. ProcType'
    BY <1>14 DEF SchedType, ProcType, timerPreempt, timerHalted, stopCurent
  <2>4. WaitType'
    <3>1. PICK L \in SUBSET Terminal : kloop(L)
      BY <1>14 DEF timerPreempt, timerHalted
    <3>2. UNCHANGED <<waiting, target, power>>
      BY <1>14, <3>1 DEF timerPreempt, timerHalted, kloop
    <3> QED
      BY <3>1, <3>2, KloopType DEF WaitType
  <2> QED
    BY <2>1, <2>2, <2>3, <2>4 DEF TypeOK
<1>15. ASSUME NEW t \in Tid, NEW w \in Terminal, read(t, w) \/ readBlock(t, w)
       PROVE TypeOK'
  <2>1. SchedType'
    BY <1>15 DEF SchedType, ProcType, read, readBlock, wait, stopCurent
  <2>2. QueueType'
    <3>1. CASE read(t, w)
      BY <3>1 DEF QueueType, read
    <3>2. CASE readBlock(t, w)
      BY <3>2 DEF QueueType, readBlock, stopCurent
    <3> QED
      BY <1>15, <3>1, <3>2
  <2>3. ProcType'
    BY <1>15 DEF SchedType, ProcType, read, readBlock, wait, stopCurent
  <2>4. WaitType'
    <3>1. CASE read(t, w)
      BY <3>1 DEF WaitType, read, consume
    <3>2. CASE readBlock(t, w)
      BY <3>2 DEF WaitType, readBlock, wait
    <3> QED
      BY <1>15, <3>1, <3>2
  <2> QED
    BY <2>1, <2>2, <2>3, <2>4 DEF TypeOK
<1>16. ASSUME NEW t \in Tid, runRefuseRead(t) \/ runAcceptRead(t) PROVE TypeOK'
  <2>1. SchedType'
    BY <1>16 DEF SchedType, ProcType, runRefuseRead, runAcceptRead, launch, requeue
  <2>2. QueueType'
    BY <1>16, PopType DEF QueueType, runRefuseRead, runAcceptRead, launch, requeue
  <2>3. ProcType'
    BY <1>16 DEF SchedType, ProcType, runRefuseRead, runAcceptRead, launch, requeue
  <2>4. WaitType'
    <3>1. CASE runRefuseRead(t)
      BY <3>1 DEF WaitType, runRefuseRead, refuse, requeue
    <3>2. CASE runAcceptRead(t)
      <4>1. input' \subseteq Terminal /\ power' = power
        BY <3>2 DEF WaitType, runAcceptRead, consume, launch
      <4> QED
        BY <3>2, <4>1 DEF WaitType, runAcceptRead, accept
    <3> QED
      BY <1>16, <3>1, <3>2
  <2> QED
    BY <2>1, <2>2, <2>3, <2>4 DEF TypeOK
<1> QED BY <1>1, <1>2, <1>3, <1>4, <1>5, <1>6, <1>7, <1>8, <1>9, <1>10, <1>11,
    <1>12, <1>13, <1>14, <1>15, <1>16 DEF Next, syscall, run

\* Spec keeps the kernel's data structures well typed, for every size of the
\* bitset of tids.
THEOREM TypeCorrect == Spec => []TypeOK
<1>1. Init => TypeOK
  BY InitType
<1>2. TypeOK /\ [Next]_vars => TypeOK'
  BY NextType
<1> QED
  BY <1>1, <1>2, PTL DEF Spec

-----------------------------------------------------------------------------
(***************************************************************************)
(* The object graph.  TidsAccounted, ThreadsOwned, ZombieIffThreadless and *)
(* Hierarchy are inductive only together and with Registered: freeP gives  *)
(* the pid of a zombie back without looking at _threads, which is right    *)
(* because a zombie owns no thread and the thread with its tid could only  *)
(* be its own main thread.                                                 *)
(***************************************************************************)
\* All that GraphInv speaks of, but _current.
graphVars == <<processes, threads, tids, pthreads, parent, sons, terminated,
               process, power>>

LEMMA GraphUnchanged ==
    ASSUME GraphInv, UNCHANGED graphVars, current' \in threads \cup {NoThread}
    PROVE  GraphInv'
BY DEF GraphInv, graphVars, Registered, TidsAccounted, ThreadsOwned,
       ZombieIffThreadless, Hierarchy

\* A failed assertion or kend() changes power only, and never to "on".
LEMMA GraphPowerOff ==
    ASSUME GraphInv, power' # "on",
           UNCHANGED <<processes, threads, tids, pthreads, parent, sons, terminated,
                       process, current>>
    PROVE  GraphInv'
BY DEF GraphInv, Registered, TidsAccounted, ThreadsOwned, ZombieIffThreadless,
       Hierarchy

LEMMA GraphInit == Init => GraphInv
<1> SUFFICES ASSUME Init PROVE GraphInv
    OBVIOUS
<1>1. Registered
  BY DEF Init, Registered
<1>2. TidsAccounted
  BY DEF Init, TidsAccounted, Groups
<1>3. ThreadsOwned
  BY DEF Init, ThreadsOwned
<1>4. ZombieIffThreadless
  BY DEF Init, ZombieIffThreadless
<1>5. Hierarchy
  BY DEF Init, Hierarchy
<1> QED
  BY <1>1, <1>2, <1>3, <1>4, <1>5 DEF GraphInv

LEMMA GraphFork ==
    ASSUME TypeOK, GraphInv, NEW t \in Tid, fork(t)
    PROVE  GraphInv'
<1> USE DEF TypeOK, SchedType, ProcType
<1>1. t \in threads /\ process[t] \in processes /\ process[t] \in Tid
  BY DEF fork, Running, GraphInv, Registered
<1>2. PICK q \in tids :
        /\ tids' = tids \ {q}
        /\ processes' = processes \cup {q}
        /\ threads' = threads \cup {q}
        /\ pthreads' = [pthreads EXCEPT ![q] = {q}]
        /\ process' = [process EXCEPT ![q] = q]
        /\ parent' = [parent EXCEPT ![q] = process[t]]
        /\ sons' = [sons EXCEPT ![process[t]] = @ \cup {q}]
  BY DEF fork
<1>3. UNCHANGED <<current, terminated, power>>
  BY DEF fork
<1>4. q \in Tid /\ q \notin threads /\ q \notin processes /\ q # InitPid
  BY DEF GraphInv, TidsAccounted, Groups
<1>5. Registered'
  BY <1>1, <1>2, <1>3, <1>4 DEF GraphInv, Registered
<1>6. TidsAccounted'
  BY <1>2, <1>4 DEF GraphInv, TidsAccounted
<1>7. ThreadsOwned'
  BY <1>1, <1>2, <1>4 DEF GraphInv, ThreadsOwned, Registered
<1>8. ZombieIffThreadless'
  BY <1>2, <1>3, <1>4 DEF GraphInv, ZombieIffThreadless, Registered
<1>9. Hierarchy'
  BY <1>1, <1>2, <1>4 DEF GraphInv, Hierarchy
<1> QED
  BY <1>5, <1>6, <1>7, <1>8, <1>9 DEF GraphInv

LEMMA GraphClone ==
    ASSUME TypeOK, GraphInv, NEW t \in Tid, clone(t)
    PROVE  GraphInv'
<1> USE DEF TypeOK, SchedType, ProcType
<1>1. t \in threads /\ process[t] \in processes /\ process[t] \in Tid
  BY DEF clone, Running, GraphInv, Registered
<1>2. PICK q \in tids :
        /\ tids' = tids \ {q}
        /\ threads' = threads \cup {q}
        /\ pthreads' = [pthreads EXCEPT ![process[t]] = @ \cup {q}]
        /\ process' = [process EXCEPT ![q] = process[t]]
  BY DEF clone
<1>3. UNCHANGED <<processes, current, parent, sons, terminated, power>>
  BY DEF clone
<1>4. q \in Tid /\ q \notin threads /\ q \notin processes /\ q # InitPid
  BY DEF GraphInv, TidsAccounted, Groups
<1>5. Registered'
  BY <1>1, <1>2, <1>3, <1>4 DEF GraphInv, Registered
<1>6. TidsAccounted'
  BY <1>2, <1>3, <1>4 DEF GraphInv, TidsAccounted
<1>7. ThreadsOwned'
  BY <1>1, <1>2, <1>3, <1>4 DEF GraphInv, ThreadsOwned, Registered
<1>8. ZombieIffThreadless'
  BY <1>1, <1>2, <1>3, <1>4 DEF GraphInv, ZombieIffThreadless, ThreadsOwned
<1>9. Hierarchy'
  BY <1>3 DEF GraphInv, Hierarchy
<1> QED
  BY <1>5, <1>6, <1>7, <1>8, <1>9 DEF GraphInv

LEMMA GraphExit ==
    ASSUME TypeOK, GraphInv, NEW t \in Tid, exit(t)
    PROVE  GraphInv'
<1> USE DEF TypeOK, SchedType, ProcType
<1> DEFINE p == process[t]
<1>1. t \in threads /\ p \in processes /\ p \in Tid /\ power = "on"
  BY DEF exit, Running, GraphInv, Registered
<1>2. /\ threads' = threads \ pthreads[p]
      /\ tids' = tids \cup freeT(pthreads[p])
      /\ process' = deleteThreads(pthreads[p])
      /\ pthreads' = [pthreads EXCEPT ![p] = {}]
      /\ terminated' = terminated \cup {p}
      /\ current' = NoThread
      /\ p = InitPid => power' = "kend"
      /\ p # InitPid => power' = power
      /\ UNCHANGED <<processes, parent, sons>>
  BY DEF exit, terminate
<1> HIDE DEF p
<1>3. Registered'
  BY <1>1, <1>2 DEF GraphInv, Registered, deleteThreads
<1>4. TidsAccounted'
  BY <1>1, <1>2 DEF GraphInv, TidsAccounted, freeT, ThreadsOwned
<1>5. ThreadsOwned'
  BY <1>1, <1>2 DEF GraphInv, ThreadsOwned, deleteThreads
<1>6. ZombieIffThreadless'
  BY <1>1, <1>2 DEF GraphInv, ZombieIffThreadless
<1>7. Hierarchy'
  BY <1>2 DEF GraphInv, Hierarchy
<1> QED
  BY <1>3, <1>4, <1>5, <1>6, <1>7 DEF GraphInv

LEMMA GraphTexit ==
    ASSUME TypeOK, GraphInv, NEW t \in Tid, texit(t)
    PROVE  GraphInv'
<1> USE DEF TypeOK, SchedType, ProcType
<1> DEFINE p == process[t]
<1>1. t \in threads /\ p \in processes /\ p \in Tid /\ power = "on"
  BY DEF texit, Running, GraphInv, Registered
<1>2. /\ threads' = threads \ {t}
      /\ tids' = tids \cup freeT({t})
      /\ process' = deleteThreads({t})
      /\ pthreads' = [pthreads EXCEPT ![p] = @ \ {t}]
      /\ pthreads[p] \ {t} = {} => terminated' = terminated \cup {p}
      /\ pthreads[p] \ {t} # {} => terminated' = terminated
      /\ current' = NoThread
      /\ power' # power => power' = "kend"
      /\ p = InitPid /\ pthreads[p] \ {t} = {} => power' = "kend"
      /\ UNCHANGED <<processes, parent, sons>>
  BY DEF texit, terminate, remThread
<1> HIDE DEF p
<1>3. Registered'
  BY <1>1, <1>2 DEF GraphInv, Registered, deleteThreads
<1>4. TidsAccounted'
  BY <1>1, <1>2 DEF GraphInv, TidsAccounted, freeT
<1>5. ThreadsOwned'
  BY <1>1, <1>2 DEF GraphInv, ThreadsOwned, deleteThreads, p
<1>6. ZombieIffThreadless'
  BY <1>1, <1>2 DEF GraphInv, ZombieIffThreadless, ThreadsOwned, p
<1>7. Hierarchy'
  BY <1>2 DEF GraphInv, Hierarchy
<1> QED
  BY <1>3, <1>4, <1>5, <1>6, <1>7 DEF GraphInv

LEMMA GraphExec ==
    ASSUME TypeOK, GraphInv, NEW t \in Tid, exec(t)
    PROVE  GraphInv'
<1> USE DEF TypeOK, SchedType, ProcType
<1> DEFINE p == process[t]
<1>1. t \in threads /\ p \in processes /\ p \in Tid
  BY DEF exec, Running, GraphInv, Registered
<1>2. /\ threads' = (threads \ pthreads[p]) \cup {p}
      /\ tids' = tids \cup freeT(pthreads[p])
      /\ process' = [deleteThreads(pthreads[p]) EXCEPT ![p] = p]
      /\ pthreads' = [pthreads EXCEPT ![p] = {p}]
      /\ current' = NoThread
      /\ UNCHANGED <<processes, parent, sons, terminated, power>>
  BY DEF exec
<1>3. p \notin terminated
  BY <1>1 DEF GraphInv, ZombieIffThreadless, ThreadsOwned
<1> HIDE DEF p
<1>4. Registered'
  BY <1>1, <1>2 DEF GraphInv, Registered, deleteThreads
<1>5. TidsAccounted'
  BY <1>1, <1>2 DEF GraphInv, TidsAccounted, freeT, ThreadsOwned
<1>6. ThreadsOwned'
  BY <1>1, <1>2 DEF GraphInv, ThreadsOwned, Registered, deleteThreads
<1>7. ZombieIffThreadless'
  BY <1>1, <1>2, <1>3 DEF GraphInv, ZombieIffThreadless
<1>8. Hierarchy'
  BY <1>2 DEF GraphInv, Hierarchy
<1> QED
  BY <1>4, <1>5, <1>6, <1>7, <1>8 DEF GraphInv

\* ~Process, called by a thread of the parent of the zombie q.
LEMMA GraphReap ==
    ASSUME TypeOK, GraphInv, power = "on",
           NEW q, q \in terminated, NEW p \in Tid, q \in sons[p], deleteProcess(q),
           UNCHANGED <<threads, process, power>>, current' \in threads \cup {NoThread}
    PROVE  GraphInv'
<1> USE DEF TypeOK, SchedType, ProcType
<1>1. q \in processes /\ q \in Tid /\ q # InitPid /\ parent[q] = p
  BY DEF GraphInv, Registered, Hierarchy
<1>2. q \notin threads /\ \A t \in threads : process[t] # q
  BY <1>1 DEF GraphInv, Registered, ZombieIffThreadless, ThreadsOwned
<1>3. /\ processes' = processes \ {q}
      /\ tids' = tids \cup freeP(q)
      /\ parent' = orphanParent(q)
      /\ sons' = orphanSons(q)
      /\ terminated' = terminated \ {q}
      /\ UNCHANGED pthreads
  BY DEF deleteProcess
<1>4. Registered'
  BY <1>1, <1>2, <1>3 DEF GraphInv, Registered
<1>5. TidsAccounted'
  BY <1>1, <1>2, <1>3 DEF GraphInv, TidsAccounted, freeP, Groups
<1>6. ThreadsOwned'
  BY <1>1, <1>2, <1>3 DEF GraphInv, ThreadsOwned
<1>7. ZombieIffThreadless'
  BY <1>1, <1>3 DEF GraphInv, ZombieIffThreadless
<1>8. Hierarchy'
  <2> USE DEF GraphInv, Hierarchy
  <2>1. parent'[InitPid] = NoProcess
    BY <1>1, <1>3 DEF orphanParent
  <2>2. ASSUME NEW r \in processes' \ {InitPid}
        PROVE parent'[r] \in processes' \ {r}
    BY <1>1, <1>3 DEF orphanParent, Registered
  <2>3. ASSUME NEW x \in Tid, NEW r \in Tid
        PROVE r \in sons'[x] <=> r \in processes' /\ parent'[r] = x
    <3>1. CASE x = q
      BY <1>1, <1>3, <3>1 DEF orphanSons, orphanParent
    <3>2. CASE x # q
      BY <1>1, <1>3, <3>2 DEF orphanSons, orphanParent
    <3> QED
      BY <3>1, <3>2
  <2> QED
    BY <2>1, <2>2, <2>3
<1> QED
  BY <1>4, <1>5, <1>6, <1>7, <1>8 DEF GraphInv

LEMMA GraphNext == TypeOK /\ GraphInv /\ [Next]_vars => GraphInv'
<1> SUFFICES ASSUME TypeOK, GraphInv, [Next]_vars PROVE GraphInv'
    OBVIOUS
<1>1. ASSUME NEW t \in Tid, fork(t) \/ clone(t) \/ exit(t) \/ texit(t) \/ exec(t)
      PROVE GraphInv'
  BY <1>1, GraphFork, GraphClone, GraphExit, GraphTexit, GraphExec
<1>2. ASSUME NEW t \in Tid, deleteBlocked(t) \/ waitBadPid(t) PROVE GraphInv'
  BY <1>2, GraphPowerOff DEF deleteBlocked, waitBadPid, Bsod, schedVars, procVars
<1>3. ASSUME NEW t \in Tid, NEW tg, waitReap(t, tg) PROVE GraphInv'
  <2>1. process[t] \in Tid /\ current' \in threads \cup {NoThread}
    BY <1>3 DEF waitReap, TypeOK, ProcType, GraphInv, Registered
  <2>2. PICK q \in Zombies(process[t], tg) : deleteProcess(q)
    BY <1>3 DEF waitReap
  <2>3. q \in terminated /\ q \in sons[process[t]]
    BY DEF Zombies, Candidates
  <2> QED
    BY <1>3, <2>1, <2>2, <2>3, GraphReap DEF waitReap, Running
<1>4. ASSUME NEW t \in Tid, NEW tg, waitBlock(t, tg) PROVE GraphInv'
  BY <1>4, GraphUnchanged DEF waitBlock, graphVars, procVars
<1>9. ASSUME NEW t \in Tid, NEW w, read(t, w) \/ readBlock(t, w) PROVE GraphInv'
  <2>1. UNCHANGED graphVars /\ current' \in {current, NoThread}
    BY <1>9 DEF read, readBlock, graphVars, schedVars, procVars
  <2> QED
    BY <2>1, GraphUnchanged DEF GraphInv, Registered
<1>5. ASSUME runIdle \/ runDeleted \/ timerHalted \/ timerPreempt PROVE GraphInv'
  <2>1. UNCHANGED graphVars /\ current' \in {current, NoThread}
    BY <1>5 DEF runIdle, runDeleted, timerHalted, timerPreempt, graphVars, procVars
  <2> QED
    BY <2>1, GraphUnchanged DEF GraphInv, Registered
<1>6. ASSUME NEW t \in Tid,
             \/ runReady(t) \/ runBlocked(t) \/ runRefuse(t) \/ runAcceptNoChild(t)
             \/ runRefuseRead(t) \/ runAcceptRead(t)
      PROVE GraphInv'
  <2>1. UNCHANGED graphVars /\ current' \in {current, t} /\ t \in threads
    BY <1>6 DEF runReady, runBlocked, runRefuse, runAcceptNoChild, runRefuseRead,
                runAcceptRead, launch, requeue, graphVars, procVars
  <2> QED
    BY <2>1, GraphUnchanged DEF GraphInv, Registered
<1>7. ASSUME NEW t \in Tid, runAcceptReap(t) PROVE GraphInv'
  <2>1. process[t] \in Tid /\ current' \in threads \cup {NoThread} /\ power = "on"
    BY <1>7 DEF runAcceptReap, launch, Popping, Scanning, TypeOK, ProcType
  <2>2. PICK q \in Zombies(process[t], target[t]) : deleteProcess(q)
    BY <1>7 DEF runAcceptReap
  <2>3. q \in terminated /\ q \in sons[process[t]]
    BY DEF Zombies, Candidates
  <2> QED
    BY <1>7, <2>1, <2>2, <2>3, GraphReap DEF runAcceptReap, launch
<1>8. ASSUME stopped \/ UNCHANGED vars PROVE GraphInv'
  <2>1. UNCHANGED graphVars /\ UNCHANGED current
    BY <1>8 DEF stopped, vars, schedVars, procVars, graphVars
  <2> QED
    BY <2>1, GraphUnchanged DEF GraphInv, Registered
<1> QED
  BY <1>1, <1>2, <1>3, <1>4, <1>5, <1>6, <1>7, <1>8, <1>9 DEF Next, syscall, run

\* The kernel's object graph is consistent in every reachable state.
THEOREM ObjectGraph == Spec => []GraphInv
<1>1. Init => GraphInv
  BY GraphInit
<1>2. TypeOK /\ GraphInv /\ [Next]_vars => GraphInv'
  BY GraphNext
<1> QED
  BY <1>1, <1>2, TypeCorrect, PTL DEF Spec

\* The objects of the kernel are well typed and refer to each other consistently,
\* whatever sequence of fork, clone, exec, exit, texit and wait the threads make.
THEOREM ObjectsSound == Spec => []ObjectInv
BY TypeCorrect, ObjectGraph, PTL DEF ObjectInv

\* Identifiers are never handed out twice nor leaked: _tids agrees with the maps
\* of the scheduler after any sequence of fork, clone, exit, texit, exec and wait.
THEOREM TidsNeverShared == Spec => []TidsAccounted
<1>1. GraphInv => TidsAccounted
  BY DEF GraphInv
<1> QED
  BY <1>1, ObjectGraph, PTL

\* Process::_parent and Process::_sons always describe one hierarchy.
THEOREM HierarchyKept == Spec => []Hierarchy
<1>1. GraphInv => Hierarchy
  BY DEF GraphInv
<1> QED
  BY <1>1, ObjectGraph, PTL

\* A process is a zombie exactly when its last thread is gone.
THEOREM ZombiesThreadless == Spec => []ZombieIffThreadless
<1>1. GraphInv => ZombieIffThreadless
  BY DEF GraphInv
<1> QED
  BY <1>1, ObjectGraph, PTL

\* Process::_threads, Thread::_process and Scheduler::_threads always agree.
THEOREM OwnershipKept == Spec => []ThreadsOwned
<1>1. GraphInv => ThreadsOwned
  BY DEF GraphInv
<1> QED
  BY <1>1, ObjectGraph, PTL
-----------------------------------------------------------------------------
(***************************************************************************)
(* The fate of the threads.  ThreadInv is inductive in the states where    *)
(* the object graph is right: exit and exec lose no thread because the     *)
(* threads they take out of the scheduler are exactly those of the process *)
(* of the running thread (ThreadsOwned).                                   *)
(***************************************************************************)
\* A failed assertion leaves the objects as they are.
LEMMA BsodKeeps ==
    ASSUME NEW t, deleteBlocked(t) \/ waitBadPid(t)
    PROVE  UNCHANGED <<schedVars, procVars, waitVars, process, input>>
<1>1. PICK a : Bsod(a)
  BY Zenon DEF deleteBlocked, waitBadPid
<1> QED
  BY <1>1 DEF Bsod, schedVars

\* t is in the queue s.
In(s, t) == \E i \in DOMAIN s : s[i] = t

LEMMA InAppend ==
    ASSUME NEW s \in Seq(Tid), NEW x, NEW t, In(s, t) \/ t = x
    PROVE  In(Append(s, x), t)
<1>1. CASE In(s, t)
  <2>1. PICK i \in DOMAIN s : s[i] = t
    BY <1>1 DEF In
  <2>2. i \in DOMAIN Append(s, x) /\ Append(s, x)[i] = t
    BY <2>1
  <2> QED
    BY <2>2 DEF In
<1>2. CASE t = x
  <2>1. Len(s) + 1 \in DOMAIN Append(s, x) /\ Append(s, x)[Len(s) + 1] = t
    BY <1>2
  <2> QED
    BY <2>1 DEF In
<1> QED
  BY <1>1, <1>2

LEMMA InTail ==
    ASSUME NEW s \in Seq(Tid), s # <<>>, NEW t, In(s, t), t # Head(s)
    PROVE  In(Tail(s), t)
<1>1. PICK i \in DOMAIN s : s[i] = t
  BY DEF In
<1>2. i # 1
  BY <1>1
<1>3. i - 1 \in DOMAIN Tail(s) /\ Tail(s)[i - 1] = t
  BY <1>1, <1>2
<1> QED
  BY <1>3 DEF In

\* A new thread, or the one that stops, is queued; no other is created.
LEMMA QueuedAppend ==
    ASSUME QueueType, NoThreadLost, NEW x, threadFIFO' = Append(threadFIFO, x),
           threads' \subseteq threads \cup {x}, current' = current \/ current = x
    PROVE  NoThreadLost'
<1> SUFFICES ASSUME NEW t \in threads' PROVE t = current' \/ In(threadFIFO', t)
    BY DEF NoThreadLost, Queued, In
<1>1. t = current \/ In(threadFIFO, t) \/ t = x
  BY DEF NoThreadLost, Queued, In
<1> QED
  BY <1>1, InAppend DEF QueueType

\* run() takes t from the queue and launches it, puts it back or drops it.
LEMMA QueuedPop ==
    ASSUME SchedType, QueueType, NoThreadLost, NEW t, Popping(t), UNCHANGED threads,
           \/ threadFIFO' = Tail(threadFIFO) /\ (current' = t \/ t \notin threads)
           \/ threadFIFO' = Append(Tail(threadFIFO), t)
    PROVE  NoThreadLost'
<1> SUFFICES ASSUME NEW u \in threads' PROVE u = current' \/ In(threadFIFO', u)
    BY DEF NoThreadLost, Queued, In
<1>1. u # NoThread => In(threadFIFO, u)
  BY DEF NoThreadLost, Queued, In, Popping, Scanning
<1>2. threadFIFO # <<>> /\ t = Head(threadFIFO) /\ Tail(threadFIFO) \in Seq(Tid)
  BY DEF Popping, QueueType
<1>3. CASE u = t
  BY <1>2, <1>3, InAppend
<1>4. CASE u # t
  <2>1. In(Tail(threadFIFO), u)
    BY <1>1, <1>2, <1>4, InTail DEF QueueType, SchedType
  <2> QED
    BY <1>2, <2>1, InAppend
<1> QED
  BY <1>3, <1>4

\* A step that changes neither the threads nor the queue nor _current.
LEMMA QueuedSame ==
    ASSUME NoThreadLost, UNCHANGED <<threads, threadFIFO>>,
           current' = current \/ current \notin threads'
    PROVE  NoThreadLost'
BY DEF NoThreadLost, Queued

LEMMA ThreadsQueued ==
    ASSUME TypeOK, GraphInv, NoThreadLost, [Next]_vars
    PROVE  NoThreadLost'
<1>0. SchedType /\ QueueType /\ ProcType
  BY DEF TypeOK
<1> USE <1>0
<1>1. ASSUME NEW t \in Tid, fork(t) \/ clone(t) PROVE NoThreadLost'
  <2>1. PICK q : threadFIFO' = Append(threadFIFO, q) /\ threads' = threads \cup {q}
    BY <1>1 DEF fork, clone
  <2> QED
    BY <1>1, <2>1, QueuedAppend DEF fork, clone
<1>2. ASSUME NEW t \in Tid, exit(t) \/ texit(t) PROVE NoThreadLost'
  <2>1. t \in pthreads[process[t]]
    BY <1>2 DEF exit, texit, Running, GraphInv, Registered, ThreadsOwned, ProcType
  <2>2. threads' \subseteq threads \ {t} /\ threadFIFO' = threadFIFO /\ current = t
    BY <1>2, <2>1 DEF exit, texit, Running
  <2> QED
    BY <2>2 DEF NoThreadLost, Queued
<1>3. ASSUME NEW t \in Tid, exec(t) PROVE NoThreadLost'
  <2> DEFINE p == process[t]
  <2>1. /\ threadFIFO' = Append(Append(threadFIFO, current), p)
        /\ threads' \subseteq threads \cup {p}
        /\ current \in Tid
    BY <1>3 DEF exec, stopCurent, Running
  <2> HIDE DEF p
  <2>2. Append(threadFIFO, current) \in Seq(Tid)
    BY <2>1 DEF QueueType
  <2>3. ASSUME NEW u \in threads' PROVE In(threadFIFO', u)
    <3>1. u = p \/ u = current \/ In(threadFIFO, u)
      BY <2>1 DEF NoThreadLost, Queued, In
    <3>2. u # p => In(Append(threadFIFO, current), u)
      BY <2>1, <3>1, InAppend DEF QueueType
    <3> QED
      BY <2>1, <2>2, <3>2, InAppend
  <2> QED
    BY <2>3 DEF NoThreadLost, Queued, In
<1>4. ASSUME NEW t \in Tid, NEW tg, waitBlock(t, tg) PROVE NoThreadLost'
  BY <1>4, QueuedAppend DEF waitBlock, stopCurent
<1>5. ASSUME NEW t \in Tid, NEW w, readBlock(t, w) PROVE NoThreadLost'
  BY <1>5, QueuedAppend DEF readBlock, stopCurent
<1>6. ASSUME timerPreempt PROVE NoThreadLost'
  BY <1>6, QueuedAppend DEF timerPreempt, stopCurent
<1>7. ASSUME runDeleted PROVE NoThreadLost'
  BY <1>7, QueuedPop DEF runDeleted
<1>8. ASSUME NEW t \in Tid,
             \/ runReady(t) \/ runBlocked(t) \/ runRefuse(t) \/ runAcceptReap(t)
             \/ runAcceptNoChild(t) \/ runRefuseRead(t) \/ runAcceptRead(t)
      PROVE NoThreadLost'
  <2>1. \/ Popping(t) /\ launch(t)
        \/ Popping(t) /\ requeue(t)
    BY <1>8 DEF runReady, runBlocked, runRefuse, runAcceptReap, runAcceptNoChild,
                runRefuseRead, runAcceptRead
  <2> QED
    BY <2>1, QueuedPop DEF launch, requeue
<1>9. ASSUME NEW t \in Tid, NEW tg,
             \/ deleteBlocked(t) \/ waitBadPid(t) \/ waitReap(t, tg) \/ read(t, tg)
      PROVE NoThreadLost'
  <2>1. CASE deleteBlocked(t) \/ waitBadPid(t)
    BY <2>1, BsodKeeps, QueuedSame DEF schedVars
  <2>2. CASE waitReap(t, tg)
    BY <2>2, QueuedSame DEF waitReap
  <2>3. CASE read(t, tg)
    BY <2>3, QueuedSame DEF read, schedVars
  <2> QED
    BY <1>9, <2>1, <2>2, <2>3
<1>10. ASSUME runIdle \/ timerHalted \/ stopped \/ UNCHANGED vars PROVE NoThreadLost'
  <2>1. UNCHANGED <<threads, threadFIFO, current>>
    BY <1>10 DEF runIdle, timerHalted, stopped, vars, schedVars
  <2> QED
    BY <2>1, QueuedSame
<1> QED
  BY <1>1, <1>2, <1>3, <1>4, <1>5, <1>6, <1>7, <1>8, <1>9, <1>10 DEF Next, syscall, run

LEMMA MainsTerminated ==
    ASSUME TypeOK, GraphInv, MainTerminatedFirst, [Next]_vars
    PROVE  MainTerminatedFirst'
<1> USE DEF TypeOK, SchedType, ProcType
<1>1. ASSUME NEW t \in Tid, fork(t) \/ clone(t) \/ exit(t) \/ exec(t)
      PROVE MainTerminatedFirst'
  <2>1. process[t] \in Tid
    OBVIOUS
  <2>2. CASE fork(t)
    BY <2>2 DEF MainTerminatedFirst, fork
  <2>3. CASE clone(t)
    BY <2>1, <2>3 DEF MainTerminatedFirst, clone
  <2>4. CASE exit(t)
    BY <2>1, <2>4 DEF MainTerminatedFirst, exit, terminate
  <2>5. CASE exec(t)
    BY <2>1, <2>5 DEF MainTerminatedFirst, exec
  <2> QED
    BY <1>1, <2>2, <2>3, <2>4, <2>5
<1>2. ASSUME NEW t \in Tid, texit(t) PROVE MainTerminatedFirst'
  <2> DEFINE p == process[t]
  <2>1. /\ p \in Tid
        /\ processes' = processes
        /\ mainTerminated' = mainTerminated \cup ({p} \cap {t})
        /\ pthreads' = [pthreads EXCEPT ![p] = @ \ {t}]
        /\ terminated \subseteq terminated'
    BY <1>2 DEF texit, terminate, mainTerm, remThread
  <2> HIDE DEF p
  <2> QED
    BY <2>1 DEF MainTerminatedFirst
<1>3. ASSUME NEW q, deleteProcess(q) PROVE MainTerminatedFirst'
  BY <1>3 DEF MainTerminatedFirst, deleteProcess
<1>4. ASSUME UNCHANGED <<processes, procVars>> PROVE MainTerminatedFirst'
  BY <1>4 DEF MainTerminatedFirst, procVars
<1>5. \/ \E t \in Tid : fork(t) \/ clone(t) \/ exit(t) \/ exec(t) \/ texit(t)
      \/ \E q : deleteProcess(q)
      \/ UNCHANGED <<processes, procVars>>
  <2>1. ASSUME NEW t \in Tid, syscall(t)
        PROVE \/ fork(t) \/ clone(t) \/ exit(t) \/ exec(t) \/ texit(t)
              \/ \E q : deleteProcess(q)
              \/ UNCHANGED <<processes, procVars>>
    <3>1. CASE deleteBlocked(t) \/ waitBadPid(t)
      BY <3>1, BsodKeeps DEF schedVars
    <3>2. CASE \E tg \in Tid \cup {AnyChild} : waitReap(t, tg) \/ waitBlock(t, tg)
      BY <3>2 DEF waitReap, waitBlock
    <3>3. CASE \E w \in Terminal : read(t, w) \/ readBlock(t, w)
      BY <3>3 DEF read, readBlock, schedVars
    <3> QED
      BY <2>1, <3>1, <3>2, <3>3 DEF syscall
  <2>2. ASSUME run PROVE (\E q : deleteProcess(q)) \/ UNCHANGED <<processes, procVars>>
    BY <2>2 DEF run, runIdle, runDeleted, runReady, runBlocked, runRefuse,
                runAcceptReap, runAcceptNoChild, runRefuseRead, runAcceptRead, procVars
  <2>3. ASSUME timerPreempt \/ timerHalted \/ stopped \/ UNCHANGED vars
        PROVE UNCHANGED <<processes, procVars>>
    BY <2>3 DEF timerPreempt, timerHalted, stopped, vars, schedVars, procVars
  <2> QED
    BY <2>1, <2>2, <2>3 DEF Next
<1> QED
  BY <1>1, <1>2, <1>3, <1>4, <1>5

\* The scheduler loses no thread, and no process dies of its last thread before
\* its main thread has terminated, whatever the threads call and whenever they are
\* preempted.
THEOREM ThreadsKept == Spec => []ThreadInv
<1>1. Init => ThreadInv
  <2> SUFFICES ASSUME Init PROVE ThreadInv
    OBVIOUS
  <2>1. NoThreadLost
    BY DEF Init, NoThreadLost, Queued
  <2>2. MainTerminatedFirst
    BY DEF Init, MainTerminatedFirst
  <2> QED
    BY <2>1, <2>2 DEF ThreadInv
<1>2. TypeOK /\ GraphInv /\ ThreadInv /\ [Next]_vars => ThreadInv'
  BY ThreadsQueued, MainsTerminated DEF ThreadInv
<1> QED
  BY <1>1, <1>2, TypeCorrect, ObjectGraph, PTL DEF Spec

-----------------------------------------------------------------------------
(***************************************************************************)
(* The tree.  RootedAtInit is inductive next to Hierarchy.  A new process  *)
(* is below its parent, so a set with it has the exit that the rest of the *)
(* set has, or that of the new process if it is alone.  The sons of a      *)
(* deleted process come under init, and nobody else is below it.           *)
(***************************************************************************)
LEMMA RootedSame ==
    ASSUME RootedAtInit, UNCHANGED <<processes, parent>>
    PROVE  RootedAtInit'
BY DEF RootedAtInit

LEMMA RootedFork ==
    ASSUME TypeOK, GraphInv, RootedAtInit, NEW t \in Tid, fork(t)
    PROVE  RootedAtInit'
<1>1. process[t] \in processes /\ process[t] \in Tid
  BY DEF fork, Running, GraphInv, Registered, TypeOK, ProcType
<1>2. PICK q \in tids :
        /\ processes' = processes \cup {q}
        /\ parent' = [parent EXCEPT ![q] = process[t]]
  BY DEF fork
<1>3. q \in Tid /\ q \notin processes /\ q # InitPid /\ processes \subseteq Tid
  BY DEF GraphInv, TidsAccounted, Registered, Groups, TypeOK, SchedType
<1>4. parent'[q] = process[t] /\ \A p \in processes : parent'[p] = parent[p]
  BY <1>2, <1>3 DEF TypeOK, ProcType
<1>5. SUFFICES ASSUME NEW S \in SUBSET (processes' \ {InitPid}), S # {}
               PROVE  \E p \in S : parent'[p] \in processes' \ S
  BY DEF RootedAtInit
<1>6. CASE S \subseteq {q}
  <2>1. q \in S /\ process[t] \notin S
    BY <1>1, <1>3, <1>5, <1>6
  <2> QED
    BY <2>1, <1>1, <1>2, <1>4
<1>7. CASE ~(S \subseteq {q})
  <2>1. S \ {q} \in SUBSET (processes \ {InitPid}) /\ S \ {q} # {}
    BY <1>2, <1>7
  <2>2. PICK p \in S \ {q} : parent[p] \in processes \ (S \ {q})
    BY <2>1 DEF RootedAtInit
  <2>3. p \in processes /\ parent[p] # q /\ parent'[p] = parent[p]
    BY <2>1, <2>2, <1>3, <1>4
  <2> QED
    BY <2>2, <2>3, <1>2
<1> QED
  BY <1>6, <1>7

LEMMA RootedReap ==
    ASSUME TypeOK, GraphInv, RootedAtInit,
           NEW q, q \in terminated, NEW p \in Tid, q \in sons[p], deleteProcess(q)
    PROVE  RootedAtInit'
<1>1. /\ q \in processes /\ q \in Tid /\ q # InitPid /\ InitPid \in processes
      /\ processes \subseteq Tid
  BY DEF GraphInv, Registered, Hierarchy, TypeOK, SchedType, ProcType
<1>2. processes' = processes \ {q} /\ parent' = orphanParent(q)
  BY DEF deleteProcess
<1>3. \A r \in processes' :
         parent'[r] = (IF parent[r] = q THEN InitPid ELSE parent[r])
  BY <1>1, <1>2 DEF orphanParent, GraphInv, Hierarchy
<1>4. SUFFICES ASSUME NEW S \in SUBSET (processes' \ {InitPid}), S # {}
               PROVE  \E r \in S : parent'[r] \in processes' \ S
  BY DEF RootedAtInit
<1>5. CASE \E r \in S : parent[r] = q
  <2>1. PICK r \in S : parent[r] = q
    BY <1>5
  <2>2. parent'[r] = InitPid
    BY <2>1, <1>3, <1>4
  <2> QED
    BY <2>2, <1>1, <1>2
<1>6. CASE \A r \in S : parent[r] # q
  <2>1. PICK r \in S : parent[r] \in processes \ S
    BY <1>2, <1>4 DEF RootedAtInit
  <2>2. parent'[r] = parent[r] /\ parent[r] # q
    BY <2>1, <1>3, <1>4, <1>6
  <2> QED
    BY <2>1, <2>2, <1>2
<1> QED
  BY <1>5, <1>6

LEMMA RootedInit == Init => RootedAtInit
BY DEF Init, RootedAtInit

LEMMA RootedNext == TypeOK /\ GraphInv /\ RootedAtInit /\ [Next]_vars => RootedAtInit'
<1> SUFFICES ASSUME TypeOK, GraphInv, RootedAtInit, [Next]_vars PROVE RootedAtInit'
    OBVIOUS
<1>1. ASSUME NEW t \in Tid, fork(t) PROVE RootedAtInit'
  BY <1>1, RootedFork
<1>2. ASSUME NEW t \in Tid, NEW tg, waitReap(t, tg) PROVE RootedAtInit'
  <2>1. PICK q \in Zombies(process[t], tg) : deleteProcess(q)
    BY <1>2 DEF waitReap
  <2>2. q \in terminated /\ q \in sons[process[t]] /\ process[t] \in Tid
    BY <1>2 DEF Zombies, Candidates, waitReap, Running, GraphInv, Registered, TypeOK, ProcType
  <2> QED
    BY <2>1, <2>2, RootedReap
<1>3. ASSUME NEW t \in Tid, runAcceptReap(t) PROVE RootedAtInit'
  <2>1. process[t] \in Tid
    BY <1>3 DEF runAcceptReap, launch, Popping, Scanning, TypeOK, ProcType
  <2>2. PICK q \in Zombies(process[t], target[t]) : deleteProcess(q)
    BY <1>3 DEF runAcceptReap
  <2>3. q \in terminated /\ q \in sons[process[t]]
    BY DEF Zombies, Candidates
  <2> QED
    BY <2>1, <2>2, <2>3, RootedReap
<1>4. ASSUME NEW t \in Tid, clone(t) \/ exit(t) \/ texit(t) \/ exec(t)
      PROVE  UNCHANGED <<processes, parent>>
  BY <1>4 DEF clone, exit, texit, exec
<1>9. ASSUME NEW t \in Tid, deleteBlocked(t) \/ waitBadPid(t)
      PROVE  UNCHANGED <<processes, parent>>
  BY <1>9, Zenon DEF deleteBlocked, waitBadPid, Bsod, schedVars, procVars
<1>5. ASSUME NEW t \in Tid, NEW x, waitBlock(t, x) \/ read(t, x) \/ readBlock(t, x)
      PROVE  UNCHANGED <<processes, parent>>
  BY <1>5, Zenon DEF waitBlock, read, readBlock, schedVars, procVars
<1>6. ASSUME runIdle \/ runDeleted \/ timerHalted \/ timerPreempt \/ stopped \/ UNCHANGED vars
      PROVE  UNCHANGED <<processes, parent>>
  BY <1>6, Zenon DEF runIdle, runDeleted, timerHalted, timerPreempt, stopped, vars,
                     schedVars, procVars
<1>7. ASSUME NEW t \in Tid,
             \/ runReady(t) \/ runBlocked(t) \/ runRefuse(t) \/ runAcceptNoChild(t)
             \/ runRefuseRead(t) \/ runAcceptRead(t)
      PROVE  UNCHANGED <<processes, parent>>
  BY <1>7 DEF runReady, runBlocked, runRefuse, runAcceptNoChild, runRefuseRead,
              runAcceptRead, procVars
<1>8. ASSUME UNCHANGED <<processes, parent>> PROVE RootedAtInit'
  BY <1>8, RootedSame
<1> QED
  BY <1>1, <1>2, <1>3, <1>4, <1>5, <1>6, <1>7, <1>8, <1>9 DEF Next, syscall, run

\* The _parent links lead from every process to init, after any sequence of forks,
\* deaths, reaps by any process and orphans given to init.
THEOREM EveryoneBelowInit == Spec => []RootedAtInit
<1>1. Init => RootedAtInit
  BY RootedInit
<1>2. TypeOK /\ GraphInv /\ RootedAtInit /\ [Next]_vars => RootedAtInit'
  BY RootedNext
<1> QED
  BY <1>1, <1>2, TypeCorrect, ObjectGraph, PTL DEF Spec

-----------------------------------------------------------------------------
(***************************************************************************)
(* Time slices.  TypeOK /\ QuantumRespected is inductive:                  *)
(* ran + remainingTime is constant at a tick in user mode and only set     *)
(* back by launch, and the thread is only resumed by a tick while          *)
(* remainingTime is positive.                                              *)
(***************************************************************************)
QInv == Clock!TypeOK /\ Clock!QuantumRespected

\* The counters keep their types and no thread gets more than its quantum, for
\* every processQuantum and renderingQuantum that fit in a u8 (timerHandler).
THEOREM QuantumTheorem == Clock!Spec => []QInv
<1>. USE QuantaFit DEF Clock!QuantaFit
<1>1. Clock!Init => QInv
  BY DEF Clock!Init, QInv, Clock!TypeOK, Clock!QuantumRespected, Clock!Mode
<1>2. QInv /\ [Clock!Next]_(Clock!vars) => QInv'
  <2>. SUFFICES ASSUME QInv, [Clock!Next]_(Clock!vars) PROVE QInv'
    OBVIOUS
  <2>. USE DEF QInv, Clock!TypeOK, Clock!QuantumRespected, Clock!Mode
  <2>1. CASE Clock!tickUser
    BY <2>1 DEF Clock!tickUser, Clock!Tick, Clock!Decr, Clock!AfterUserTick
  <2>2. CASE Clock!tickKernel
    BY <2>2 DEF Clock!tickKernel, Clock!Tick, Clock!Decr
  <2>3. CASE Clock!tickHalted
    BY <2>3 DEF Clock!tickHalted, Clock!Tick, Clock!Decr
  <2>4. CASE Clock!doneRender
    BY <2>4 DEF Clock!doneRender
  <2>5. CASE Clock!launch \/ Clock!idle
    BY <2>5 DEF Clock!launch, Clock!idle
  <2>6. CASE Clock!syscall \/ Clock!stopCurent \/ Clock!sysret \/ Clock!sysleave
    BY <2>6 DEF Clock!syscall, Clock!stopCurent, Clock!sysret, Clock!sysleave
  <2>7. CASE UNCHANGED (Clock!vars)
    BY <2>7 DEF Clock!vars
  <2>. QED
    BY <2>1, <2>2, <2>3, <2>4, <2>5, <2>6, <2>7 DEF Clock!Next
<1>. QED
  BY <1>1, <1>2, PTL DEF Clock!Spec, QInv

\* No thread is hit by more ticks than its quantum before it is preempted
\* (timerHandler, sysleave), whatever the threads of Processes do: a step of theirs
\* leaves the counters alone, and a step of the timer is one of Timer.
THEOREM SlicesKept == MCSpec => []QuantumRespected
<1>1. MCInit => Clock!Init
  BY DEF MCInit
<1>2. [MCNext]_<<machine, vars, timerVars>> => [Clock!Next]_(Clock!vars)
  BY DEF MCNext, timerVars, Clock!vars
<1>3. Clock!Init /\ [][Clock!Next]_(Clock!vars) => Clock!Spec
  BY DEF Clock!Spec
<1>4. QInv => QuantumRespected
  BY DEF QuantumRespected, QInv
<1>. QED
  BY <1>1, <1>2, <1>3, <1>4, QuantumTheorem, PTL DEF MCSpec

-----------------------------------------------------------------------------
(***************************************************************************)
(* The waiting protocol.                                                   *)
(***************************************************************************)

\* What the proofs use of the type of the protocol.
WaitTyped ==
    /\ waitings \in [Waitable -> SUBSET Tid]
    /\ waiting \in [Tid -> SUBSET Waitable]
    /\ waited \in [Tid -> Waitable \cup {NoProcess}]
    /\ target \in [Tid -> Tid \cup {AnyChild, Gone}]
    /\ input \subseteq Terminal

LEMMA Typed == ASSUME TypeOK PROVE WaitTyped
BY Zenon DEF TypeOK, WaitType, WaitTyped

LEMMA Disjoint == Terminal \cap Tid = {} /\ NoProcess \notin Waitable /\ AnyChild \notin Terminal
BY TerminalAssumption DEF Tid, NoProcess, AnyChild, Waitable

(***************************************************************************)
(* The strengthening.  A tid without thread and the running thread are not *)
(* blocked, so that deleting an idle thread leaves nothing registered; a   *)
(* thread waits for one object at a time, so that free() of that object    *)
(* unregisters it everywhere; and it waits only for its own process, so    *)
(* that the death of a son reaches it through _parent.                     *)
(***************************************************************************)
DeadIdle == \A t \in Tid \ threads : Idle(t)
CurrentIdle == current # NoThread => Idle(current)
OneWait ==
    \A t \in Tid : /\ waited[t] # NoProcess => waiting[t] = {waited[t]}
                   /\ \A v, w \in waiting[t] : v = w
WaitsOwn == \A t \in threads : waiting[t] \cap Tid \subseteq {process[t]}
WaitShape == DeadIdle /\ CurrentIdle /\ OneWait /\ WaitsOwn /\ WaitersRegistered

LEMMA ShapeInit == Init => WaitShape
<1> SUFFICES ASSUME Init PROVE WaitShape
    OBVIOUS
<1>1. threads \subseteq Tid
  BY DEF Init
<1> QED
  BY <1>1 DEF Init, WaitShape, DeadIdle, CurrentIdle, OneWait, WaitsOwn,
              WaitersRegistered, Idle

\* Nothing happens to the protocol, and if a thread is launched it is not blocked.
LEMMA ShapeSame ==
    ASSUME WaitShape, UNCHANGED <<threads, process, waitings, waiting, waited>>,
           current' \in {current, NoThread} \/ Idle(current')
    PROVE  WaitShape'
BY DEF WaitShape, DeadIdle, CurrentIdle, OneWait, WaitsOwn, WaitersRegistered, Idle

\* fork and clone create the thread q.
LEMMA ShapeNew ==
    ASSUME WaitShape, SchedType, ProcType, WaitTyped, NEW q \in Tid \ threads, NEW p,
           threads' = threads \cup {q}, process' = [process EXCEPT ![q] = p],
           UNCHANGED <<current, waitings, waiting, waited>>
    PROVE  WaitShape'
BY DEF WaitShape, DeadIdle, CurrentIdle, OneWait, WaitsOwn, WaitersRegistered, Idle,
       SchedType, ProcType, WaitTyped

\* exit, texit and exec delete the threads of S, none of them blocked.
LEMMA ShapeRemoved ==
    ASSUME WaitShape, SchedType, WaitTyped, NEW S \in SUBSET Tid, \A t \in S : Idle(t),
           threads \ S \subseteq threads', threads' \subseteq threads \cup S,
           \A t \in Tid \ S : process'[t] = process[t],
           current' = NoThread, UNCHANGED <<waitings, waiting, waited>>
    PROVE  WaitShape'
<1> USE DEF WaitShape, SchedType, WaitTyped, Idle
<1>1. DeadIdle' /\ CurrentIdle'
  BY DEF DeadIdle, CurrentIdle
<1>2. OneWait'
  BY DEF OneWait
<1>3. WaitsOwn'
  BY DEF WaitsOwn, DeadIdle
<1>4. WaitersRegistered'
  BY DEF WaitersRegistered, DeadIdle
<1> QED
  BY <1>1, <1>2, <1>3, <1>4

\* free(): some threads of the process or window w are no longer registered.
LEMMA ShapeWoken ==
    ASSUME WaitShape, SchedType, WaitTyped, NEW S \in SUBSET Tid, \A t \in S : Idle(t),
           threads' = threads \ S,
           \A t \in Tid \ S : process'[t] = process[t],
           current' = NoThread \/ (S = {} /\ current' = current), UNCHANGED waiting,
           NEW L \in SUBSET Waitable,
           waitings' = [w \in Waitable |-> IF w \in L THEN {} ELSE waitings[w]],
           waited' \in [Tid -> Waitable \cup {NoProcess}],
           \A t \in Tid : IF \E w \in L : t \in waitings[w]
                          THEN waited'[t] \in L /\ t \in waitings[waited'[t]]
                          ELSE waited'[t] = waited[t]
    PROVE  WaitShape'
<1> USE DEF WaitShape, DeadIdle, CurrentIdle, OneWait, WaitsOwn, WaitersRegistered,
            Idle, SchedType, WaitTyped
<1>1. ASSUME NEW t \in Tid, NEW w \in Waitable, t \in waitings[w]
      PROVE t \in threads /\ waited[t] = NoProcess /\ waiting[t] = {w} /\ t \notin S
  BY <1>1
<1>2. NoProcess \notin Waitable
  BY Disjoint
<1>3. ASSUME NEW t \in Tid
      PROVE  /\ waited'[t] # NoProcess => waiting'[t] = {waited'[t]}
             /\ \A v, w \in waiting'[t] : v = w
  <2>1. CASE \E w \in L : t \in waitings[w]
    BY <1>1, <2>1
  <2>2. CASE ~ \E w \in L : t \in waitings[w]
    BY <2>2
  <2> QED
    BY <2>1, <2>2
<1>4. DeadIdle' /\ CurrentIdle' /\ WaitsOwn'
  BY <1>1, <1>2
<1>5. ASSUME NEW t \in Tid, NEW w \in Waitable
      PROVE  t \in waitings'[w] <=> t \in threads' /\ waited'[t] = NoProcess /\ w \in waiting'[t]
  <2>1. CASE \E v \in L : t \in waitings[v]
    <3>1. PICK v \in L : t \in waitings[v]
      BY <2>1
    <3>2. waiting[t] = {v} /\ waited'[t] # NoProcess
      BY <1>1, <1>2, <2>1, <3>1
    <3>3. t \in waitings'[w] => t \in waitings[w] /\ w \notin L
      OBVIOUS
    <3> QED
      BY <1>1, <3>1, <3>2, <3>3
  <2>2. CASE ~ \E v \in L : t \in waitings[v]
    BY <2>2
  <2> QED
    BY <2>1, <2>2
<1> QED
  BY <1>3, <1>4, <1>5

\* The running thread blocks on its process or on a window.
LEMMA ShapeWait ==
    ASSUME WaitShape, SchedType, WaitTyped, NEW t \in threads, current = t, NEW w \in Waitable,
           w \in Tid => w = process[t],
           waiting' = [waiting EXCEPT ![t] = {w}],
           waitings' = [waitings EXCEPT ![w] = @ \cup {t}],
           current' = NoThread, UNCHANGED <<threads, process, waited>>
    PROVE  WaitShape'
BY DEF WaitShape, DeadIdle, CurrentIdle, OneWait, WaitsOwn, WaitersRegistered, Idle,
       SchedType, WaitTyped

\* run() tries t in vain: it is registered again.
LEMMA ShapeRefuse ==
    ASSUME WaitShape, SchedType, WaitTyped, NEW t \in threads, refuse(t), current = NoThread,
           UNCHANGED <<threads, process, current>>
    PROVE  WaitShape'
BY DEF WaitShape, DeadIdle, CurrentIdle, OneWait, WaitsOwn, WaitersRegistered, Idle,
       SchedType, WaitTyped, refuse

\* run() tries t, whose call ends.
LEMMA ShapeAccept ==
    ASSUME WaitShape, SchedType, WaitTyped, NEW t \in threads, NEW tg, accept(t, tg),
           waited[t] # NoProcess, current' = t, UNCHANGED <<threads, process>>
    PROVE  WaitShape'
BY DEF WaitShape, DeadIdle, CurrentIdle, OneWait, WaitsOwn, WaitersRegistered, Idle,
       SchedType, WaitTyped, accept

\* exit and texit: the parent of the dead process is woken, unless it was init.
LEMMA ShapeDied ==
    ASSUME WaitShape, SchedType, ProcType, WaitTyped, Hierarchy,
           NEW S \in SUBSET Tid, \A t \in S : Idle(t), NEW p \in processes, terminate(p),
           threads' = threads \ S, process' = deleteThreads(S),
           current' = NoThread, UNCHANGED waiting
    PROVE  WaitShape'
<1>1. \A t \in Tid \ S : process'[t] = process[t]
  BY DEF deleteThreads
<1>2. CASE p = InitPid
  <2>1. UNCHANGED <<waited, waitings>>
    BY <1>2, Zenon DEF terminate
  <2> QED
    BY <1>1, <2>1, ShapeRemoved
<1>3. CASE p # InitPid
  <2> DEFINE L == {parent[p]}
  <2>1. waited' = freeWaited(parent[p]) /\ waitings' = freeWaitings(parent[p])
    BY <1>3, Zenon DEF terminate
  <2>2. parent[p] \in Tid /\ parent[p] \in Waitable
    BY <1>3 DEF Hierarchy, SchedType
  <2>3. waitings' = [w \in Waitable |-> IF w \in L THEN {} ELSE waitings[w]]
    BY <2>1, <2>2 DEF freeWaitings, WaitTyped
  <2>4. /\ waited' \in [Tid -> Waitable \cup {NoProcess}]
        /\ \A t \in Tid : IF \E w \in L : t \in waitings[w]
                          THEN waited'[t] \in L /\ t \in waitings[waited'[t]]
                          ELSE waited'[t] = waited[t]
    BY <2>1, <2>2 DEF freeWaited, WaitTyped
  <2>5. L \in SUBSET Waitable
    BY <2>2
  <2> HIDE DEF L
  <2> QED
    BY <1>1, <2>3, <2>4, <2>5, ShapeWoken
<1> QED
  BY <1>2, <1>3

\* kloop: a line is typed in each of the windows of L.
LEMMA ShapeKloop ==
    ASSUME WaitShape, SchedType, WaitTyped, NEW L \in SUBSET Terminal, kloop(L),
           UNCHANGED <<threads, process>>, current' \in {current, NoThread}
    PROVE  WaitShape'
<1>1. L \in SUBSET Waitable
  OBVIOUS
<1>2. /\ UNCHANGED waiting
      /\ waitings' = [w \in Waitable |-> IF w \in L THEN {} ELSE waitings[w]]
      /\ waited' = [t \in Tid |-> IF \E w \in L : t \in waitings[w]
                                  THEN CHOOSE w \in L : t \in waitings[w]
                                  ELSE waited[t]]
  BY DEF kloop
<1>3. ASSUME NEW t \in Tid, \E w \in L : t \in waitings[w]
      PROVE  waited'[t] \in L /\ t \in waitings[waited'[t]]
  <2>1. waited'[t] = CHOOSE w \in L : t \in waitings[w]
    BY <1>2, <1>3
  <2> QED
    BY <1>3, <2>1
<1>4. ASSUME NEW t \in Tid, ~ \E w \in L : t \in waitings[w]
      PROVE  waited'[t] = waited[t]
  BY <1>2, <1>4
<1>5. waited' \in [Tid -> Waitable \cup {NoProcess}]
  <2>1. \A t \in Tid : waited'[t] \in Waitable \cup {NoProcess}
    BY <1>1, <1>3, <1>4 DEF WaitTyped
  <2>2. waited' = [t \in Tid |-> waited'[t]]
    BY <1>2
  <2> QED
    BY <2>1, <2>2
<1>6. \A t \in Tid : IF \E w \in L : t \in waitings[w]
                   THEN waited'[t] \in L /\ t \in waitings[waited'[t]]
                   ELSE waited'[t] = waited[t]
  BY <1>3, <1>4
<1> DEFINE S == {}
<1>7. /\ S \in SUBSET Tid
      /\ \A t \in S : Idle(t)
      /\ threads' = threads \ S
      /\ \A t \in Tid \ S : process'[t] = process[t]
  OBVIOUS
<1>8. current' = NoThread \/ (S = {} /\ current' = current)
  OBVIOUS
<1> HIDE DEF S
<1> QED
  BY <1>1, <1>2, <1>5, <1>6, <1>7, <1>8, ShapeWoken

LEMMA ShapeNext ==
    ASSUME TypeOK, GraphInv, WaitShape, [Next]_vars
    PROVE  WaitShape'
<1>0. SchedType /\ ProcType /\ WaitTyped
  BY Typed DEF TypeOK
<1>g. Registered /\ TidsAccounted /\ ThreadsOwned /\ Hierarchy
  BY DEF GraphInv
<1>1. ASSUME NEW t \in Tid, fork(t) \/ clone(t) PROVE WaitShape'
  <2>1. PICK q \in tids : /\ threads' = threads \cup {q}
                          /\ \E p : process' = [process EXCEPT ![q] = p]
    BY <1>1 DEF fork, clone
  <2>2. q \in Tid \ threads
    BY <1>g DEF TidsAccounted
  <2>3. UNCHANGED <<current, waitings, waiting, waited>>
    BY <1>1 DEF fork, clone, waitVars
  <2> QED
    BY <1>0, <2>1, <2>2, <2>3, ShapeNew
<1>2. ASSUME NEW t \in Tid, exit(t) PROVE WaitShape'
  <2>1. process[t] \in processes /\ pthreads[process[t]] \in SUBSET Tid
    BY <1>0, <1>2, <1>g DEF exit, Running, Registered, ProcType
  <2> QED
    BY <1>0, <1>2, <1>g, <2>1, ShapeDied DEF exit
<1>3. ASSUME NEW t \in Tid, texit(t) PROVE WaitShape'
  <2>1. process[t] \in processes /\ Idle(t) /\ threads' = threads \ {t}
    BY <1>3, <1>g DEF texit, Running, Registered, WaitShape, CurrentIdle
  <2>2. process' = deleteThreads({t}) /\ current' = NoThread /\ UNCHANGED waiting
    BY <1>3 DEF texit
  <2>3. CASE terminate(process[t])
    BY <1>0, <1>g, <2>1, <2>2, <2>3, ShapeDied
  <2>4. CASE UNCHANGED <<waited, waitings>>
    <3> DEFINE S == {t}
    <3>1. /\ S \in SUBSET Tid
          /\ \A u \in S : Idle(u)
          /\ threads \ S \subseteq threads' /\ threads' \subseteq threads \cup S
          /\ \A u \in Tid \ S : process'[u] = process[u]
      BY <2>1, <2>2 DEF deleteThreads
    <3> HIDE DEF S
    <3> QED
      BY <1>0, <2>2, <2>4, <3>1, ShapeRemoved
  <2> QED
    BY <1>3, <2>3, <2>4 DEF texit
<1>4. ASSUME NEW t \in Tid, exec(t) PROVE WaitShape'
  <2> DEFINE p == process[t]
             S == pthreads[p] \cup {p}
  <2>1. p \in Tid /\ \A u \in pthreads[p] : u \in Tid /\ Idle(u)
    BY <1>0, <1>4 DEF exec, ProcType
  <2>2. Idle(p)
    <3>1. CASE p \in threads
      <4>1. p \in pthreads[p]
        BY <1>4, <1>g, <2>1, <3>1 DEF exec, Running, Registered, ThreadsOwned
      <4> QED
        BY <2>1, <4>1
    <3>2. CASE p \notin threads
      BY <2>1, <3>2 DEF WaitShape, DeadIdle
    <3> QED
      BY <3>1, <3>2
  <2>3. /\ threads' = (threads \ pthreads[p]) \cup {p}
        /\ process' = [deleteThreads(pthreads[p]) EXCEPT ![p] = p]
        /\ current' = NoThread
        /\ UNCHANGED <<waitings, waiting, waited>>
    BY <1>4 DEF exec, waitVars
  <2>4. \A u \in Tid \ S : process'[u] = process[u]
    BY <2>3 DEF deleteThreads
  <2>5. S \in SUBSET Tid /\ \A u \in S : Idle(u)
    BY <2>1, <2>2
  <2>6. threads \ S \subseteq threads' /\ threads' \subseteq threads \cup S
    BY <2>3
  <2> HIDE DEF S
  <2> QED
    BY <1>0, <2>3, <2>4, <2>5, <2>6, ShapeRemoved
<1>5. ASSUME NEW t \in Tid, NEW tg, waitBlock(t, tg) PROVE WaitShape'
  <2>1. t \in threads /\ process[t] \in Tid /\ current = t
    BY <1>0, <1>5, <1>g DEF waitBlock, Running, Registered, ProcType
  <2> QED
    BY <1>0, <1>5, <2>1, ShapeWait DEF waitBlock, wait
<1>6. ASSUME NEW t \in Tid, NEW w \in Terminal, readBlock(t, w) PROVE WaitShape'
  <2>1. t \in threads /\ w \in Waitable /\ w \notin Tid /\ current = t
    BY <1>6, <1>g, Disjoint DEF readBlock, Running, Registered
  <2> QED
    BY <1>0, <1>6, <2>1, ShapeWait DEF readBlock, wait
<1>7. ASSUME timerPreempt \/ timerHalted PROVE WaitShape'
  <2>1. PICK L \in SUBSET Terminal : kloop(L)
    BY <1>7 DEF timerPreempt, timerHalted
  <2>2. UNCHANGED <<threads, process>>
    BY <1>7 DEF timerPreempt, timerHalted
  <2>3. current' = NoThread \/ current' = current
    BY <1>7 DEF timerPreempt, timerHalted
  <2> QED
    BY <1>0, <2>1, <2>2, <2>3, ShapeKloop
<1>8. ASSUME NEW t \in Tid, runRefuse(t) \/ runRefuseRead(t) PROVE WaitShape'
  <2>1. t \in threads /\ current = NoThread /\ refuse(t) /\ UNCHANGED <<threads, process, current>>
    BY <1>8 DEF runRefuse, runRefuseRead, Popping, Scanning, requeue
  <2> QED
    BY <1>0, <2>1, ShapeRefuse
<1>9. ASSUME NEW t \in Tid, runAcceptReap(t) \/ runAcceptNoChild(t) \/ runAcceptRead(t)
      PROVE WaitShape'
  <2>1. PICK tg : accept(t, tg)
    BY <1>9 DEF runAcceptReap, runAcceptNoChild, runAcceptRead
  <2>2. t \in threads /\ waited[t] # NoProcess /\ current' = t /\ UNCHANGED <<threads, process>>
    BY <1>0, <1>9, Disjoint DEF runAcceptReap, runAcceptNoChild, runAcceptRead, launch,
                               WaitTyped
  <2> QED
    BY <1>0, <2>1, <2>2, ShapeAccept
<1>10. ASSUME NEW t \in Tid, NEW tg, deleteBlocked(t) \/ waitBadPid(t) \/ waitReap(t, tg)
             \/ read(t, tg) \/ runReady(t) \/ runBlocked(t)
      PROVE WaitShape'
  <2>1. CASE waitReap(t, tg)
    BY <2>1, ShapeSame DEF waitReap
  <2>2. CASE read(t, tg)
    BY <2>2, ShapeSame DEF read, schedVars, waitVars
  <2>3. CASE runReady(t) \/ runBlocked(t)
    BY <2>3, ShapeSame DEF runReady, runBlocked, launch, requeue, waitVars
  <2>4. CASE deleteBlocked(t) \/ waitBadPid(t)
    BY <2>4, BsodKeeps, ShapeSame DEF schedVars, waitVars
  <2> QED
    BY <1>10, <2>1, <2>2, <2>3, <2>4
<1>11. ASSUME runIdle \/ runDeleted \/ stopped \/ UNCHANGED vars PROVE WaitShape'
  BY <1>11, ShapeSame DEF runIdle, runDeleted, stopped, vars, schedVars, waitVars
<1> QED
  BY <1>1, <1>2, <1>3, <1>4, <1>5, <1>6, <1>7, <1>8, <1>9, <1>10, <1>11
     DEF Next, syscall, run

-----------------------------------------------------------------------------
(***************************************************************************)
(* No wake-up of wait is lost.                                             *)
(***************************************************************************)
Waiter(t) == Blocked(t) /\ InWait(t) /\ process[t] # InitPid
StillWaits(t) == /\ Candidates(process[t], target[t]) # {}
                 /\ Zombies(process[t], target[t]) = {}

\* No son dies or is destroyed; the thread e may change.
LEMMA WakeupSame ==
    ASSUME NoLostWakeup, UNCHANGED <<sons, terminated>>, NEW e,
           \A t \in threads' \ {e} :
                /\ t \in threads /\ process'[t] = process[t]
                /\ waiting'[t] = waiting[t] /\ target'[t] = target[t]
                /\ waited'[t] = NoProcess => waited[t] = NoProcess,
           Waiter(e)' => StillWaits(e)'
    PROVE  NoLostWakeup'
<1> SUFFICES ASSUME NEW t \in threads', Waiter(t)' PROVE StillWaits(t)'
    BY DEF NoLostWakeup, Waiter, StillWaits
<1>1. CASE t = e
  BY <1>1
<1>2. CASE t # e
  BY <1>2 DEF NoLostWakeup, Waiter, StillWaits, Blocked, InWait, Candidates, Zombies
<1> QED
  BY <1>1, <1>2

\* Nobody but the parent of p has it for a son, and the parent is woken.
LEMMA WakeupDied ==
    ASSUME TypeOK, GraphInv, WaitShape, NoLostWakeup, NEW p \in processes, terminate(p),
           threads' \subseteq threads, \A t \in threads' : process'[t] = process[t],
           UNCHANGED <<sons, target, waiting>>
    PROVE  NoLostWakeup'
<1>0. WaitTyped /\ SchedType /\ ProcType /\ Hierarchy
  BY Typed DEF TypeOK, GraphInv
<1> SUFFICES ASSUME NEW t \in threads', Waiter(t)' PROVE StillWaits(t)'
    BY DEF NoLostWakeup, Waiter, StillWaits
<1> DEFINE q == process[t]
<1>1. t \in threads /\ t \in Tid /\ q \in Tid /\ process'[t] = q
  BY <1>0 DEF SchedType, ProcType
<1>2. waited'[t] = NoProcess /\ waited[t] = NoProcess
  <2>1. waited'[t] = NoProcess
    BY DEF Waiter, Blocked
  <2>2. waited' = waited \/ (waited' = freeWaited(parent[p]) /\ p # InitPid)
    <3>1. CASE p = InitPid
      BY <3>1, Zenon DEF terminate
    <3>2. CASE p # InitPid
      BY <3>2, Zenon DEF terminate
    <3> QED
      BY <3>1, <3>2
  <2>3. p # InitPid => parent[p] # NoProcess
    BY <1>0 DEF Hierarchy, SchedType
  <2> QED
    BY <1>1, <2>1, <2>2, <2>3 DEF freeWaited
<1>3. t \in waitings[q]
  BY <1>0, <1>1, <1>2 DEF Waiter, InWait, WaitShape, WaitsOwn, WaitersRegistered
<1>4. p \notin sons[q]
  <2>1. CASE p = InitPid
    BY <1>0, <1>1, <2>1 DEF Hierarchy
  <2>2. CASE p # InitPid
    <3>1. waited' = freeWaited(parent[p])
      BY <2>2, Zenon DEF terminate
    <3>2. parent[p] \in Tid /\ parent[p] # NoProcess
      BY <1>0, <2>2 DEF Hierarchy, SchedType
    <3>3. parent[p] # q
      BY <1>1, <1>2, <1>3, <3>1, <3>2 DEF freeWaited
    <3> QED
      BY <1>0, <1>1, <3>3 DEF Hierarchy, SchedType
  <2> QED
    BY <2>1, <2>2
<1>5. terminated' = terminated \cup {p}
  BY Zenon DEF terminate
<1>6. StillWaits(t)
  BY <1>1, <1>2 DEF Waiter, Blocked, InWait, NoLostWakeup, StillWaits
<1> QED
  BY <1>1, <1>4, <1>5, <1>6 DEF StillWaits, Candidates, Zombies

\* The zombie that is reaped is no candidate of a thread that still sleeps.
LEMMA WakeupReaped ==
    ASSUME TypeOK, GraphInv, NoLostWakeup, NEW q \in terminated, deleteProcess(q),
           UNCHANGED <<threads, process>>,
           \A t \in threads : Waiter(t)' => Waiter(t) /\ target'[t] = dangle(q)[t]
    PROVE  NoLostWakeup'
<1>0. SchedType /\ ProcType /\ Hierarchy /\ ThreadsOwned /\ Registered /\ ZombieIffThreadless
  BY DEF TypeOK, GraphInv
<1> SUFFICES ASSUME NEW t \in threads', Waiter(t)' PROVE StillWaits(t)'
    BY DEF NoLostWakeup, Waiter, StillWaits
<1> DEFINE p == process[t]
<1>1. t \in Tid /\ p \in Tid /\ p # InitPid /\ process'[t] = p /\ q \in processes
  BY <1>0 DEF SchedType, ProcType, Registered, Waiter
<1>2. p # q
  BY <1>0, <1>1 DEF ThreadsOwned, Registered, ZombieIffThreadless
<1>3. StillWaits(t)
  BY DEF Waiter, NoLostWakeup, StillWaits
<1>4. q \notin Candidates(p, target[t])
  BY <1>3 DEF StillWaits, Zombies
<1>5. target'[t] = target[t]
  <2>1. CASE target[t] = q
    <3>1. q \in Candidates(p, target[t])
      BY <1>0, <1>3, <2>1 DEF StillWaits, Candidates, ProcType
    <3> QED
      BY <1>4, <3>1
  <2>2. CASE target[t] # q
    BY <1>1, <2>2 DEF dangle
  <2> QED
    BY <2>1, <2>2
<1>6. sons'[p] = sons[p] \ {q}
  BY <1>0, <1>1, <1>2 DEF deleteProcess, orphanSons, Hierarchy, SchedType
<1>7. Candidates(p, target[t])' = Candidates(p, target[t])
  BY <1>4, <1>5, <1>6 DEF Candidates
<1>8. terminated' \subseteq terminated
  BY DEF deleteProcess
<1> QED
  BY <1>1, <1>3, <1>7, <1>8 DEF StillWaits, Zombies

\* The process that is created is no zombie, and what it may be mistaken for was
\* deleted before, so that no sleeping thread waits for it.
LEMMA WakeupFork ==
    ASSUME TypeOK, GraphInv, WaitShape, NoLostWakeup, NEW r \in Tid, fork(r)
    PROVE  NoLostWakeup'
<1>0. WaitTyped /\ SchedType /\ ProcType /\ TidsAccounted /\ Registered
  BY Typed DEF TypeOK, GraphInv
<1> SUFFICES ASSUME NEW t \in threads', Waiter(t)' PROVE StillWaits(t)'
    BY DEF NoLostWakeup, Waiter, StillWaits
<1>1. PICK q \in tids :
        /\ threads' = threads \cup {q}
        /\ process' = [process EXCEPT ![q] = q]
        /\ sons' = [sons EXCEPT ![process[r]] = @ \cup {q}]
        /\ \E S \in SUBSET {x \in threads : target[x] = Gone} :
              target' = [x \in Tid |-> IF x \in S THEN q ELSE target[x]]
  BY DEF fork
<1>2. UNCHANGED <<terminated, waiting, waited>>
  BY DEF fork
<1>3. q \in Tid /\ q \notin threads /\ q \notin terminated
  BY <1>0 DEF TidsAccounted, Registered, SchedType
<1>4. t # q
  <2>1. Idle(q)
    BY <1>3 DEF WaitShape, DeadIdle
  <2> QED
    BY <1>2, <2>1 DEF Waiter, Blocked, Idle
<1>5. t \in threads /\ t \in Tid /\ process'[t] = process[t] /\ Waiter(t)
  BY <1>0, <1>1, <1>2, <1>4 DEF SchedType, ProcType, Waiter, Blocked, InWait
<1>6. StillWaits(t)
  BY <1>5 DEF NoLostWakeup, Waiter, StillWaits
<1>7. target'[t] = target[t]
  <2>1. Gone # AnyChild
    BY BoundsAssumption DEF Gone, AnyChild
  <2>2. target[t] # Gone
    BY <1>0, <1>5, <1>6, <2>1 DEF StillWaits, Candidates, ProcType
  <2> QED
    BY <1>1, <1>5, <2>2
<1>8. sons'[process[t]] \in {sons[process[t]], sons[process[t]] \cup {q}}
  BY <1>0, <1>1, <1>5 DEF ProcType
<1> QED
  BY <1>2, <1>3, <1>5, <1>6, <1>7, <1>8 DEF StillWaits, Candidates, Zombies

\* No line arrives; the thread e may block.
LEMMA ReadersSame ==
    ASSUME NoStrandedReader, input' \subseteq input, NEW e,
           \A t \in threads' \ {e} :
                /\ t \in threads /\ waiting'[t] = waiting[t]
                /\ waited'[t] = NoProcess => waited[t] = NoProcess,
           Blocked(e)' => waiting'[e] \cap input' = {}
    PROVE  NoStrandedReader'
BY DEF NoStrandedReader, Blocked

\* free() only concerns threads that had not been woken.
LEMMA DiedWaited ==
    ASSUME SchedType, Hierarchy, NEW p \in processes, terminate(p),
           NEW t \in threads, waited'[t] = NoProcess
    PROVE  waited[t] = NoProcess
<1>1. CASE p = InitPid
  BY <1>1, Zenon DEF terminate
<1>2. CASE p # InitPid
  <2>1. waited' = freeWaited(parent[p])
    BY <1>2, Zenon DEF terminate
  <2>2. t \in Tid /\ parent[p] # NoProcess
    BY <1>2 DEF SchedType, Hierarchy
  <2> QED
    BY <2>1, <2>2 DEF freeWaited
<1> QED
  BY <1>1, <1>2

LEMMA KloopWaited ==
    ASSUME WaitShape, WaitTyped, SchedType, NEW L \in SUBSET Terminal, kloop(L),
           NEW t \in threads, waited'[t] = NoProcess
    PROVE  waited[t] = NoProcess /\ \A w \in L : t \notin waitings[w]
<1>1. t \in Tid
  BY DEF SchedType
<1>2. CASE \E w \in L : t \in waitings[w]
  <2>1. waited'[t] = CHOOSE w \in L : t \in waitings[w]
    BY <1>1, <1>2 DEF kloop
  <2>2. waited'[t] \in Waitable
    BY <1>2, <2>1
  <2> QED
    BY <2>2, Disjoint
<1>3. CASE ~ \E w \in L : t \in waitings[w]
  BY <1>1, <1>3 DEF kloop
<1> QED
  BY <1>2, <1>3

\* A line typed in a window wakes every thread that is blocked on it.
LEMMA ReadersKloop ==
    ASSUME WaitShape, WaitTyped, SchedType, NoStrandedReader,
           NEW L \in SUBSET Terminal, kloop(L), UNCHANGED threads
    PROVE  NoStrandedReader'
<1> SUFFICES ASSUME NEW t \in threads, waited'[t] = NoProcess, waiting[t] # {}
             PROVE  waiting[t] \cap input' = {}
    BY DEF NoStrandedReader, Blocked, kloop
<1>1. waited[t] = NoProcess /\ \A w \in L : t \notin waitings[w]
  BY KloopWaited
<1>2. waiting[t] \cap input = {}
  BY <1>1 DEF NoStrandedReader, Blocked
<1>3. waiting[t] \cap L = {}
  BY <1>1 DEF WaitShape, WaitersRegistered, SchedType
<1> QED
  BY <1>2, <1>3 DEF kloop

LEMMA WaitersNext ==
    ASSUME TypeOK, GraphInv, WaitShape, NoLostWakeup, NoStrandedReader, [Next]_vars
    PROVE  NoLostWakeup' /\ NoStrandedReader'
<1>0. /\ SchedType /\ ProcType /\ WaitTyped /\ Hierarchy
      /\ Registered /\ TidsAccounted /\ ThreadsOwned
  BY Typed DEF TypeOK, GraphInv
<1>1. ASSUME NEW t \in Tid, fork(t) PROVE NoLostWakeup' /\ NoStrandedReader'
  <2>1. PICK q \in tids : threads' = threads \cup {q}
    BY <1>1 DEF fork
  <2>2. UNCHANGED <<waiting, waited, input>>
    BY <1>1 DEF fork
  <2>3. Idle(q)
    BY <1>0, <2>1 DEF TidsAccounted, WaitShape, DeadIdle, SchedType
  <2>4. NoStrandedReader'
    BY <2>1, <2>2, <2>3 DEF NoStrandedReader, Blocked, Idle
  <2> QED
    BY <1>1, <2>4, WakeupFork
<1>2. ASSUME NEW t \in Tid, clone(t) PROVE NoLostWakeup' /\ NoStrandedReader'
  <2>1. PICK q \in tids : /\ threads' = threads \cup {q}
                          /\ process' = [process EXCEPT ![q] = process[t]]
    BY <1>2 DEF clone
  <2>2. UNCHANGED <<waiting, waited, target, input, sons, terminated>>
    BY <1>2 DEF clone, waitVars
  <2>3. Idle(q)
    BY <1>0, <2>1 DEF TidsAccounted, WaitShape, DeadIdle, SchedType
  <2>4. ~ Blocked(q)'
    BY <2>2, <2>3 DEF Blocked, Idle
  <2>5. \A u \in threads' \ {q} : u \in threads /\ process'[u] = process[u]
    BY <1>0, <2>1 DEF SchedType, ProcType
  <2>6. NoLostWakeup'
    BY <2>2, <2>4, <2>5, WakeupSame DEF Waiter
  <2>7. NoStrandedReader'
    BY <2>2, <2>4, <2>5, ReadersSame
  <2> QED
    BY <2>6, <2>7
<1>3. ASSUME NEW t \in Tid, exit(t) \/ texit(t) PROVE NoLostWakeup' /\ NoStrandedReader'
  <2>1. PICK S \in SUBSET Tid : threads' = threads \ S /\ process' = deleteThreads(S)
    BY <1>0, <1>3 DEF exit, texit, ProcType
  <2>2. \A u \in threads' : u \in threads /\ process'[u] = process[u]
    BY <1>0, <2>1 DEF deleteThreads, SchedType
  <2>3. UNCHANGED <<waiting, target, input, sons>> /\ process[t] \in processes
    BY <1>0, <1>3 DEF exit, texit, Running, Registered
  <2>4. CASE terminate(process[t])
    <3>1. NoLostWakeup'
      BY <2>2, <2>3, <2>4, WakeupDied
    <3>2. \A u \in threads' : waited'[u] = NoProcess => waited[u] = NoProcess
      BY <1>0, <2>2, <2>3, <2>4, DiedWaited
    <3>3. NoStrandedReader'
      BY <2>2, <2>3, <3>2 DEF NoStrandedReader, Blocked
    <3> QED
      BY <3>1, <3>3
  <2>5. CASE UNCHANGED <<terminated, waited>>
    <3>1. NoLostWakeup'
      BY <2>2, <2>3, <2>5 DEF NoLostWakeup, Blocked, InWait, Candidates, Zombies
    <3>2. NoStrandedReader'
      BY <2>2, <2>3, <2>5 DEF NoStrandedReader, Blocked
    <3> QED
      BY <3>1, <3>2
  <2> QED
    BY <1>3, <2>4, <2>5 DEF exit, texit
<1>4. ASSUME NEW t \in Tid, exec(t) PROVE NoLostWakeup' /\ NoStrandedReader'
  <2>0. PICK p \in Tid : p = process[t]
    BY <1>0 DEF ProcType
  <2>1. /\ threads' \subseteq threads \cup {p}
        /\ p \in threads => p \in pthreads[p]
        /\ \A u \in pthreads[p] : Idle(u)
        /\ \A u \in threads' \ {p} : process'[u] = process[u]
    <3>1. /\ threads' = (threads \ pthreads[p]) \cup {p}
          /\ process' = [deleteThreads(pthreads[p]) EXCEPT ![p] = p]
          /\ \A u \in pthreads[p] : Idle(u)
          /\ p \in processes
      BY <1>0, <1>4, <2>0 DEF exec, Running, Registered, ProcType
    <3>2. p \in threads => p \in pthreads[p]
      BY <1>0, <3>1 DEF Registered, ThreadsOwned
    <3>3. \A u \in threads' \ {p} : process'[u] = process[u]
      BY <1>0, <3>1 DEF deleteThreads, SchedType
    <3> QED
      BY <3>1, <3>2, <3>3
  <2>2. UNCHANGED <<waiting, waited, target, input, sons, terminated>>
    BY <1>4 DEF exec, waitVars
  <2>3. Idle(p)
    BY <1>0, <2>1 DEF WaitShape, DeadIdle, ProcType
  <2>4. ~ Blocked(p)'
    BY <2>2, <2>3 DEF Blocked, Idle
  <2>5. NoLostWakeup'
    BY <2>1, <2>2, <2>4, WakeupSame DEF Waiter
  <2>6. NoStrandedReader'
    BY <2>1, <2>2, <2>4, ReadersSame
  <2> QED
    BY <2>5, <2>6
<1>5. ASSUME NEW t \in Tid, NEW tg, waitReap(t, tg) PROVE NoLostWakeup' /\ NoStrandedReader'
  <2>1. PICK q \in terminated : deleteProcess(q) /\ target' = dangle(q)
    BY <1>5 DEF waitReap, Zombies
  <2>2. UNCHANGED <<threads, process, waiting, waited, input>>
    BY <1>5 DEF waitReap
  <2>3. NoLostWakeup'
    BY <2>1, <2>2, WakeupReaped DEF Waiter, Blocked, InWait
  <2>4. NoStrandedReader'
    BY <2>2 DEF NoStrandedReader, Blocked
  <2> QED
    BY <2>3, <2>4
<1>6. ASSUME NEW t \in Tid, runAcceptReap(t) PROVE NoLostWakeup' /\ NoStrandedReader'
  <2>1. PICK q \in terminated : deleteProcess(q) /\ accept(t, dangle(q))
    BY <1>6 DEF runAcceptReap, Zombies
  <2>2. UNCHANGED <<threads, process, input>>
    BY <1>6 DEF runAcceptReap, launch
  <2>3. \A u \in threads : Blocked(u)' => /\ u # t /\ waiting'[u] = waiting[u]
                                          /\ waited'[u] = waited[u]
                                          /\ target'[u] = dangle(q)[u]
    BY <1>0, <2>1 DEF accept, Blocked, WaitTyped, SchedType, dangle
  <2>4. NoLostWakeup'
    BY <2>1, <2>2, <2>3, WakeupReaped DEF Waiter, Blocked, InWait
  <2>5. NoStrandedReader'
    BY <2>2, <2>3 DEF NoStrandedReader, Blocked
  <2> QED
    BY <2>4, <2>5
<1>7. ASSUME NEW t \in Tid, NEW tg \in Tid \cup {AnyChild}, waitBlock(t, tg)
      PROVE NoLostWakeup' /\ NoStrandedReader'
  <2>1. /\ UNCHANGED <<threads, process, sons, terminated, waited, input>>
        /\ waiting' = [waiting EXCEPT ![t] = {process[t]}]
        /\ target' = [target EXCEPT ![t] = tg]
        /\ Candidates(process[t], tg) # {} /\ Zombies(process[t], tg) = {}
    BY <1>7 DEF waitBlock, wait, procVars
  <2>2. StillWaits(t)'
    BY <1>0, <2>1 DEF StillWaits, Candidates, Zombies, WaitTyped
  <2>3. \A u \in threads' \ {t} : waiting'[u] = waiting[u] /\ target'[u] = target[u]
    BY <1>0, <2>1 DEF WaitTyped, SchedType
  <2>4. NoLostWakeup'
    BY <2>1, <2>2, <2>3, WakeupSame
  <2>5. waiting'[t] \cap input' = {}
    BY <1>0, <2>1, Disjoint DEF WaitTyped, ProcType
  <2>6. NoStrandedReader'
    BY <2>1, <2>3, <2>5, ReadersSame
  <2> QED
    BY <2>4, <2>6
<1>8. ASSUME NEW t \in Tid, NEW w \in Terminal, readBlock(t, w)
      PROVE NoLostWakeup' /\ NoStrandedReader'
  <2>1. /\ UNCHANGED <<threads, process, sons, terminated, waited, input>>
        /\ waiting' = [waiting EXCEPT ![t] = {w}]
        /\ target' = [target EXCEPT ![t] = AnyChild]
        /\ w \notin input
    BY <1>8 DEF readBlock, wait, procVars
  <2>2. ~ InWait(t)'
    BY <1>0, <2>1, Disjoint DEF InWait, WaitTyped
  <2>3. \A u \in threads' \ {t} : waiting'[u] = waiting[u] /\ target'[u] = target[u]
    BY <1>0, <2>1 DEF WaitTyped, SchedType
  <2>4. NoLostWakeup'
    BY <2>1, <2>2, <2>3, WakeupSame DEF Waiter
  <2>5. waiting'[t] \cap input' = {}
    BY <1>0, <2>1 DEF WaitTyped
  <2>6. NoStrandedReader'
    BY <2>1, <2>3, <2>5, ReadersSame
  <2> QED
    BY <2>4, <2>6
<1>9. ASSUME NEW t \in Tid, runRefuse(t) \/ runRefuseRead(t)
      PROVE NoLostWakeup' /\ NoStrandedReader'
  <2>1. /\ t \in threads /\ UNCHANGED <<threads, process, sons, terminated, input>>
        /\ waited' = [waited EXCEPT ![t] = NoProcess]
        /\ UNCHANGED <<waiting, target>>
    BY <1>9 DEF runRefuse, runRefuseRead, refuse, requeue, procVars
  <2>2. \/ waited[t] \in Tid /\ StillWaits(t)
        \/ waited[t] \in Terminal \ input
    BY <1>9 DEF runRefuse, runRefuseRead, StillWaits
  <2>3. waiting[t] = {waited[t]}
    BY <2>2, Disjoint DEF WaitShape, OneWait
  <2>4. \A u \in threads' \ {t} : waited'[u] = waited[u]
    BY <1>0, <2>1 DEF WaitTyped, SchedType
  <2>5. InWait(t)' => StillWaits(t)'
    BY <2>1, <2>2, <2>3, Disjoint DEF InWait, StillWaits, Candidates, Zombies
  <2>6. NoLostWakeup'
    BY <2>1, <2>4, <2>5, WakeupSame DEF Waiter
  <2>7. waiting'[t] \cap input' = {}
    BY <1>0, <2>1, <2>2, <2>3, Disjoint DEF WaitTyped
  <2>8. NoStrandedReader'
    BY <2>1, <2>4, <2>7, ReadersSame
  <2> QED
    BY <2>6, <2>8
<1>10. ASSUME NEW t \in Tid, runAcceptNoChild(t) \/ runAcceptRead(t)
       PROVE NoLostWakeup' /\ NoStrandedReader'
  <2>1. /\ UNCHANGED <<threads, process, sons, terminated>>
        /\ input' \subseteq input
        /\ accept(t, target)
    BY <1>10 DEF runAcceptNoChild, runAcceptRead, launch, consume, procVars
  <2>2. waiting'[t] = {} /\ \A u \in threads' \ {t} :
            /\ waiting'[u] = waiting[u] /\ target'[u] = target[u]
            /\ waited'[u] = waited[u]
    BY <1>0, <2>1 DEF WaitTyped, SchedType, accept
  <2>3. ~ Blocked(t)'
    BY <2>2 DEF Blocked
  <2>4. NoLostWakeup'
    BY <2>1, <2>2, <2>3, WakeupSame DEF Waiter
  <2>5. NoStrandedReader'
    BY <2>1, <2>2, <2>3, ReadersSame
  <2> QED
    BY <2>4, <2>5
<1>11. ASSUME timerPreempt \/ timerHalted PROVE NoLostWakeup' /\ NoStrandedReader'
  <2>1. PICK L \in SUBSET Terminal : kloop(L)
    BY <1>11 DEF timerPreempt, timerHalted
  <2>2. UNCHANGED <<threads, process, sons, terminated>>
    BY <1>11 DEF timerPreempt, timerHalted, procVars
  <2>3. \A t \in threads : waited'[t] = NoProcess => waited[t] = NoProcess
    BY <1>0, <2>1, KloopWaited
  <2>4. NoLostWakeup'
    BY <2>1, <2>2, <2>3 DEF kloop, NoLostWakeup, Blocked, InWait, Candidates, Zombies
  <2> QED
    BY <1>0, <2>1, <2>2, <2>4, ReadersKloop
<1>12. ASSUME UNCHANGED <<threads, process, sons, terminated, waiting, waited, target>>,
              input' \subseteq input
       PROVE NoLostWakeup' /\ NoStrandedReader'
  <2>1. NoLostWakeup'
    BY <1>12 DEF NoLostWakeup, Blocked, InWait, Candidates, Zombies
  <2>2. NoStrandedReader'
    BY <1>12 DEF NoStrandedReader, Blocked
  <2> QED
    BY <2>1, <2>2
<1>13. ASSUME NEW t \in Tid, NEW w, \/ deleteBlocked(t) \/ waitBadPid(t) \/ read(t, w)
                                    \/ runReady(t) \/ runBlocked(t)
       PROVE NoLostWakeup' /\ NoStrandedReader'
  <2>1. CASE deleteBlocked(t) \/ waitBadPid(t)
    BY <1>12, <2>1, BsodKeeps DEF schedVars, procVars, waitVars
  <2>2. CASE read(t, w)
    BY <1>12, <2>2 DEF read, consume, schedVars, procVars, waitVars
  <2>3. CASE runReady(t) \/ runBlocked(t)
    BY <1>12, <2>3 DEF runReady, runBlocked, launch, requeue, procVars, waitVars
  <2> QED
    BY <1>13, <2>1, <2>2, <2>3
<1>14. ASSUME runIdle \/ runDeleted \/ stopped \/ UNCHANGED vars
       PROVE NoLostWakeup' /\ NoStrandedReader'
  BY <1>12, <1>14 DEF runIdle, runDeleted, stopped, vars, schedVars, procVars, waitVars
<1> QED
  BY <1>1, <1>2, <1>3, <1>4, <1>5, <1>6, <1>7, <1>8, <1>9, <1>10, <1>11, <1>13, <1>14
     DEF Next, syscall, run

\* wait and Waitable::free on both sides of fork, exit, texit, exec and the reaping
\* of sons by several threads: no thread sleeps in wait without a reason.
THEOREM WakeupsKept == Spec => []WaitInv
<1>1. Init => WaitShape /\ NoLostWakeup /\ NoStrandedReader
  <2> SUFFICES ASSUME Init PROVE NoLostWakeup /\ NoStrandedReader
    BY ShapeInit
  <2>1. \A t \in threads : ~ Blocked(t)
    BY DEF Init, Blocked, Tid
  <2> QED
    BY <2>1 DEF NoLostWakeup, NoStrandedReader
<1>2. TypeOK /\ GraphInv /\ WaitShape /\ NoLostWakeup /\ NoStrandedReader /\ [Next]_vars
      => WaitShape' /\ NoLostWakeup' /\ NoStrandedReader'
  BY ShapeNext, WaitersNext
<1>3. WaitShape /\ NoLostWakeup => WaitInv
  BY DEF WaitShape, WaitInv
<1> QED
  BY <1>1, <1>2, <1>3, TypeCorrect, ObjectGraph, PTL DEF Spec

-----------------------------------------------------------------------------
(***************************************************************************)
(* The processor halts only when every thread is blocked.  During a pass   *)
(* of run() the last _runTryNum places of the queue hold threads that were *)
(* tried in vain, or tids whose thread is gone; nothing wakes a thread     *)
(* before the pass ends, and a deleted tid that is dropped makes the queue *)
(* shorter, not the part that was tried.                                   *)
(***************************************************************************)
Tried ==
    \A i \in DOMAIN threadFIFO :
        i > Len(threadFIFO) - runTryNum /\ threadFIFO[i] \in threads => Blocked(threadFIFO[i])
ScanInv ==
    /\ current # NoThread \/ halted => runTryNum = 0
    /\ current # NoThread => ~ halted
    /\ Tried
    /\ IdleOnlyIfAllBlocked

\* The scheduler is not scanning, and does not start to halt.
LEMMA ScanCalls ==
    ASSUME QueueType, QueueType', runTryNum' = 0, ~ halted'
    PROVE  ScanInv'
<1>1. Tried'
  BY DEF Tried, QueueType
<1> QED
  BY <1>1 DEF ScanInv, IdleOnlyIfAllBlocked

LEMMA ScanSame ==
    ASSUME ScanInv, UNCHANGED <<threads, threadFIFO, current, runTryNum, halted, waiting, waited>>
    PROVE  ScanInv'
BY DEF ScanInv, Tried, IdleOnlyIfAllBlocked, Blocked

\* t is tried in vain and goes to the end of the queue.
LEMMA ScanRequeue ==
    ASSUME QueueType, ScanInv, NEW t \in Tid, Popping(t), requeue(t),
           \A u \in threads : Blocked(u) => Blocked(u)', Blocked(t)'
    PROVE  ScanInv'
<1> DEFINE n == Len(threadFIFO)
<1>1. /\ threadFIFO \in Seq(Tid) /\ n \in Nat /\ n > 0 /\ runTryNum \in Nat
      /\ threadFIFO' = Append(Tail(threadFIFO), t) /\ runTryNum' = runTryNum + 1
      /\ current = NoThread /\ ~ halted /\ UNCHANGED <<threads, current, halted>>
  BY DEF QueueType, Popping, Scanning, requeue
<1>2. /\ Len(threadFIFO') = n
      /\ DOMAIN threadFIFO' = 1..n
      /\ threadFIFO'[n] = t
      /\ \A i \in 1..(n - 1) : threadFIFO'[i] = threadFIFO[i + 1]
  BY <1>1
<1>3. ASSUME NEW i \in DOMAIN threadFIFO', i > n - (runTryNum + 1),
             NEW u \in threads, threadFIFO'[i] = u
      PROVE  Blocked(u)'
  <2>1. CASE i = n
    BY <1>2, <1>3, <2>1
  <2>2. CASE i # n
    <3>1. i \in 1..(n - 1) /\ i + 1 \in DOMAIN threadFIFO /\ i + 1 > n - runTryNum
      BY <1>1, <1>2, <1>3, <2>2
    <3>2. Blocked(u)
      BY <1>2, <1>3, <3>1 DEF ScanInv, Tried
    <3> QED
      BY <3>2
  <2> QED
    BY <2>1, <2>2
<1>4. Tried'
  BY <1>1, <1>2, <1>3, ZenonT(60) DEF Tried, Blocked
<1> QED
  BY <1>1, <1>4 DEF ScanInv, IdleOnlyIfAllBlocked

LEMMA ScanDeleted ==
    ASSUME QueueType, ScanInv, runDeleted
    PROVE  ScanInv'
<1> DEFINE n == Len(threadFIFO)
<1>1. /\ threadFIFO \in Seq(Tid) /\ n \in Nat /\ n > 0 /\ runTryNum \in Nat
      /\ threadFIFO' = Tail(threadFIFO)
      /\ current = NoThread /\ ~ halted
      /\ UNCHANGED <<threads, current, halted, runTryNum, waiting, waited>>
  BY DEF QueueType, Popping, Scanning, runDeleted, waitVars
<1>2. /\ Len(threadFIFO') = n - 1
      /\ DOMAIN threadFIFO' = 1..(n - 1)
      /\ \A i \in 1..(n - 1) : threadFIFO'[i] = threadFIFO[i + 1]
  BY <1>1
<1>3. ASSUME NEW i \in 1..(n - 1), i > (n - 1) - runTryNum, threadFIFO'[i] \in threads
      PROVE  Blocked(threadFIFO[i + 1])
  <2>1. i + 1 \in DOMAIN threadFIFO /\ i + 1 > n - runTryNum
    BY <1>1, <1>3
  <2> QED
    BY <1>2, <1>3, <2>1 DEF ScanInv, Tried
<1>4. Tried'
  BY <1>1, <1>2, <1>3, ZenonT(60) DEF Tried, Blocked
<1> QED
  BY <1>1, <1>4 DEF ScanInv, IdleOnlyIfAllBlocked

\* When every place of the queue has been tried, every thread is blocked.
LEMMA ScanIdle ==
    ASSUME TypeOK, NoThreadLost, ScanInv, runIdle
    PROVE  ScanInv'
<1>1. /\ runTryNum >= Len(threadFIFO) /\ runTryNum' = 0 /\ runTryNum \in Nat
      /\ Len(threadFIFO) \in Nat /\ DOMAIN threadFIFO = 1..Len(threadFIFO)
      /\ current = NoThread /\ threads \subseteq Tid
      /\ UNCHANGED <<threads, threadFIFO, current, waiting, waited>>
  BY DEF runIdle, AllTried, Scanning, TypeOK, QueueType, SchedType, waitVars
<1>2. ASSUME NEW t \in threads PROVE Blocked(t)
  <2>1. PICK i \in DOMAIN threadFIFO : threadFIFO[i] = t
    BY <1>1 DEF NoThreadLost, Queued
  <2>2. i > Len(threadFIFO) - runTryNum
    BY <1>1, <2>1
  <2> QED
    BY <2>1, <2>2 DEF ScanInv, Tried
<1>3. Tried'
  BY <1>1 DEF Tried
<1> QED
  BY <1>1, <1>2, <1>3 DEF ScanInv, IdleOnlyIfAllBlocked, Blocked

LEMMA ScanNext ==
    ASSUME TypeOK, TypeOK', NoThreadLost, WaitShape, ScanInv, [Next]_vars
    PROVE  ScanInv'
<1>0. QueueType /\ QueueType' /\ SchedType /\ WaitTyped
  BY Typed DEF TypeOK
<1>1. ASSUME current # NoThread, UNCHANGED <<runTryNum, halted>> PROVE ScanInv'
  BY <1>0, <1>1, ScanCalls DEF ScanInv
<1>2. ASSUME NEW t \in Tid, syscall(t) PROVE ScanInv'
  <2>1. current # NoThread
    BY <1>2, Zenon DEF syscall, fork, clone, exit, deleteBlocked, texit, exec, waitReap,
       waitBlock, read, readBlock, waitBadPid, Running
  <2>2. CASE deleteBlocked(t) \/ waitBadPid(t)
    BY <1>1, <2>1, <2>2, BsodKeeps DEF schedVars
  <2>3. CASE fork(t) \/ clone(t) \/ exit(t) \/ texit(t) \/ exec(t)
    BY <1>1, <2>1, <2>3 DEF fork, clone, exit, texit, exec
  <2>4. ASSUME NEW tg, waitReap(t, tg) \/ waitBlock(t, tg) \/ read(t, tg) \/ readBlock(t, tg)
        PROVE ScanInv'
    BY <1>1, <2>1, <2>4 DEF waitReap, waitBlock, read, readBlock, schedVars
  <2> QED
    BY <1>2, <2>2, <2>3, <2>4 DEF syscall
<1>3. ASSUME timerPreempt PROVE ScanInv'
  BY <1>1, <1>3 DEF timerPreempt
<1>4. ASSUME timerHalted PROVE ScanInv'
  BY <1>0, <1>4, ScanCalls DEF timerHalted, ScanInv
<1>5. ASSUME NEW t \in Tid,
             runReady(t) \/ runAcceptReap(t) \/ runAcceptNoChild(t) \/ runAcceptRead(t)
      PROVE ScanInv'
  <2>1. launch(t) /\ ~ halted
    BY <1>5 DEF runReady, runAcceptReap, runAcceptNoChild, runAcceptRead, Popping, Scanning
  <2> QED
    BY <1>0, <2>1, ScanCalls DEF launch
<1>6. ASSUME NEW t \in Tid, runBlocked(t) PROVE ScanInv'
  <2>1. Popping(t) /\ requeue(t) /\ UNCHANGED <<waiting, waited>> /\ Blocked(t)
    BY <1>6 DEF runBlocked, waitVars, Blocked
  <2> QED
    BY <1>0, <2>1, ScanRequeue DEF Blocked
<1>7. ASSUME NEW t \in Tid, runRefuse(t) \/ runRefuseRead(t) PROVE ScanInv'
  <2>1. /\ Popping(t) /\ requeue(t) /\ waited[t] \in Waitable
        /\ waited' = [waited EXCEPT ![t] = NoProcess] /\ UNCHANGED waiting
    BY <1>7 DEF runRefuse, runRefuseRead, refuse
  <2>2. waiting[t] # {}
    BY <2>1, Disjoint DEF WaitShape, OneWait
  <2>3. Blocked(t)' /\ \A u \in threads : Blocked(u) => Blocked(u)'
    BY <1>0, <2>1, <2>2 DEF Blocked, WaitTyped, SchedType
  <2> QED
    BY <1>0, <2>1, <2>3, ScanRequeue
<1>8. ASSUME stopped \/ UNCHANGED vars PROVE ScanInv'
  BY <1>8, ScanSame DEF stopped, vars, schedVars, waitVars
<1> QED
  BY <1>0, <1>2, <1>3, <1>4, <1>5, <1>6, <1>7, <1>8, ScanDeleted, ScanIdle DEF Next, run

\* Nobody is forgotten, for ever: neither by the windows, whose lines wake every
\* reader, nor by the scheduler, whose passes end in a halt only if they must.
THEOREM NobodyIsForgotten == Spec => []NobodyForgotten
<1>1. Init => WaitShape /\ NoLostWakeup /\ NoStrandedReader /\ ScanInv
  <2> SUFFICES ASSUME Init PROVE NoLostWakeup /\ NoStrandedReader /\ ScanInv
    BY ShapeInit
  <2>1. \A t \in threads : ~ Blocked(t)
    BY DEF Init, Blocked, Tid
  <2>2. ScanInv
    BY DEF Init, ScanInv, Tried, IdleOnlyIfAllBlocked
  <2> QED
    BY <2>1, <2>2 DEF NoLostWakeup, NoStrandedReader
<1>2. TypeOK /\ TypeOK' /\ GraphInv /\ ThreadInv /\ WaitShape /\ NoLostWakeup
      /\ NoStrandedReader /\ ScanInv /\ [Next]_vars
      => WaitShape' /\ NoLostWakeup' /\ NoStrandedReader' /\ ScanInv'
  BY ShapeNext, WaitersNext, ScanNext DEF ThreadInv
<1>3. NoStrandedReader /\ ScanInv => NobodyForgotten
  BY DEF ScanInv, NobodyForgotten
<1> QED
  BY <1>1, <1>2, <1>3, TypeCorrect, ObjectGraph, ThreadsKept, PTL DEF Spec

-----------------------------------------------------------------------------
(***************************************************************************)
(* The life cycle.                                                         *)
(***************************************************************************)
LEMMA LifeInit == Init => Life!Init
BY DEF Init, Life!Init, LifeState

\* A pid without process has no parent: what the memory of a destroyed process
\* says is not part of the life cycle.
DeadParent == \A p \in Tid \ processes : parent[p] = NoProcess

\* What a step of ProcessLife reads in a state of the kernel.
LEMMA LifeOf ==
    ASSUME NEW p \in Tid
    PROVE  /\ LifeState[p] = "destroyed" <=> p \notin processes
           /\ LifeState[p] = "zombie" <=> p \in processes /\ p \in terminated
           /\ LifeState[p] = "active" <=> p \in processes /\ p \notin terminated
BY DEF LifeState

\* A process that owns a thread is alive, and so is init.
LEMMA Acts ==
    ASSUME TypeOK, GraphInv, power = "on", NEW t \in threads
    PROVE  process[t] \in Tid /\ Life!Alive(process[t])
<1>1. process[t] \in processes /\ process[t] \in Tid /\ t \in Tid
  BY DEF TypeOK, SchedType, ProcType, GraphInv, Registered
<1>2. t \in pthreads[process[t]]
  BY <1>1 DEF GraphInv, ThreadsOwned
<1>3. process[t] \notin terminated
  BY <1>1, <1>2 DEF GraphInv, ZombieIffThreadless
<1>4. InitPid \in processes /\ InitPid \notin terminated
  BY DEF GraphInv, Registered
<1> QED
  BY <1>1, <1>3, <1>4, LifeOf DEF Life!Alive

LEMMA LifeFork ==
    ASSUME TypeOK, GraphInv, NEW t \in Tid, fork(t)
    PROVE  Life!Next
<1>1. t \in threads /\ power = "on"
  BY DEF fork, Running, GraphInv, Registered
<1>2. PICK q \in tids :
        /\ processes' = processes \cup {q}
        /\ parent' = [parent EXCEPT ![q] = process[t]]
  BY DEF fork
<1>3. terminated' = terminated
  BY DEF fork
<1>4. q \in Tid /\ q \notin processes /\ q \notin terminated
  BY DEF TypeOK, SchedType, GraphInv, TidsAccounted, Registered
<1>5. LifeState' = [LifeState EXCEPT ![q] = "active"]
  BY <1>2, <1>3, <1>4 DEF LifeState
<1>6. LifeState[q] = "destroyed" /\ LifeState'[q] # LifeState[q]
  BY <1>4, <1>5 DEF LifeState
<1>7. Life!Fork(process[t], q)
  BY <1>1, <1>2, <1>5, <1>6, Acts DEF Life!Fork
<1> QED
  BY <1>1, <1>4, <1>6, <1>7, Acts DEF Life!Next

LEMMA LifeDie ==
    ASSUME TypeOK, GraphInv, power = "on", NEW t \in threads,
           terminated' = terminated \cup {process[t]}, UNCHANGED <<processes, parent>>
    PROVE  Life!Next
<1> DEFINE p == process[t]
<1>1. p \in Tid /\ Life!Alive(p)
  BY Acts
<1>2. p \in processes /\ p \notin terminated
  BY <1>1, LifeOf DEF Life!Alive
<1> HIDE DEF p
<1>3. LifeState' = [LifeState EXCEPT ![p] = "zombie"]
  BY <1>1, <1>2 DEF LifeState, p
<1>4. LifeState'[p] # LifeState[p]
  BY <1>1, <1>2, <1>3 DEF LifeState
<1>5. Life!Die(p)
  BY <1>1, <1>3 DEF Life!Die
<1> QED
  BY <1>1, <1>4, <1>5 DEF Life!Next

LEMMA LifeReap ==
    ASSUME TypeOK, GraphInv, DeadParent, power = "on", NEW t \in threads,
           NEW q \in terminated, q \in sons[process[t]], deleteProcess(q)
    PROVE  Life!Next
<1> DEFINE p == process[t]
<1>1. p \in Tid /\ Life!Alive(p)
  BY Acts
<1>2. q \in processes /\ q \in Tid /\ parent[q] = p
  BY <1>1 DEF TypeOK, ProcType, GraphInv, Registered, Hierarchy
<1>3. LifeState[q] = "zombie"
  BY <1>2, LifeOf
<1>4. LifeState' = [LifeState EXCEPT ![q] = "destroyed"]
  BY <1>2 DEF LifeState, deleteProcess
<1>5. parent' = [r \in Tid |-> IF r = q THEN NoProcess
                               ELSE IF parent[r] = q THEN InitPid ELSE parent[r]]
  <2>1. \A r \in Tid \ {q} : r \in sons[q] <=> parent[r] = q
    BY <1>2 DEF TypeOK, ProcType, GraphInv, Hierarchy, DeadParent
  <2> QED
    BY <2>1 DEF deleteProcess, orphanParent
<1>6. Life!Reap(p, q)
  BY <1>1, <1>2, <1>3, <1>4, <1>5 DEF Life!Reap
<1>7. LifeState'[q] # LifeState[q]
  BY <1>2, <1>3, <1>4 DEF LifeState
<1> QED
  BY <1>1, <1>2, <1>6, <1>7 DEF Life!Next

LEMMA LifeSame ==
    ASSUME DeadParent, UNCHANGED <<processes, terminated, parent>>
    PROVE  UNCHANGED <<LifeState, parent>> /\ DeadParent'
BY DEF LifeState, DeadParent

LEMMA LifeNext ==
    ASSUME TypeOK, GraphInv, DeadParent, [Next]_vars
    PROVE  (Life!Next \/ UNCHANGED <<LifeState, parent>>) /\ DeadParent'
<1>0. Registered /\ ProcType /\ SchedType /\ Hierarchy
  BY DEF TypeOK, GraphInv
<1> DEFINE Goal == (Life!Next \/ UNCHANGED <<LifeState, parent>>) /\ DeadParent'
<1>1. ASSUME NEW t \in Tid, fork(t) PROVE Goal
  <2>1. PICK q \in tids : /\ processes' = processes \cup {q}
                          /\ parent' = [parent EXCEPT ![q] = process[t]]
    BY <1>1 DEF fork
  <2>2. DeadParent'
    BY <1>0, <2>1 DEF DeadParent, ProcType
  <2> QED
    BY <1>1, <2>2, LifeFork
<1>2. ASSUME NEW t \in Tid, exit(t) \/ texit(t) PROVE Goal
  <2>1. t \in threads /\ power = "on" /\ UNCHANGED <<processes, parent>>
    BY <1>0, <1>2 DEF exit, texit, Running, Registered
  <2>2. DeadParent'
    BY <2>1 DEF DeadParent
  <2>3. terminated' = terminated \/ terminated' = terminated \cup {process[t]}
    BY <1>2, Zenon DEF exit, texit, terminate
  <2>4. CASE terminated' = terminated
    BY <2>1, <2>4, LifeSame
  <2>5. CASE terminated' = terminated \cup {process[t]}
    BY <2>1, <2>2, <2>5, LifeDie
  <2> QED
    BY <2>3, <2>4, <2>5
<1>3. ASSUME NEW t \in threads, power = "on", NEW q \in terminated,
             q \in sons[process[t]], deleteProcess(q)
      PROVE Goal
  <2>1. \A r \in sons[q] : r \in processes
    BY <1>0, <1>3 DEF Hierarchy, ProcType, Registered, SchedType
  <2>2. q \in Tid /\ process[t] \in Tid
    BY <1>0 DEF ProcType, SchedType
  <2>3. DeadParent'
    BY <1>0, <1>3, <2>1, <2>2 DEF DeadParent, deleteProcess, orphanParent
  <2> QED
    BY <1>3, <2>3, LifeReap
<1>4. ASSUME NEW t \in Tid, NEW tg, waitReap(t, tg) PROVE Goal
  <2>1. t \in threads /\ power = "on"
    BY <1>0, <1>4 DEF waitReap, Running, Registered
  <2>2. PICK q \in terminated : q \in sons[process[t]] /\ deleteProcess(q)
    BY <1>4 DEF waitReap, Zombies, Candidates
  <2> QED
    BY <1>3, <2>1, <2>2
<1>5. ASSUME NEW t \in Tid, runAcceptReap(t) PROVE Goal
  <2>1. t \in threads /\ power = "on"
    BY <1>5 DEF runAcceptReap, Popping, Scanning
  <2>2. PICK q \in terminated : q \in sons[process[t]] /\ deleteProcess(q)
    BY <1>5 DEF runAcceptReap, Zombies, Candidates
  <2> QED
    BY <1>3, <2>1, <2>2
<1>6. ASSUME UNCHANGED <<processes, terminated, parent>> PROVE Goal
  BY <1>6, LifeSame
<1> HIDE DEF Goal
<1>7. ASSUME NEW t \in Tid, syscall(t) PROVE Goal
  <2>1. CASE deleteBlocked(t) \/ waitBadPid(t)
    BY <1>6, <2>1, BsodKeeps DEF schedVars, procVars
  <2>2. CASE clone(t) \/ exec(t)
    BY <1>6, <2>2 DEF clone, exec
  <2>3. ASSUME NEW w, waitBlock(t, w) \/ read(t, w) \/ readBlock(t, w) PROVE Goal
    BY <1>6, <2>3 DEF waitBlock, read, readBlock, schedVars, procVars
  <2> QED
    BY <1>1, <1>2, <1>4, <1>7, <2>1, <2>2, <2>3 DEF syscall
<1>8. ASSUME run PROVE Goal
  <2>1. CASE runIdle \/ runDeleted
    BY <1>6, <2>1 DEF runIdle, runDeleted, procVars
  <2>2. ASSUME NEW t \in Tid, \/ runReady(t) \/ runBlocked(t) \/ runRefuse(t)
                              \/ runAcceptNoChild(t) \/ runRefuseRead(t) \/ runAcceptRead(t)
        PROVE Goal
    BY <1>6, <2>2 DEF runReady, runBlocked, runRefuse, runAcceptNoChild, runRefuseRead,
                      runAcceptRead, procVars
  <2> QED
    BY <1>5, <1>8, <2>1, <2>2 DEF run
<1>9. ASSUME timerPreempt \/ timerHalted \/ stopped \/ UNCHANGED vars PROVE Goal
  BY <1>6, <1>9 DEF timerPreempt, timerHalted, stopped, vars, schedVars, procVars
<1>10. Goal
  BY <1>7, <1>8, <1>9 DEF Next
<1> QED
  BY <1>10 DEF Goal

\* Whatever the threads do, a process is active, then a zombie, then destroyed by its
\* parent, and the children it leaves belong to init: fork, exit, texit and wait are
\* the only calls that change the hierarchy.
THEOREM LifeImplemented == Spec => ImplementsLife
<1>1. Init => Life!Init /\ DeadParent
  BY LifeInit DEF Init, DeadParent
<1>2. TypeOK /\ GraphInv /\ DeadParent /\ [Next]_vars
      => [Life!Next]_<<LifeState, parent>> /\ DeadParent'
  BY LifeNext
<1> QED
  BY <1>1, <1>2, TypeCorrect, ObjectGraph, PTL DEF Spec, ImplementsLife, Life!Spec
=============================================================================
