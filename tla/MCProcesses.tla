----------------------------- MODULE MCProcesses -----------------------------
(***************************************************************************)
(* The model-checked instances of Processes: what the documentation and    *)
(* the assertions of the process system say and the code does not do, and  *)
(* the refinement of ProcessLife.                                          *)
(***************************************************************************)
EXTENDS Processes

\* "assert(!_waited && _waiting.empty())" of ~Waiting: no thread is deleted
\* while it is blocked.
NoBlockedThreadDeleted == power # "~Waiting"

\* "The deriving class must call this when something happen." of Waitable::free:
\* a thread of init is not left blocked when init gets an orphan that is dead.
NoLostOrphan ==
    \A t \in threads : Blocked(t) /\ InWait(t) /\ process[t] = InitPid =>
        Zombies(InitPid, target[t]) = {}

-----------------------------------------------------------------------------
\* What is explored: families of any shape while no window is used, and threads of
\* three tids that read windows as well.  Longer queues and windows together are
\* MCScheduling's.
InUse == {w \in Terminal : w \in input \/ \E t \in threads : w \in waiting[t]}
Bounds == InUse # {} => threads \cup processes \subseteq 1..3 /\ Len(threadFIFO) < MaxFIFO

\* The state of a process as the page "Process protocols" of Process.h names it.
LifeState ==
    [p \in Tid |-> IF p \notin processes THEN "destroyed"
                   ELSE IF p \in terminated THEN "zombie" ELSE "active"]

Life == INSTANCE ProcessLife WITH Pid <- Tid, state <- LifeState, parent <- parent

\* The scheduler, the threads and the wait protocol implement the life cycle of
\* processes: fork, death and reaping by the parent are the only changes.
ImplementsLife == Life!Spec
=============================================================================
