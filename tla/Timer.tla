-------------------------------- MODULE Timer --------------------------------
(***************************************************************************)
(* The two tick counters of the scheduler, _remainingTime and              *)
(* _timeToRendering, against everything a tick can hit: user code, a       *)
(* system call, rendering, run() or the halted processor.  A thread enters *)
(* the kernel with the instruction syscall, whose return path does not     *)
(* look at the counters, or with int 0x80, which ends in sysleave.         *)
(* Processes.tla models what run() does with the threads.                  *)
(***************************************************************************)
EXTENDS Integers

CONSTANTS processQuantum,      \* 5 in Scheduler.h
          renderingQuantum     \* 60 in Scheduler.h

\* Both are u8.
QuantaFit ==
    /\ processQuantum \in 1..255
    /\ renderingQuantum \in 1..255

VARIABLES
    mode,              \* what executes: "user", "syscall", "int80", "kloop", "run", "halted"
    remainingTime,
    timeToRendering,
    ran                \* ghost: ticks that have hit user code since the thread was launched

vars == <<mode, remainingTime, timeToRendering, ran>>

Mode == {"user", "syscall", "int80", "kloop", "run", "halted"}

\* The types of the counters, u8 in the code, and of the ghost.
TypeOK ==
    /\ mode \in Mode
    /\ remainingTime \in 0..processQuantum
    /\ timeToRendering \in 0..renderingQuantum
    /\ ran \in 0..processQuantum

\* kmain calls run() with both counters at 0.
Init ==
    /\ mode = "run"
    /\ remainingTime = 0
    /\ timeToRendering = 0
    /\ ran = 0

Decr(n) == IF n > 0 THEN n - 1 ELSE 0

\* The beginning of timerHandler.
Tick ==
    /\ remainingTime' = Decr(remainingTime)
    /\ timeToRendering' = Decr(timeToRendering)

\* The end of timerHandler in user mode: rendering and preemption, preemption, or
\* return to the thread.
AfterUserTick ==
    IF timeToRendering' = 0 THEN "kloop"
    ELSE IF remainingTime' = 0 THEN "run" ELSE "user"

tickUser ==
    /\ mode = "user"
    /\ Tick
    /\ ran' = ran + 1
    /\ mode' = AfterUserTick

\* rip is in the kernel: timerHandler returns at once.
tickKernel ==
    /\ mode \in {"syscall", "int80", "kloop", "run"}
    /\ Tick
    /\ UNCHANGED <<mode, ran>>

tickHalted ==
    /\ mode = "halted"
    /\ Tick
    /\ mode' = IF timeToRendering' = 0 THEN "kloop" ELSE "run"
    /\ UNCHANGED ran

\* The end of kloop(), followed by run().
doneRender ==
    /\ mode = "kloop"
    /\ timeToRendering' = renderingQuantum
    /\ mode' = "run"
    /\ UNCHANGED <<remainingTime, ran>>

\* Mutant of launch: the rendering counter starts again with every thread.
LaunchResetsBoth ==
    /\ mode = "run"
    /\ remainingTime' = processQuantum
    /\ timeToRendering' = renderingQuantum
    /\ ran' = 0
    /\ mode' = "user"

\* run() finds a thread, or halts.
launch ==
    /\ mode = "run"
    /\ remainingTime' = processQuantum
    /\ ran' = 0
    /\ mode' = "user"
    /\ UNCHANGED timeToRendering
idle ==
    /\ mode = "run"
    /\ mode' = "halted"
    /\ UNCHANGED <<remainingTime, timeToRendering, ran>>

syscall ==
    /\ mode = "user"
    /\ mode' \in {"syscall", "int80"}
    /\ UNCHANGED <<remainingTime, timeToRendering, ran>>

\* A system call that blocks or ends the thread.
stopCurent ==
    /\ mode \in {"syscall", "int80"}
    /\ mode' = "run"
    /\ UNCHANGED <<remainingTime, timeToRendering, ran>>

\* Mutant of sysret: the thread gets its quantum back.
SysretRefills ==
    /\ mode = "syscall"
    /\ mode' = "user"
    /\ remainingTime' = processQuantum
    /\ UNCHANGED <<timeToRendering, ran>>

\* sysretq.
sysret ==
    /\ mode = "syscall"
    /\ mode' = "user"
    /\ UNCHANGED <<remainingTime, timeToRendering, ran>>

canReturn == remainingTime > 0
souldRender == timeToRendering = 0

sysleave ==
    /\ mode = "int80"
    /\ mode' = IF canReturn THEN "user" ELSE IF souldRender THEN "kloop" ELSE "run"
    /\ UNCHANGED <<remainingTime, timeToRendering, ran>>

Next ==
    \/ tickUser \/ tickKernel \/ tickHalted
    \/ doneRender \/ launch \/ idle
    \/ syscall \/ stopCurent \/ sysret \/ sysleave

Spec == Init /\ [][Next]_vars

\* kloop, run and the system calls come to an end, the timer wakes the halted
\* processor, and, as ticks are not synchronised with the thread, a thread that
\* keeps coming back to user mode is hit there by a tick some day.
Fairness ==
    /\ WF_vars(doneRender) /\ WF_vars(launch \/ idle) /\ WF_vars(tickHalted)
    /\ WF_vars(stopCurent \/ sysret \/ sysleave)
    /\ SF_vars(tickUser)
FairSpec == Spec /\ Fairness

-----------------------------------------------------------------------------
\* A thread is never hit by more than processQuantum ticks before it is preempted,
\* and is not resumed once it has been hit by that many: rendering, system calls
\* and ticks in the kernel do not give it time back.
QuantumRespected ==
    /\ ran + remainingTime <= processQuantum
    /\ mode \in {"user", "syscall", "int80"} => ran < processQuantum

\* The screen, the keyboard and the mouse are served for ever: kloop runs again
\* and again, also when a thread spends its time in system calls.
RenderedForever == []<>(mode = "kloop")
=============================================================================
