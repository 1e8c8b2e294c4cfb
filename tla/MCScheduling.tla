---------------------------- MODULE MCScheduling ----------------------------
(***************************************************************************)
(* What the scheduler owes for ever, for model checking: the ticks of the  *)
(* timer (Timer), which say when a thread is preempted and the screen      *)
(* rendered, and the threads (Processes), for which preemption is an event *)
(* that keeps coming.  The two share no variable: a behaviour is one of    *)
(* either machine, chosen at the start.                                    *)
(***************************************************************************)
EXTENDS Processes

CONSTANTS processQuantum, renderingQuantum

VARIABLES machine, mode, remainingTime, timeToRendering, ran
timerVars == <<mode, remainingTime, timeToRendering, ran>>

Clock == INSTANCE Timer

ASSUME QuantaFit == Clock!QuantaFit

MCInit == Init /\ Clock!Init /\ machine \in {"timer", "threads"}
MCNext ==
    /\ UNCHANGED machine
    /\ \/ machine = "timer" /\ Clock!Next /\ UNCHANGED vars
       \/ machine = "threads" /\ Next /\ UNCHANGED timerVars

\* The fairness of the machine that runs: Timer!Fairness or Fairness.
MCFairness ==
    /\ WF_timerVars(machine = "timer" /\ Clock!doneRender)
    /\ WF_timerVars(machine = "timer" /\ (Clock!launch \/ Clock!idle))
    /\ WF_timerVars(machine = "timer" /\ Clock!tickHalted)
    /\ WF_timerVars(machine = "timer" /\ (Clock!stopCurent \/ Clock!sysret \/ Clock!sysleave))
    /\ SF_timerVars(machine = "timer" /\ Clock!tickUser)
    /\ WF_vars(machine = "threads" /\ run)
    /\ WF_vars(machine = "threads" /\ timerPreempt)
    /\ WF_vars(machine = "threads" /\ timerHalted)

MCSpec == MCInit /\ [][MCNext]_<<machine, vars, timerVars>> /\ MCFairness

\* The time slices of Timer.
QuantumRespected == Clock!QuantumRespected

\* RenderedForever of Timer: the screen, the keyboard and the mouse are served again
\* and again, whatever the threads do with the instruction syscall.
ScreenServed == machine = "timer" => Clock!RenderedForever

\* ReadyThreadRuns and WaiterServed, of the behaviours in which there are threads.
ReadyRuns == machine = "threads" => ReadyThreadRuns
WaitServed == machine = "threads" => WaiterServed
=============================================================================
