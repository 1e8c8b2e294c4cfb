------------------------------ MODULE MCMemory ------------------------------
(***************************************************************************)
(* The memory of user processes (UserMemory) and that of the kernel        *)
(* (Frames) for model checking.  The kernel's part of the page tables and  *)
(* that of a process are different entries of the PML4: a behaviour is one *)
(* of the user memories or one of the kernel's memory.                     *)
(***************************************************************************)
EXTENDS UserMemory

CONSTANTS WordBits, Large, KernelFan, KernelFrames, BootFrames, NbSlots, Touched

VARIABLES kmem, kmmu, slots, use, flat, stop,
          machine     \* the part that runs in this behaviour
kernelVars == <<kmem, kmmu, slots, use, flat, stop>>

Kernel == INSTANCE Frames WITH
    mem <- kmem, mmu <- kmmu, Fan <- KernelFan, NbFrames <- KernelFrames
ASSUME KernelShape == Kernel!FramesShape

MCInit == Init /\ Kernel!Init /\ machine \in {"user", "kernel"}
MCNext ==
    /\ UNCHANGED machine
    /\ \/ machine = "user" /\ Next /\ UNCHANGED kernelVars
       \/ machine = "kernel" /\ Kernel!Next /\ UNCHANGED vars
MCSpec == MCInit /\ [][MCNext]_<<machine, vars, kernelVars>>

\* The properties of the kernel's memory, which Frames states.
MapExact == Kernel!MapExact
FramesExclusive == Kernel!FramesExclusive

-----------------------------------------------------------------------------
UserPage == {v \in Vpn : v >= ProgramPage}

\* What the processes see in their pages.
Seen(u) ==
    LET T == tree(mem, pdp[u])
    IN  UNION {{u} \X {v} \X UNION {held(mem, f) : f \in Translate(u, v, T)} :
                   v \in Mapped(T) \cap UserPage}

Space == UNION {Seen(u) : u \in {w \in Proc : phase[w] = "alive"}}
Active == {u \in Proc : Current(u)}
Spaces == INSTANCE AddressSpaces
            WITH Vpn <- UserPage, Data <- Content, space <- Space, running <- Active

\* A program writes through a page that it gave back.
StrayStore == \E u \in Proc, v \in Stored, c \in Data : GivenBack(u, v) /\ store(u, v, c)

\* Process isolation: the copy of fork is deep, and no fork, exec, brk, exit, wait,
\* switch or write changes what another process sees, whichever frames are reused;
\* nothing but a write through a page that the program gave back does, and what it
\* changes is again isolated from then on.
ImplementsAddressSpaces == Spaces!Init /\ [][Spaces!Next \/ StrayStore]_<<Space, Active>>
=============================================================================
