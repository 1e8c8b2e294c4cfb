----------------------------- MODULE ProcessLife -----------------------------
(***************************************************************************)
(* What the process system promises (pages "Process System" and "Process   *)
(* protocols" of Process.h): a process is active, then a zombie, then      *)
(* destroyed; the processes form a hierarchy rooted at init; a zombie is   *)
(* destroyed only by its parent, and its children then belong to init.     *)
(***************************************************************************)
EXTENDS Naturals

CONSTANTS Pid, InitPid, NoProcess

VARIABLES state,      \* "active", "zombie" or "destroyed"
          parent

Init ==
    /\ state = [p \in Pid |-> IF p = InitPid THEN "active" ELSE "destroyed"]
    /\ parent = [p \in Pid |-> NoProcess]

\* Nothing happens any more once init is dead.
Alive(p) == state[InitPid] = "active" /\ state[p] = "active"

Fork(p, q) ==
    /\ Alive(p)
    /\ state[q] = "destroyed"
    /\ state' = [state EXCEPT ![q] = "active"]
    /\ parent' = [parent EXCEPT ![q] = p]

Die(p) ==
    /\ Alive(p)
    /\ state' = [state EXCEPT ![p] = "zombie"]
    /\ UNCHANGED parent

Reap(p, q) ==
    /\ Alive(p)
    /\ state[q] = "zombie" /\ parent[q] = p
    /\ state' = [state EXCEPT ![q] = "destroyed"]
    /\ parent' = [r \in Pid |-> IF r = q THEN NoProcess
                                ELSE IF parent[r] = q THEN InitPid ELSE parent[r]]

\* Every step changes the state of one process, q.
Next ==
    \E q \in Pid : /\ state'[q] # state[q]
                   /\ Die(q) \/ \E p \in Pid : Fork(p, q) \/ Reap(p, q)

Spec == Init /\ [][Next]_<<state, parent>>
=============================================================================
