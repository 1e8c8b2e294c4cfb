------------------------------- MODULE MCPipes -------------------------------
(***************************************************************************)
(* Pipes for model checking, in two shapes: three threads in up to three   *)
(* processes with the two descriptors of a pipe and one byte; or two       *)
(* threads with a third descriptor (in one process), two bytes and partial *)
(* reads, where descriptors are duplicated and the vector grows.           *)
(* The shape bounds system calls only, never the threads that are woken.   *)
(***************************************************************************)
EXTENDS Pipes

VARIABLE shape

Wide ==
    /\ \A p \in Tid : Len(fds'[p]) <= 5
    /\ \A k \in Pipe : written'[k] <= 1
    /\ \A t \in Tid : waiting'[t] # None => call'[t][2] = 1
Deep ==
    /\ processes' \subseteq 1..2
    /\ 2 \in processes' => Len(fds'[1]) <= 5
    /\ \A t \in Tid \ (1..2) : process'[t] = NoProcess

MCInit == Init /\ shape \in {"wide", "deep"}
MCNext == /\ Next /\ UNCHANGED shape
          /\ shape = "wide" => Wide
          /\ shape = "deep" => Deep
MCSpec == MCInit /\ [][MCNext]_<<vars, shape>> /\ Fairness

\* "If it is 0, it means EOF" of sysread: a reader that is blocked when the last
\* write end is closed gets the result 0, unless its descriptor is changed.
EofDelivered ==
    \A t \in Tid :
        (Blocked(t) /\ Readable(ReadDesc(t)) /\ AtEof(ReadDesc(t)))
        ~> (~Blocked(t) \/ ~Readable(ReadDesc(t)) \/ power # "on")
=============================================================================
