------------------------------- MODULE MCLibc -------------------------------
(***************************************************************************)
(* The heap and the containers of the C and C++ libraries.  They share no  *)
(* state: a behaviour is one of the heap, of a deque, a vector or a map.   *)
(* The streams of the C library have no state: their functions are         *)
(* compared with what they should compute before the behaviours start.     *)
(***************************************************************************)
EXTENDS Malloc, Containers, TLC

VARIABLE machine     \* the part that runs in this behaviour

mcvars == <<vars, containers, machine>>

MCInit == Init /\ ContainersInit /\ machine \in {"heap", "deque", "vector", "map"}

MCNext ==
    \/ machine = "heap" /\ Next /\ UNCHANGED <<containers, machine>>
    \/ machine = "deque" /\ DequeCall /\ UNCHANGED <<vars, machine>>
    \/ machine = "vector" /\ VectorCall /\ UNCHANGED <<vars, machine>>
    \/ machine = "map" /\ MapCall /\ UNCHANGED <<vars, machine>>

MCSpec == MCInit /\ [][MCNext]_mcvars

\* Clients are interchangeable.
Symmetry == Permutations(Client)

-----------------------------------------------------------------------------
Io == INSTANCE Stdio

ASSUME NumbersPrinted ==
    \A n \in 0..120 \cup {255, 256, 999, 1000} : \A base \in {10, 16}, padding \in 0..4 :
        \A room \in {0, 2, 4, 1000} : Io!PrintsNumber(n, base, padding, room)

Conversions ==
    [conv : {"u", "d", "x"}, long : BOOLEAN, pad : {0, 3}, arg : {0, 7, 8, 127, 128, 255}]
    \cup [conv : {"s"}, arg : {<<>>, <<65, 66>>}] \cup [conv : {"char"}, arg : {37}]
ASSUME FormatsCounted ==
    \A i, j \in Conversions, room \in {3, 1000} : Io!CountsCharacters(<<i, j>>, room)

Chars == {Io!Newline, 65, 66}
ASSUME LinesRead ==
    \A n \in 0..4, num \in 0..4 : \A input \in [1..n -> Chars] : Io!ReadsLine(num, input)

ASSUME TransfersWhole ==
    \A n \in 0..4, size \in 1..3, count \in 0..2 :
        \A answers \in [1..n -> 0..3] : Io!TransfersAll(size, count, answers)

-----------------------------------------------------------------------------
Sys == INSTANCE SystemCalls

ASSUME CallsReachHandlers ==
    /\ Sys!TableSound
    /\ \A call \in Sys!syscallFill : Sys!ReachesHandler(call)

ASSUME AnswersSeen == \A errno \in 0..11 : Sys!AnswerSeen(errno)
=============================================================================
