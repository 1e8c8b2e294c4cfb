---------------------------- MODULE AddressSpaces ----------------------------
(***************************************************************************)
(* What the user memories promise (UserMemory.h): every process has pages  *)
(* of its own.  fork makes a deep copy, and what one process does to its   *)
(* memory no other process sees.                                           *)
(***************************************************************************)
EXTENDS Naturals

CONSTANTS Proc, Vpn,
          Image, Junk,   \* what a page holds once it is loaded, or not written yet
          Data           \* all that a page can hold

VARIABLES space,         \* <<process, page, content>> for every page of a process
          running        \* the process the processor runs, in a set

Init == space = {} /\ running = {}

Of(s, u) == {<<x[2], x[3]>> : x \in {y \in s : y[1] = u}}
Pages(M) == {x[1] : x \in M}
Except(M, v) == {x \in M : x[1] # v}

\* The child starts with what its parent, which runs, has.
Fork(s, old, new) ==
    old = {} /\ \E u \in running : new = Of(s, u)

\* brk: pages come or go, the others keep their contents.
Grow(old, new) ==
    old \subseteq new /\ new \ old \subseteq (Vpn \ Pages(old)) \X {Junk}
Shrink(old, new) == new \subseteq old

\* A program is loaded: nothing is left of what was there.
Load(new) == new \subseteq Vpn \X {Image, Junk}

Store(old, new) ==
    \E v \in Pages(old), c \in Data : new = Except(old, v) \cup {<<v, c>>}

\* A process changes its own memory, and only while it runs; a process that has none
\* gets some; and the processor goes from one to another.
Next ==
    \E s \in {space}, t \in {space'}, u \in Proc :
        /\ {x \in s : x[1] # u} = {x \in t : x[1] # u}
        /\ LET old == Of(s, u)
               new == Of(t, u)
           IN  \/ new = old
               \/ Fork(s, old, new) \/ (old = {} /\ Load(new))
               \/ u \in running /\ (Grow(old, new) \/ Shrink(old, new)
                                    \/ Load(new) \/ Store(old, new))

Spec == Init /\ [][Next]_<<space, running>>
=============================================================================
