------------------------------ MODULE Keyboard ------------------------------
(* The keyboard: the interrupt handler that queues the scan codes            *)
(* (kmain.cpp keyboard(), Keyboard::handleScanCode, Deque.h) and the kernel   *)
(* loop that takes them (Keyboard::pollSC, Keyboard::poll).                   *)
(*                                                                           *)
(* The kernel does not mask interrupts while it polls.  Keyboard's interrupt  *)
(* is an interrupt gate: the handler runs as one step.  pop_front is compiled *)
(* (-Og) to a load of _size and _begin followed by their stores, so that the  *)
(* handler can run between the two and its `_size += 1` be lost: LoadPop and  *)
(* StorePop.  The reads that come before a load of _size are one step with    *)
(* it: a handler that runs between them has the effect it has before them.    *)
EXTENDS Integers, Sequences, FiniteSets

CONSTANTS QSize,     \* the size N of the deque (1024 in Keyboard.h)
          MaxLost,   \* bound: increments lost in a behaviour
          Modifiers, \* the modifier keys whose state is kept (win, shift, ...)
          Extended,  \* the modifier keys sent with the prefix e0
          Plain      \* the scan codes of the other keys that are typed

ASSUME KeyboardAssumption ==
  /\ QSize \in Nat \ {0, 1} /\ MaxLost \in Nat
  /\ Extended \subseteq Modifiers /\ "e0" \notin Modifiers
  /\ \A b \in Plain : b.code \notin Modifiers \union {"e0"}

VARIABLES ring, begin, end, size, \* Deque: _array, _begin, _end, _size
          load,     \* what pop_front holds in registers, or NoLoad
          mods,     \* Keyboard::_state: the modifiers seen as held
          stopped,  \* the kernel has stopped on a failed assertion
          held,     \* external: the modifier keys that are held
          rest,     \* external: what the keyboard has still to send of a code
          pending,  \* ghost: the bytes sent and not yet taken, in order
          lost,     \* ghost: the increments of _size that were lost
          overrun   \* ghost: a byte was written over before it was taken

queueVars == <<ring, begin, end, size>>
kbdVars == <<ring, begin, end, size, load, mods, stopped, held, rest, pending, lost, overrun>>

Prefix == [code |-> "e0", release |-> TRUE]
Make(k) == [code |-> k, release |-> FALSE]
Break(k) == [code |-> k, release |-> TRUE]
Bytes == {Prefix} \union Plain
           \union {Make(k) : k \in Modifiers} \union {Break(k) : k \in Modifiers}

\* A slot whose byte was popped: reading it again would be seen.  (The code
\* leaves the byte there.  Once a byte was written over, all slots hold bytes,
\* one may be read again, and the model leaves it there too.)
Taken == [code |-> "taken", release |-> FALSE]
NoLoad == [bytes |-> 0]

KeyboardInit ==
  /\ ring = [i \in 0 .. QSize - 1 |-> Taken]
  /\ begin = 0 /\ end = 0 /\ size = 0
  /\ load = NoLoad /\ mods = {} /\ stopped = FALSE
  /\ held = {} /\ rest = <<>> /\ pending = <<>> /\ lost = 0 /\ overrun = FALSE

-----------------------------------------------------------------------------
(* Interrupts.                                                               *)

\* Deque::push_back after its assertion.
push_back(b) ==
  /\ ring' = [ring EXCEPT ![end] = b]
  /\ end' = (end + 1) % QSize
  /\ size' = size + 1

\* Interrupt 0x21 with byte b: a full queue fails the assertion of push_back.
\* The assertion tests _size: once an increment of it was lost, it lets a byte
\* into a ring that is full, over the oldest byte there.  (The bound: no
\* interrupt whose increment would be the MaxLost + 1st to be lost.)
handleScanCode(b) ==
  /\ ~stopped
  /\ load # NoLoad => lost + (size - load.size) < MaxLost
  /\ \/ /\ size >= QSize /\ stopped' = TRUE
        /\ UNCHANGED <<queueVars, pending, overrun>>
     \/ /\ size < QSize
        /\ push_back(b)
        /\ pending' = Append(pending, b)
        /\ overrun' = (overrun \/ Len(pending) >= QSize)
        /\ UNCHANGED <<begin, stopped>>
  /\ UNCHANGED <<load, mods, lost>>

\* The user types: a modifier goes down (again, when it repeats) or up, or
\* another key is used.  A keyboard sends the bytes of a key one by one.
Type(k, b) ==
  /\ rest = <<>>
  /\ \/ b = Make(k) /\ held' = held \union {k}
     \/ b = Break(k) /\ k \in held /\ held' = held \ {k}
  /\ IF k \in Extended
       THEN handleScanCode(Prefix) /\ rest' = <<b>>
       ELSE handleScanCode(b) /\ UNCHANGED rest

KeyInterrupt ==
  \/ \E k \in Modifiers : \E b \in {Make(k), Break(k)} : Type(k, b)
  \/ \E b \in Plain : rest = <<>> /\ handleScanCode(b) /\ UNCHANGED <<held, rest>>
  \/ rest # <<>> /\ handleScanCode(rest[1]) /\ rest' = <<>> /\ UNCHANGED held

-----------------------------------------------------------------------------
(* pollSC and poll.                                                          *)

\* pollSC finds nothing: no byte, or the first byte of two.
NothingToPoll == size = 0 \/ (ring[begin] = Prefix /\ size <= 1)

\* pollSC up to the loads of its first pop_front: the code it will return was
\* read before anything is popped.
LoadPop ==
  /\ ~stopped /\ load = NoLoad /\ ~NothingToPoll
  /\ LET two == ring[begin] = Prefix
     IN load' = [bytes |-> IF two THEN 2 ELSE 1,
                 sc |-> IF two THEN ring[(begin + 1) % QSize] ELSE ring[begin],
                 begin |-> begin, size |-> size]
  /\ UNCHANGED <<queueVars, mods, stopped, held, rest, pending, lost, overrun>>

\* Mutant of PopStores: the store of _begin is forgotten.
PopStoresSizeOnly ==
  /\ ring' = IF overrun THEN ring ELSE [ring EXCEPT ![begin] = Taken]
  /\ size' = load.size - 1
  /\ UNCHANGED <<begin, end, overrun>>

\* The stores of pop_front, from the values it had loaded.
PopStores ==
  /\ ring' = IF overrun THEN ring ELSE [ring EXCEPT ![begin] = Taken]
  /\ begin' = (load.begin + 1) % QSize
  /\ size' = load.size - 1
  /\ UNCHANGED <<end, overrun>>

\* The first pop of an extended code, up to the loads of the second one.
StoreFirst ==
  /\ ~stopped /\ load.bytes = 2
  /\ PopStores
  /\ pending' = Tail(pending)
  /\ lost' = lost + (size - load.size)
  /\ load' = [load EXCEPT !.bytes = 1, !.begin = (load.begin + 1) % QSize, !.size = @ - 1]
  /\ UNCHANGED <<mods, stopped, held, rest>>

\* Keyboard::poll: the modifiers after scan code sc.
poll(sc) == IF sc.code \notin Modifiers THEN mods
            ELSE IF sc.release THEN mods \ {sc.code}
            ELSE mods \union {sc.code}

\* The last pop; poll then returns the code with the modifiers.  The caller
\* hands both to Workspace::handleEvent.
StoreLast ==
  /\ ~stopped /\ load.bytes = 1
  /\ PopStores
  /\ pending' = Tail(pending)
  /\ lost' = lost + (size - load.size)
  /\ mods' = poll(load.sc)
  /\ load' = NoLoad
  /\ UNCHANGED <<stopped, held, rest>>

-----------------------------------------------------------------------------
KeyboardTypeOK ==
  /\ ring \in [0 .. QSize - 1 -> Bytes \union {Taken}]
  /\ begin \in 0 .. QSize - 1 /\ end \in 0 .. QSize - 1 /\ size \in 0 .. QSize
  /\ mods \subseteq Modifiers /\ held \subseteq Modifiers
  /\ lost \in 0 .. MaxLost /\ stopped \in BOOLEAN /\ overrun \in BOOLEAN

\* _size is short of the bytes sent and not taken by the lost increments.  These
\* bytes, in the order they were sent, are what is in the ring from _begin to
\* _end, unless one was written over; and that takes a lost increment.
RingIsPending ==
  /\ ~overrun => /\ \A i \in 1 .. Len(pending) : ring[(begin + i - 1) % QSize] = pending[i]
                 /\ end = (begin + Len(pending)) % QSize
  /\ size + lost = Len(pending)
  /\ load # NoLoad => load.size <= size
  /\ overrun => lost > 0

\* The modifiers the kernel sees are those held, once all is taken.
ModifiersAgree ==
  ~overrun /\ pending = <<>> /\ rest = <<>> /\ load = NoLoad => mods = held
=============================================================================
