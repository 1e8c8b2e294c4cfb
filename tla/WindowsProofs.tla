---------------------------- MODULE WindowsProofs ----------------------------
(***************************************************************************)
(* Proofs about the desktop and the text windows.                          *)
(*                                                                         *)
(* The desktop, for every size of the keyboard's queue, every number of    *)
(* lost increments, workspaces and windows: the bytes of the keyboard      *)
(* arrive in order until one is written over, which takes a lost           *)
(* increment, each window is where its destructor looks for it, and no     *)
(* mouse event drags a window without the Win key.                         *)
(*                                                                         *)
(* The text window, for any number of lines, any sizes of one character or *)
(* more, any keys and any scripts.  TextSound is inductive with the types  *)
(* of the text and of the parser, whose open escape sequence has a         *)
(* parameter.  EchoShown needs that no escape sequence is open while from  *)
(* is set: the next key would else be swallowed, or end it with the two    *)
(* characters of error.                                                    *)
(*                                                                         *)
(* LinesTyped needs that behind each character of the line that is edited  *)
(* the keys balance: as many others as backspaces and characters that are  *)
(* still there, so that the next backspace erases the last of these, and   *)
(* that the line has as many characters as keyboardBuffer.                 *)
(*                                                                         *)
(* DrawnExact follows from the sum that send makes of the rows, which is   *)
(* the number of rows from a line on: each row is drawn as far above the   *)
(* bottom as there are rows after it.                                      *)
(***************************************************************************)
EXTENDS MCWindows, FiniteSetTheorems, SequenceTheorems, WellFoundedInduction, TLAPS

-----------------------------------------------------------------------------
(* The inductive invariant of the keyboard.                                  *)

LoadType == [bytes : {1, 2}, sc : Bytes \union {Taken}, begin : 0 .. QSize - 1,
             size : 1 .. QSize]

\* What pop_front holds in registers is still what the queue begins with: until
\* a byte is written over, the interrupt handler only adds behind it.
LoadAgrees ==
  \/ load = NoLoad
  \/ /\ load \in LoadType
     /\ load.begin = begin
     /\ load.bytes <= load.size /\ load.size <= size
     /\ ~overrun => /\ load.sc = pending[load.bytes]
                    /\ load.bytes = 2 => pending[1] = Prefix
     /\ lost + (size - load.size) <= MaxLost

\* Byte i is the last one of stream s that is about modifier m.
LastOf(s, m, i) == /\ i \in DOMAIN s /\ s[i].code = m
                   /\ \A j \in DOMAIN s : j > i => s[j].code # m

\* Modifier m is among those held (now) once stream s is taken, where those
\* seen as held before are seen.
Tells(s, m, seen, now) ==
  \/ /\ \A i \in DOMAIN s : s[i].code # m
     /\ m \in seen <=> m \in now
  \/ \E i \in DOMAIN s : LastOf(s, m, i) /\ (m \in now <=> ~s[i].release)

\* The bytes on their way: those that the kernel did not take and, of a code
\* that the keyboard is sending, the one to come.
Coming == IF rest = <<>> THEN pending ELSE Append(pending, rest[1])

\* The modifiers held are those that the bytes on their way will tell of.  A
\* kernel that stopped on a full queue takes none any more, and nothing is told
\* once a byte was written over.
StreamTells ==
  ~overrun /\ (~stopped \/ pending = <<>>) =>
    \A m \in Modifiers : Tells(Coming, m, mods, held)

KbdInv ==
  /\ KeyboardTypeOK
  /\ pending \in Seq(Bytes) /\ (~overrun => Len(pending) <= QSize)
  /\ rest = <<>> \/ \E b \in Bytes : rest = <<b>>
  /\ RingIsPending
  /\ LoadAgrees
  /\ StreamTells

-----------------------------------------------------------------------------
(* The inductive invariant of the windows.                                   *)

DeskTypeOK ==
  /\ wins \in [Ws -> Seq(Window)]
  /\ wsOf \in [Window -> Ws]
  /\ alive \subseteq Window
  /\ active \in Ws
  /\ superState \in [Ws -> BOOLEAN]

\* _superState misses keys typed while another workspace is active, but what it
\* says of the active one is right: it is Win that changes the workspace.
SuperHeld == superState[active] => Held(mods)

DeskInv == DeskTypeOK /\ WindowsPlaced /\ SuperHeld

IInv == KbdInv /\ DeskInv
-----------------------------------------------------------------------------
(* Lemmas about the ring and about streams of bytes.                         *)

\* An index of the ring that is at most one turn ahead.
LEMMA Turn ==
  ASSUME NEW x \in 0 .. 2 * QSize - 1
  PROVE  /\ x % QSize = IF x < QSize THEN x ELSE x - QSize
         /\ x % QSize \in 0 .. QSize - 1
BY KeyboardAssumption

\* Going round the ring from x, n places and one more; the places before n are
\* others than n's, as long as n is less than a turn.
LEMMA RingPlaces ==
  ASSUME NEW x \in 0 .. QSize - 1, NEW n \in 0 .. QSize - 1
  PROVE  /\ (((x + n) % QSize) + 1) % QSize = (x + n + 1) % QSize
         /\ (((x + 1) % QSize) + n) % QSize = (x + n + 1) % QSize
         /\ \A i \in 1 .. n : (x + i - 1) % QSize # (x + n) % QSize
         /\ \A i \in 1 .. n : (x + i) % QSize # x
<1> DEFINE turn(y) == IF y < QSize THEN y ELSE y - QSize
<1>1. QSize \in Nat \ {0, 1}
  BY KeyboardAssumption
<1>2. \A y \in 0 .. 2 * QSize - 1 : y % QSize = turn(y)
  BY Turn
<1>3. /\ x + n \in 0 .. 2 * QSize - 1 /\ x + n + 1 \in 0 .. 2 * QSize - 1
      /\ x + 1 \in 0 .. 2 * QSize - 1
      /\ turn(x + n) + 1 \in 0 .. 2 * QSize - 1 /\ turn(x + 1) + n \in 0 .. 2 * QSize - 1
      /\ \A i \in 1 .. n : x + i - 1 \in 0 .. 2 * QSize - 1 /\ x + i \in 0 .. 2 * QSize - 1
  BY <1>1
<1>4. /\ turn(turn(x + n) + 1) = turn(x + n + 1)
      /\ turn(turn(x + 1) + n) = turn(x + n + 1)
      /\ \A i \in 1 .. n : turn(x + i - 1) # turn(x + n)
      /\ \A i \in 1 .. n : turn(x + i) # x
  BY <1>1
<1> HIDE DEF turn
<1>5. QED BY <1>2, <1>3, <1>4

\* One more byte decides if it is about the modifier.
LEMMA TellsAppend ==
  ASSUME NEW s \in Seq(Bytes), NEW b \in Bytes, NEW m, NEW seen, NEW now, NEW new,
         Tells(s, m, seen, now),
         b.code # m => (m \in new <=> m \in now),
         b.code = m => (m \in new <=> ~b.release)
  PROVE  Tells(Append(s, b), m, seen, new)
<1> DEFINE t == Append(s, b)
<1>1. /\ t \in Seq(Bytes) /\ DOMAIN t = 1 .. Len(s) + 1 /\ DOMAIN s = 1 .. Len(s)
      /\ Len(s) \in Nat /\ t[Len(s) + 1] = b
      /\ \A i \in 1 .. Len(s) : t[i] = s[i]
  OBVIOUS
<1> HIDE DEF t
<1>2. ASSUME b.code = m
      PROVE  LastOf(t, m, Len(s) + 1)
  BY <1>1, <1>2 DEF LastOf
<1>3. ASSUME b.code # m, NEW i \in DOMAIN s, LastOf(s, m, i)
      PROVE  LastOf(t, m, i)
  BY <1>1, <1>3 DEF LastOf
<1>4. ASSUME b.code # m
      PROVE  Tells(t, m, seen, new)
  BY <1>1, <1>3, <1>4 DEF Tells, LastOf
<1>5. ASSUME b.code = m
      PROVE  Tells(t, m, seen, new)
  BY <1>1, <1>2, <1>5 DEF Tells
<1>6. QED BY <1>4, <1>5 DEF t

\* Taking the first byte leaves what the others tell, from the state it sets.
LEMMA TellsTail ==
  ASSUME NEW s \in Seq(Bytes), s # <<>>, NEW m, NEW seen, NEW now, NEW new,
         Tells(s, m, seen, now),
         s[1].code # m => (m \in new <=> m \in seen),
         s[1].code = m => (m \in new <=> ~s[1].release)
  PROVE  Tells(Tail(s), m, new, now)
<1> DEFINE t == Tail(s)
<1>1. /\ t \in Seq(Bytes) /\ Len(s) \in Nat \ {0} /\ DOMAIN t = 1 .. Len(s) - 1
      /\ DOMAIN s = 1 .. Len(s)
      /\ \A i \in 1 .. Len(s) - 1 : t[i] = s[i + 1]
  OBVIOUS
<1> HIDE DEF t
<1>2. ASSUME NEW i \in DOMAIN s, i # 1, LastOf(s, m, i)
      PROVE  i - 1 \in DOMAIN t /\ LastOf(t, m, i - 1) /\ t[i - 1] = s[i]
  <2>1. i - 1 \in DOMAIN t /\ t[i - 1] = s[i] /\ i \in Int
    BY <1>1, <1>2
  <2>2. ASSUME NEW j \in DOMAIN t, j > i - 1
        PROVE  t[j].code # m
    <3>1. j + 1 \in DOMAIN s /\ j + 1 > i /\ t[j] = s[j + 1]
      BY <1>1, <2>1, <2>2
    <3>2. QED BY <1>2, <3>1 DEF LastOf
  <2>3. QED BY <1>2, <2>1, <2>2 DEF LastOf
<1>3. CASE \E i \in DOMAIN s : i # 1 /\ LastOf(s, m, i) /\ (m \in now <=> ~s[i].release)
  <2>1. PICK i \in DOMAIN s : i # 1 /\ LastOf(s, m, i) /\ (m \in now <=> ~s[i].release)
    BY <1>3
  <2>2. i - 1 \in DOMAIN t /\ LastOf(t, m, i - 1) /\ t[i - 1] = s[i]
    BY <1>2, <2>1
  <2>3. m \in now <=> ~t[i - 1].release
    BY <2>1, <2>2
  <2>4. QED BY <2>2, <2>3 DEF Tells, t
<1>4. CASE /\ \A i \in DOMAIN s : i # 1 => s[i].code # m
           /\ m \in new <=> m \in now
  BY <1>1, <1>4 DEF Tells
<1>5. QED BY <1>1, <1>3, <1>4 DEF Tells, LastOf, t

\* The bytes: a modifier key's, and the others, which change no modifier.
LEMMA BytesTyped ==
  /\ Prefix \in Bytes /\ Plain \subseteq Bytes
  /\ \A k \in Modifiers : /\ Make(k) \in Bytes /\ Make(k).code = k /\ Make(k).release = FALSE
                          /\ Break(k) \in Bytes /\ Break(k).code = k /\ Break(k).release = TRUE
  /\ Prefix.code \notin Modifiers
  /\ \A b \in Plain : b.code \notin Modifiers
BY KeyboardAssumption DEF Bytes, Prefix, Make, Break

-----------------------------------------------------------------------------
(* The steps of the keyboard keep its invariant.                             *)

\* The invariant without what it says of the modifiers.
QueueInv ==
  /\ KeyboardTypeOK
  /\ pending \in Seq(Bytes) /\ (~overrun => Len(pending) <= QSize)
  /\ RingIsPending
  /\ LoadAgrees

LEMMA PushKeeps ==
  ASSUME KbdInv, NEW b \in Bytes, handleScanCode(b), held' \subseteq Modifiers
  PROVE  /\ QueueInv' /\ (overrun => overrun')
         /\ \/ stopped' /\ pending' # <<>>
            \/ ~stopped' /\ pending' = Append(pending, b)
<1> USE KeyboardAssumption
<1>1. /\ KeyboardTypeOK /\ RingIsPending /\ LoadAgrees
      /\ pending \in Seq(Bytes) /\ Len(pending) \in Nat
      /\ (~overrun => Len(pending) <= QSize) /\ overrun \in BOOLEAN
      /\ UNCHANGED <<load, mods, lost, begin>>
      /\ load # NoLoad => lost + (size - load.size) < MaxLost
      /\ ~stopped
  BY DEF KbdInv, KeyboardTypeOK, handleScanCode, queueVars
<1>2. CASE size >= QSize /\ stopped' = TRUE /\ UNCHANGED <<queueVars, pending, overrun>>
  <2>1. pending # <<>>
    BY <1>1, <1>2 DEF RingIsPending, KeyboardTypeOK
  <2>2. KeyboardTypeOK'
    BY <1>1, <1>2 DEF KeyboardTypeOK, queueVars
  <2>3. RingIsPending' /\ LoadAgrees'
    BY <1>1, <1>2 DEF RingIsPending, LoadAgrees, queueVars
  <2>4. QED BY <1>1, <1>2, <2>1, <2>2, <2>3 DEF QueueInv
<1>3. CASE /\ size < QSize /\ push_back(b) /\ pending' = Append(pending, b)
           /\ overrun' = (overrun \/ Len(pending) >= QSize) /\ UNCHANGED stopped
  <2>1. /\ pending' \in Seq(Bytes) /\ Len(pending') = Len(pending) + 1
        /\ pending' # <<>>
        /\ pending'[Len(pending) + 1] = b
        /\ \A i \in 1 .. Len(pending) : pending'[i] = pending[i]
    BY <1>1, <1>3
  <2>2. end \in 0 .. QSize - 1 /\ end' = (end + 1) % QSize /\ end' \in 0 .. QSize - 1
    <3>1. end \in 0 .. QSize - 1 /\ end' = (end + 1) % QSize
      BY <1>1, <1>3 DEF push_back, KeyboardTypeOK
    <3>2. end + 1 \in 0 .. 2 * QSize - 1
      BY <3>1
    <3>3. QED BY <3>1, <3>2, Turn
  <2>3. KeyboardTypeOK'
    BY <1>1, <1>3, <2>2 DEF KeyboardTypeOK, push_back
  <2>4. ASSUME ~overrun'
        PROVE  /\ Len(pending) \in 0 .. QSize - 1 /\ ~overrun
               /\ end = (begin + Len(pending)) % QSize
               /\ begin \in 0 .. QSize - 1
    <3>1. ~overrun /\ ~(Len(pending) >= QSize)
      BY <1>3, <2>4
    <3>2. Len(pending) \in 0 .. QSize - 1
      BY <1>1, <3>1
    <3>3. end = (begin + Len(pending)) % QSize
      BY <1>1, <3>1 DEF RingIsPending
    <3>4. begin \in 0 .. QSize - 1
      BY <1>1 DEF KeyboardTypeOK
    <3>5. QED BY <3>1, <3>2, <3>3, <3>4
  <2>5. ASSUME ~overrun'
        PROVE  end' = (begin + Len(pending) + 1) % QSize
    <3>1. (((begin + Len(pending)) % QSize) + 1) % QSize = (begin + Len(pending) + 1) % QSize
      BY <2>4, <2>5, RingPlaces
    <3>2. QED BY <2>2, <2>4, <2>5, <3>1
  <2>6. ASSUME ~overrun', NEW i \in 1 .. Len(pending)
        PROVE  ring'[(begin + i - 1) % QSize] = pending[i]
    <3>1. begin + i - 1 \in 0 .. 2 * QSize - 1
      BY <2>4, <2>6
    <3>2. (begin + i - 1) % QSize \in 0 .. QSize - 1
      BY <3>1, Turn
    <3>3. \A j \in 1 .. Len(pending) : (begin + j - 1) % QSize # (begin + Len(pending)) % QSize
      BY <2>4, <2>6, RingPlaces
    <3>4. (begin + i - 1) % QSize # end
      BY <2>4, <2>6, <3>3
    <3>5. ring[(begin + i - 1) % QSize] = pending[i]
      BY <1>1, <2>4, <2>6 DEF RingIsPending
    <3>6. QED BY <1>1, <1>3, <3>2, <3>4, <3>5 DEF KeyboardTypeOK, push_back
  <2>7. ASSUME ~overrun', NEW i \in 1 .. Len(pending) + 1
        PROVE  ring'[(begin + i - 1) % QSize] = pending'[i]
    <3>1. CASE i = Len(pending) + 1
      <4>1. begin + i - 1 = begin + Len(pending)
        BY <2>4, <2>7, <3>1
      <4>2. QED BY <1>1, <1>3, <2>1, <2>2, <2>4, <2>7, <3>1, <4>1 DEF KeyboardTypeOK, push_back
    <3>2. CASE i # Len(pending) + 1
      BY <1>1, <2>1, <2>6, <2>7, <3>2
    <3>3. QED BY <3>1, <3>2
  <2>8. size' + lost = Len(pending) + 1 /\ (load # NoLoad => load.size <= size')
    <3>1. size \in 0 .. QSize /\ lost \in 0 .. MaxLost /\ size' = size + 1
      BY <1>1, <1>3 DEF KeyboardTypeOK, push_back
    <3>2. size + lost = Len(pending)
      BY <1>1 DEF RingIsPending
    <3>3. load # NoLoad => load.size \in 1 .. QSize /\ load.size <= size
      BY <1>1 DEF LoadAgrees, LoadType
    <3>4. QED BY <3>1, <3>2, <3>3
  <2>9. RingIsPending'
    <3>1. ~overrun' => end' = (begin' + Len(pending')) % QSize
      BY <1>1, <2>1, <2>4, <2>5
    <3>2. ~overrun' => \A i \in 1 .. Len(pending') : ring'[(begin' + i - 1) % QSize] = pending'[i]
      BY <1>1, <2>1, <2>7
    <3>3. overrun' => lost' > 0
      BY <1>1, <1>3, <2>8 DEF RingIsPending, KeyboardTypeOK
    <3>4. QED BY <1>1, <2>1, <2>8, <3>1, <3>2, <3>3 DEF RingIsPending
  <2>10. LoadAgrees'
    <3>1. CASE load = NoLoad
      BY <1>1, <3>1 DEF LoadAgrees
    <3>2. CASE load # NoLoad
      <4>1. load.bytes \in 1 .. Len(pending) /\ 1 \in 1 .. Len(pending)
        BY <1>1, <3>2, SMTT(30) DEF LoadAgrees, LoadType, RingIsPending, KeyboardTypeOK
      <4>2. /\ pending'[load.bytes] = pending[load.bytes] /\ pending'[1] = pending[1]
        BY <2>1, <4>1
      <4>3. size' = size + 1
        BY <1>3 DEF push_back
      <4>4. overrun => overrun'
        BY <1>3
      <4>5. QED BY <1>1, <3>2, <4>2, <4>3, <4>4, SMTT(30) DEF LoadAgrees, LoadType, KeyboardTypeOK
    <3>3. QED BY <3>1, <3>2
  <2>11. QED BY <1>1, <1>3, <2>1, <2>3, <2>4, <2>9, <2>10 DEF QueueInv
<1>4. QED BY <1>2, <1>3 DEF handleScanCode

\* A pop takes the byte that was sent first.
LEMMA PopKeeps ==
  ASSUME KbdInv, load # NoLoad, PopStores, pending' = Tail(pending),
         lost' = lost + (size - load.size), UNCHANGED <<stopped, held>>, mods' \subseteq Modifiers
  PROVE  /\ KeyboardTypeOK'
         /\ pending # <<>> /\ pending' \in Seq(Bytes)
         /\ (~overrun' => Len(pending') <= QSize) /\ overrun' = overrun
         /\ \A i \in 1 .. Len(pending') : pending'[i] = pending[i + 1]
         /\ begin' = (load.begin + 1) % QSize /\ size' = load.size - 1
         /\ (load' # NoLoad => load'.size <= size') => RingIsPending'
<1> USE KeyboardAssumption
<1>1. /\ KeyboardTypeOK /\ RingIsPending /\ LoadAgrees
      /\ pending \in Seq(Bytes) /\ Len(pending) \in Nat
      /\ (~overrun => Len(pending) <= QSize) /\ overrun \in BOOLEAN
  BY DEF KbdInv, KeyboardTypeOK
<1>2. /\ load.begin = begin /\ load.size \in 1 .. QSize /\ load.size <= size
      /\ lost + (size - load.size) <= MaxLost
  BY <1>1 DEF LoadAgrees, LoadType
<1>3. /\ begin \in 0 .. QSize - 1 /\ size \in 0 .. QSize /\ lost \in 0 .. MaxLost
      /\ size + lost = Len(pending) /\ (overrun => lost > 0)
      /\ ~overrun => /\ end = (begin + Len(pending)) % QSize
                     /\ \A i \in 1 .. Len(pending) : ring[(begin + i - 1) % QSize] = pending[i]
      /\ ring \in [0 .. QSize - 1 -> Bytes \union {Taken}] /\ end \in 0 .. QSize - 1
  BY <1>1 DEF KeyboardTypeOK, RingIsPending
<1>4. /\ ring' = IF overrun THEN ring ELSE [ring EXCEPT ![begin] = Taken]
      /\ end' = end /\ overrun' = overrun
      /\ begin' = (begin + 1) % QSize /\ size' = load.size - 1
  BY <1>2 DEF PopStores
<1>5. begin + 1 \in 0 .. 2 * QSize - 1
  BY <1>3
<1>6. begin' \in 0 .. QSize - 1
  BY <1>4, <1>5, Turn
<1>7. KeyboardTypeOK'
  <2>1. ring' \in [0 .. QSize - 1 -> Bytes \union {Taken}] /\ end' \in 0 .. QSize - 1
    BY <1>3, <1>4
  <2>2. size' \in 0 .. QSize /\ lost' \in 0 .. MaxLost
    <3>1. /\ size \in 0 .. QSize /\ lost \in 0 .. MaxLost /\ load.size \in 1 .. QSize
          /\ MaxLost \in Nat /\ QSize \in Nat
          /\ load.size <= size /\ lost + (size - load.size) <= MaxLost
      BY <1>2, <1>3
    <3>2. size' = load.size - 1 /\ lost' = lost + (size - load.size)
      BY <1>4
    <3>3. QED BY <3>1, <3>2
  <2>3. QED BY <1>1, <1>4, <1>6, <2>1, <2>2 DEF KeyboardTypeOK
<1>8. pending # <<>> /\ Len(pending) \in Nat \ {0} /\ (~overrun => Len(pending) \in 1 .. QSize)
  BY <1>1, <1>2, <1>3, SMTT(30)
<1>9. /\ pending' \in Seq(Bytes) /\ Len(pending') = Len(pending) - 1
      /\ \A i \in 1 .. Len(pending') : pending'[i] = pending[i + 1]
  BY <1>1, <1>8
<1>10. ASSUME ~overrun, NEW i \in 1 .. Len(pending')
       PROVE  ring'[(begin' + i - 1) % QSize] = pending'[i]
  <2>1. i \in 1 .. QSize - 1 /\ i + 1 \in 1 .. Len(pending) /\ begin + i \in 0 .. 2 * QSize - 1
    BY <1>3, <1>8, <1>9, <1>10
  <2>2. (((begin + 1) % QSize) + (i - 1)) % QSize = (begin + (i - 1) + 1) % QSize
    <3>1. begin \in 0 .. QSize - 1 /\ i - 1 \in 0 .. QSize - 1
      BY <1>3, <2>1
    <3>2. QED BY <3>1, RingPlaces
  <2>3. (begin + i) % QSize # begin
    <3>1. begin \in 0 .. QSize - 1 /\ i \in 0 .. QSize - 1 /\ i \in 1 .. i
      BY <1>3, <2>1
    <3>2. \A j \in 1 .. i : (begin + j) % QSize # begin
      BY <3>1, RingPlaces
    <3>3. QED BY <3>1, <3>2
  <2>4. (begin + i) % QSize \in 0 .. QSize - 1
    BY <2>1, Turn
  <2>5. begin' + i - 1 = ((begin + 1) % QSize) + (i - 1) /\ begin + (i - 1) + 1 = begin + i
    BY <1>3, <1>4, <1>6, <2>1
  <2>6. ring'[(begin' + i - 1) % QSize] = ring[(begin + i) % QSize]
    BY <1>3, <1>4, <1>10, <2>2, <2>3, <2>4, <2>5
  <2>7. ring[(begin + (i + 1) - 1) % QSize] = pending[i + 1] /\ begin + (i + 1) - 1 = begin + i
    BY <1>3, <1>10, <2>1
  <2>8. QED BY <1>9, <1>10, <2>6, <2>7
<1>11. ASSUME ~overrun
       PROVE  end' = (begin' + Len(pending')) % QSize
  <2>1. Len(pending) - 1 \in 0 .. QSize - 1
    BY <1>8, <1>11
  <2>2. (((begin + 1) % QSize) + (Len(pending) - 1)) % QSize = (begin + (Len(pending) - 1) + 1) % QSize
    BY <1>3, <2>1, RingPlaces
  <2>3. begin + (Len(pending) - 1) + 1 = begin + Len(pending)
    BY <1>1, <1>3
  <2>4. QED BY <1>3, <1>4, <1>9, <1>11, <2>2, <2>3
<1>12. size' + lost' = Len(pending')
  <2>1. /\ size \in Int /\ lost \in Int /\ load.size \in Int /\ Len(pending) \in Int
        /\ size + lost = Len(pending)
    BY <1>1, <1>2, <1>3
  <2>2. size' = load.size - 1 /\ lost' = lost + (size - load.size)
    BY <1>4
  <2>3. QED BY <1>9, <2>1, <2>2
<1>13. (load' # NoLoad => load'.size <= size') => RingIsPending'
  <2>1. overrun' => lost' > 0
    <3>1. lost' = lost + (size - load.size)
      OBVIOUS
    <3>2. QED BY <1>2, <1>3, <1>4, <3>1
  <2>2. ~overrun' => /\ end' = (begin' + Len(pending')) % QSize
                     /\ \A i \in 1 .. Len(pending') : ring'[(begin' + i - 1) % QSize] = pending'[i]
    BY <1>4, <1>10, <1>11
  <2>3. QED BY <1>12, <2>1, <2>2 DEF RingIsPending
<1>14. QED BY <1>1, <1>2, <1>4, <1>7, <1>8, <1>9, <1>13

\* What a byte that arrives adds to what the stream tells of modifier m, where
\* nothing is to come of a code.
LEMMA InterruptKeeps ==
  ASSUME KbdInv, KeyInterrupt
  PROVE  KbdInv'
<1> USE BytesTyped
<1>1. /\ ~stopped /\ pending \in Seq(Bytes) /\ KeyboardTypeOK
      /\ rest = <<>> \/ \E b \in Bytes : rest = <<b>>
      /\ ~overrun => \A m \in Modifiers : Tells(Coming, m, mods, held)
  BY DEF KeyInterrupt, Type, handleScanCode, KbdInv, StreamTells
<1>2. mods \subseteq Modifiers /\ held \subseteq Modifiers
  BY <1>1 DEF KeyboardTypeOK
<1>3. ASSUME NEW c \in Bytes, handleScanCode(c), held' \subseteq Modifiers,
             rest' = <<>> \/ \E b \in Bytes : rest' = <<b>>,
             ~overrun /\ pending' = Append(pending, c) =>
               \A m \in Modifiers : Tells(Coming', m, mods, held')
      PROVE  KbdInv'
  <2>1. /\ QueueInv' /\ (overrun => overrun')
        /\ \/ stopped' /\ pending' # <<>>
           \/ ~stopped' /\ pending' = Append(pending, c)
    BY <1>3, PushKeeps
  <2>2. mods' = mods
    BY <1>3 DEF handleScanCode
  <2>3. StreamTells'
    BY <1>3, <2>1, <2>2 DEF StreamTells
  <2>4. QED BY <1>3, <2>1, <2>3 DEF KbdInv, QueueInv
<1>4. ASSUME NEW k \in Modifiers, NEW b \in {Make(k), Break(k)}, Type(k, b)
      PROVE  KbdInv'
  <2>1. /\ rest = <<>> /\ b \in Bytes /\ b.code = k /\ held' \subseteq Modifiers
        /\ \A m \in Modifiers : m # k => (m \in held' <=> m \in held)
        /\ k \in held' <=> ~b.release
    BY <1>2, <1>4 DEF Type, Make, Break
  <2>2. Coming = pending
    BY <2>1 DEF Coming
  <2>3. ASSUME NEW s \in Seq(Bytes), NEW m \in Modifiers, Tells(s, m, mods, held)
        PROVE  Tells(Append(s, b), m, mods, held')
    <3>1. CASE m # k
      BY <2>1, <2>3, <3>1, TellsAppend
    <3>2. CASE m = k
      BY <2>1, <2>3, <3>2, TellsAppend
    <3>3. QED BY <3>1, <3>2
  <2>4. CASE k \in Extended
    <3>1. handleScanCode(Prefix) /\ rest' = <<b>>
      BY <1>4, <2>4 DEF Type
    <3>2. ASSUME ~overrun, pending' = Append(pending, Prefix), NEW m \in Modifiers
          PROVE  Tells(Coming', m, mods, held')
      <4>1. Tells(pending, m, mods, held)
        BY <1>1, <2>2, <3>2
      <4>2. Prefix.code # m
        OBVIOUS
      <4>3. Tells(Append(pending, Prefix), m, mods, held)
        BY <1>1, <4>1, <4>2, TellsAppend
      <4>4. Append(pending, Prefix) \in Seq(Bytes)
        BY <1>1
      <4>5. Tells(Append(Append(pending, Prefix), b), m, mods, held')
        BY <2>3, <4>3, <4>4
      <4>6. rest' # <<>> /\ rest'[1] = b
        BY <3>1
      <4>7. Coming' = Append(Append(pending, Prefix), b)
        BY <3>2, <4>6 DEF Coming
      <4>8. QED BY <4>5, <4>7
    <3>3. QED BY <1>3, <2>1, <3>1, <3>2
  <2>5. CASE k \notin Extended
    <3>1. handleScanCode(b) /\ rest' = <<>>
      BY <1>4, <2>1, <2>5 DEF Type
    <3>2. ASSUME ~overrun, pending' = Append(pending, b), NEW m \in Modifiers
          PROVE  Tells(Coming', m, mods, held')
      BY <1>1, <2>2, <2>3, <3>1, <3>2 DEF Coming
    <3>3. QED BY <1>3, <2>1, <3>1, <3>2
  <2>6. QED BY <2>4, <2>5
<1>5. ASSUME NEW b \in Plain, rest = <<>>, handleScanCode(b), UNCHANGED <<held, rest>>
      PROVE  KbdInv'
  <2>1. b \in Bytes
    OBVIOUS
  <2>2. ASSUME ~overrun, pending' = Append(pending, b), NEW m \in Modifiers
        PROVE  Tells(Coming', m, mods, held')
    <3>1. Tells(pending, m, mods, held) /\ b.code # m
      BY <1>1, <1>5, <2>2 DEF Coming
    <3>2. Tells(Append(pending, b), m, mods, held)
      BY <1>1, <2>1, <3>1, TellsAppend
    <3>3. QED BY <1>5, <2>2, <3>2 DEF Coming
  <2>3. QED BY <1>2, <1>3, <1>5, <2>1, <2>2
<1>6. ASSUME rest # <<>>, handleScanCode(rest[1]), rest' = <<>>, UNCHANGED held
      PROVE  KbdInv'
  <2>1. rest[1] \in Bytes /\ Coming = Append(pending, rest[1])
    BY <1>1, <1>6 DEF Coming
  <2>2. ASSUME ~overrun, pending' = Append(pending, rest[1]), NEW m \in Modifiers
        PROVE  Tells(Coming', m, mods, held')
    BY <1>1, <1>6, <2>1, <2>2 DEF Coming
  <2>3. QED BY <1>2, <1>3, <1>6, <2>1, <2>2
<1>7. QED BY <1>4, <1>5, <1>6 DEF KeyInterrupt

\* The two first bytes of the queue are where pollSC reads them.
LEMMA LoadKeeps ==
  ASSUME KbdInv, LoadPop
  PROVE  KbdInv'
<1> USE KeyboardAssumption
<1>1. /\ KeyboardTypeOK /\ RingIsPending /\ pending \in Seq(Bytes)
      /\ UNCHANGED <<queueVars, mods, stopped, held, rest, pending, lost, overrun>>
      /\ size # 0 /\ (ring[begin] = Prefix => size > 1)
      /\ load' = [bytes |-> IF ring[begin] = Prefix THEN 2 ELSE 1,
                  sc |-> IF ring[begin] = Prefix THEN ring[(begin + 1) % QSize] ELSE ring[begin],
                  begin |-> begin, size |-> size]
  BY DEF KbdInv, LoadPop, NothingToPoll, KeyboardTypeOK
<1>2. /\ begin \in 0 .. QSize - 1 /\ size \in 1 .. QSize /\ lost \in 0 .. MaxLost
      /\ size + lost = Len(pending) /\ Len(pending) \in Nat \ {0}
      /\ ~overrun => \A i \in 1 .. Len(pending) : ring[(begin + i - 1) % QSize] = pending[i]
      /\ ring[begin] \in Bytes \union {Taken} /\ ring[(begin + 1) % QSize] \in Bytes \union {Taken}
  <2>1. begin \in 0 .. QSize - 1 /\ ring \in [0 .. QSize - 1 -> Bytes \union {Taken}]
    BY <1>1 DEF KeyboardTypeOK
  <2>2. (begin + 1) % QSize \in 0 .. QSize - 1
    <3>1. begin + 1 \in 0 .. 2 * QSize - 1
      BY <2>1
    <3>2. QED BY <3>1, Turn
  <2>3. QED BY <1>1, <2>1, <2>2 DEF KeyboardTypeOK, RingIsPending
<1>3. ASSUME ~overrun
      PROVE  ring[begin] = pending[1]
  <2>1. ring[(begin + 1 - 1) % QSize] = pending[1] /\ begin + 1 - 1 = begin
    BY <1>2, <1>3
  <2>2. begin % QSize = begin
    <3>1. begin \in 0 .. 2 * QSize - 1 /\ begin < QSize
      BY <1>2
    <3>2. QED BY <3>1, Turn
  <2>3. QED BY <2>1, <2>2
<1>4. ASSUME ~overrun, size > 1
      PROVE  ring[(begin + 1) % QSize] = pending[2]
  <2>1. 2 \in 1 .. Len(pending)
    BY <1>2, <1>4
  <2>2. begin + 2 - 1 = begin + 1
    BY <1>2
  <2>3. QED BY <1>2, <1>4, <2>1, <2>2
<1>6. LoadAgrees'
  <2>1. ~overrun => load'.sc = pending[load'.bytes]
    BY <1>1, <1>2, <1>3, <1>4
  <2>2. load'.bytes \in {1, 2} /\ load'.bytes <= load'.size /\ load'.size = size /\ load'.begin = begin
    BY <1>1, <1>2
  <2>3. ~overrun /\ load'.bytes = 2 => pending[1] = Prefix
    BY <1>1, <1>3
  <2>4. load' \in LoadType
    BY <1>1, <1>2, <2>2 DEF LoadType
  <2>5. lost' + (size' - load'.size) <= MaxLost
    BY <1>1, <1>2, <2>2 DEF queueVars
  <2>6. QED BY <1>1, <1>2, <2>1, <2>2, <2>3, <2>4, <2>5 DEF LoadAgrees, queueVars
<1>7. RingIsPending'
  BY <1>1, <1>2 DEF RingIsPending, queueVars
<1>8. StreamTells'
  BY <1>1 DEF KbdInv, StreamTells, Coming, Tells, LastOf
<1>9. QED BY <1>1, <1>6, <1>7, <1>8 DEF KbdInv, KeyboardTypeOK, queueVars

\* What the stream tells after its first byte is taken, where mods follows it.
LEMMA TakenTells ==
  ASSUME KbdInv, ~stopped, ~overrun, pending # <<>>, pending' = Tail(pending),
         UNCHANGED <<held, rest>>,
         \A m \in Modifiers : /\ pending[1].code # m => (m \in mods' <=> m \in mods)
                              /\ pending[1].code = m => (m \in mods' <=> ~pending[1].release)
  PROVE  StreamTells'
<1>1. /\ pending \in Seq(Bytes) /\ \A m \in Modifiers : Tells(Coming, m, mods, held)
      /\ rest = <<>> \/ \E b \in Bytes : rest = <<b>>
  BY DEF KbdInv, StreamTells
<1>2. Coming \in Seq(Bytes) /\ Coming # <<>> /\ Coming[1] = pending[1]
  BY <1>1 DEF Coming
<1>3. Coming' = Tail(Coming)
  <2>1. CASE rest = <<>>
    BY <2>1 DEF Coming
  <2>2. CASE rest # <<>>
    <3>1. PICK b \in Bytes : rest = <<b>>
      BY <1>1, <2>2
    <3>2. Append(Tail(pending), b) = Tail(Append(pending, b))
      BY <1>1
    <3>3. QED BY <3>1, <3>2 DEF Coming
  <2>3. QED BY <2>1, <2>2
<1>4. ASSUME NEW m \in Modifiers
      PROVE  Tells(Tail(Coming), m, mods', held)
  BY <1>1, <1>2, TellsTail
<1>5. QED BY <1>3, <1>4 DEF StreamTells

LEMMA FirstKeeps ==
  ASSUME KbdInv, StoreFirst
  PROVE  KbdInv'
<1> USE KeyboardAssumption
<1>1. /\ load # NoLoad /\ load.bytes = 2 /\ ~stopped /\ PopStores
      /\ pending' = Tail(pending) /\ lost' = lost + (size - load.size)
      /\ load' = [load EXCEPT !.bytes = 1, !.begin = (load.begin + 1) % QSize, !.size = @ - 1]
      /\ UNCHANGED <<mods, stopped, held, rest>>
  BY DEF StoreFirst, NoLoad
<1>2. /\ load \in LoadType /\ load.size >= 2 /\ load.begin = begin
      /\ ~overrun => load.sc = pending[2] /\ pending[1] = Prefix
      /\ lost + (size - load.size) <= MaxLost
  BY <1>1 DEF KbdInv, LoadAgrees, LoadType
<1>3. /\ KeyboardTypeOK /\ mods \subseteq Modifiers /\ size \in 0 .. QSize /\ lost \in 0 .. MaxLost
      /\ size + lost = Len(pending) /\ load.size <= size /\ Len(pending) \in Nat
  <2>1. pending \in Seq(Bytes) /\ KeyboardTypeOK
    BY DEF KbdInv
  <2>2. mods \subseteq Modifiers /\ size \in 0 .. QSize /\ lost \in 0 .. MaxLost
    BY <2>1 DEF KeyboardTypeOK
  <2>3. size + lost = Len(pending) /\ load.size <= size
    BY <1>1 DEF KbdInv, RingIsPending
  <2>4. QED BY <2>1, <2>2, <2>3
<1>4. /\ KeyboardTypeOK'
      /\ pending # <<>> /\ pending' \in Seq(Bytes)
      /\ (~overrun' => Len(pending') <= QSize) /\ overrun' = overrun
      /\ \A i \in 1 .. Len(pending') : pending'[i] = pending[i + 1]
      /\ begin' = (load.begin + 1) % QSize /\ size' = load.size - 1
      /\ (load' # NoLoad => load'.size <= size') => RingIsPending'
  BY <1>1, <1>3, PopKeeps
<1>5. load' = [bytes |-> 1, sc |-> load.sc, begin |-> begin', size |-> size']
  BY <1>1, <1>2, <1>4 DEF LoadType
<1>6. size' \in 1 .. QSize /\ begin' \in 0 .. QSize - 1
  BY <1>2, <1>4 DEF KeyboardTypeOK, LoadType
<1>7. RingIsPending'
  BY <1>4, <1>5, <1>6
<1>8. pending'[1] = pending[2]
  <2>1. pending \in Seq(Bytes) /\ Len(pending) >= 2
    BY <1>2, <1>3 DEF KbdInv, LoadType
  <2>2. QED BY <1>1, <2>1
<1>9. LoadAgrees'
  <2>1. lost' + (size' - load'.size) <= MaxLost
    <3>1. lost' \in 0 .. MaxLost
      BY <1>4 DEF KeyboardTypeOK
    <3>2. load'.size = size' /\ size' \in Int
      BY <1>5, <1>6
    <3>3. size' - load'.size = 0
      <4>1. \A n \in Int : n - n = 0
        OBVIOUS
      <4>2. QED BY <3>2, <4>1
    <3>4. QED BY <3>1, <3>3
  <2>2. load' \in LoadType
    BY <1>2, <1>5, <1>6 DEF LoadType
  <2>3. QED BY <1>2, <1>4, <1>5, <1>6, <1>8, <2>1, <2>2 DEF LoadAgrees
<1>10. StreamTells'
  <2>1. CASE overrun
    BY <1>4, <2>1 DEF StreamTells
  <2>2. CASE ~overrun
    BY <1>1, <1>2, <1>4, <2>2, BytesTyped, TakenTells
  <2>3. QED BY <2>1, <2>2
<1>11. QED BY <1>1, <1>4, <1>7, <1>9, <1>10 DEF KbdInv

LEMMA LastKeeps ==
  ASSUME KbdInv, StoreLast
  PROVE  KbdInv' /\ load' = NoLoad /\ mods' \subseteq Modifiers
<1> USE KeyboardAssumption
<1>1. /\ load # NoLoad /\ load.bytes = 1 /\ ~stopped /\ PopStores
      /\ pending' = Tail(pending) /\ lost' = lost + (size - load.size)
      /\ mods' = poll(load.sc) /\ load' = NoLoad
      /\ UNCHANGED <<stopped, held, rest>>
  BY DEF StoreLast, NoLoad
<1>2. ~overrun => load.sc = pending[1]
  BY <1>1 DEF KbdInv, LoadAgrees
<1>3. mods \subseteq Modifiers
  BY DEF KbdInv, KeyboardTypeOK
<1>4. mods' \subseteq Modifiers
  BY <1>1, <1>3 DEF poll
<1>5. /\ KeyboardTypeOK'
      /\ pending # <<>> /\ pending' \in Seq(Bytes)
      /\ (~overrun' => Len(pending') <= QSize) /\ overrun' = overrun
      /\ (load' # NoLoad => load'.size <= size') => RingIsPending'
  BY <1>1, <1>4, PopKeeps
<1>6. RingIsPending' /\ LoadAgrees'
  BY <1>1, <1>5 DEF LoadAgrees
<1>7. ~overrun => \A m \in Modifiers :
                    /\ pending[1].code # m => (m \in mods' <=> m \in mods)
                    /\ pending[1].code = m => (m \in mods' <=> ~pending[1].release)
  BY <1>1, <1>2, <1>3 DEF poll
<1>8. StreamTells'
  <2>1. CASE overrun
    BY <1>5, <2>1 DEF StreamTells
  <2>2. CASE ~overrun
    BY <1>1, <1>5, <1>7, <2>2, TakenTells
  <2>3. QED BY <2>1, <2>2
<1>9. QED BY <1>1, <1>4, <1>5, <1>6, <1>8 DEF KbdInv

-----------------------------------------------------------------------------
(* Lemmas about lists of windows: what each operation on _wins leaves in them. *)

LEMMA FrontList ==
  ASSUME NEW s \in Seq(Window), NEW w \in Window, w \notin ToSet(s), IsInjective(s)
  PROVE  /\ ToFront(s, w) \in Seq(Window) /\ IsInjective(ToFront(s, w))
         /\ ToSet(ToFront(s, w)) = ToSet(s) \union {w}
<1> DEFINE t == ToFront(s, w)
<1>1. /\ t \in Seq(Window) /\ DOMAIN t = 1 .. Len(s) + 1 /\ DOMAIN s = 1 .. Len(s)
      /\ Len(s) \in Nat /\ t[1] = w
      /\ \A i \in 2 .. Len(s) + 1 : t[i] = s[i - 1]
  BY DEF ToFront
<1> HIDE DEF t
<1>2. \A i \in DOMAIN t : i # 1 => i - 1 \in DOMAIN s /\ t[i] = s[i - 1]
  BY <1>1
<1>3. \A i \in DOMAIN s : i + 1 \in DOMAIN t /\ t[i + 1] = s[i]
  BY <1>1
<1>4. ToSet(t) = ToSet(s) \union {w}
  BY <1>1, <1>2, <1>3 DEF ToSet
<1>5. IsInjective(t)
  <2> SUFFICES ASSUME NEW i \in DOMAIN t, NEW j \in DOMAIN t, t[i] = t[j]
               PROVE  i = j
    BY DEF IsInjective
  <2>1. CASE i # 1 /\ j # 1
    BY <1>1, <1>2, <2>1 DEF IsInjective
  <2>2. CASE i = 1 \/ j = 1
    BY <1>1, <1>2, <2>2 DEF ToSet
  <2>3. QED BY <2>1, <2>2
<1>6. QED BY <1>1, <1>4, <1>5 DEF t

\* The list turned so that place k comes first.
Turned(s, k) == SubSeq(s, k, Len(s)) \o SubSeq(s, 1, k - 1)

LEMMA TurnedList ==
  ASSUME NEW s \in Seq(Window), IsInjective(s), NEW k \in DOMAIN s
  PROVE  /\ Turned(s, k) \in Seq(Window) /\ IsInjective(Turned(s, k))
         /\ ToSet(Turned(s, k)) = ToSet(s)
<1> DEFINE n == Len(s)
           t == Turned(s, k)
           to == [i \in 1 .. n |-> IF i <= n - k + 1 THEN i + k - 1 ELSE i + k - 1 - n]
<1>1. n \in Nat /\ k \in 1 .. n /\ DOMAIN s = 1 .. n /\ (\A i \in 1 .. n : s[i] \in Window)
  OBVIOUS
<1> HIDE DEF n
<1>2. /\ SubSeq(s, k, n) \in Seq(Window) /\ Len(SubSeq(s, k, n)) = n - k + 1
      /\ \A i \in 1 .. n - k + 1 : SubSeq(s, k, n)[i] = s[k + i - 1]
  BY <1>1, SubSeqProperties
<1>3. /\ SubSeq(s, 1, k - 1) \in Seq(Window) /\ Len(SubSeq(s, 1, k - 1)) = k - 1
      /\ \A i \in 1 .. k - 1 : SubSeq(s, 1, k - 1)[i] = s[i]
  BY <1>1 DEF n
<1>4. t = SubSeq(s, k, n) \o SubSeq(s, 1, k - 1)
  BY DEF Turned, n
<1>5. /\ t \in Seq(Window) /\ Len(t) = n
      /\ \A i \in 1 .. n : t[i] = IF i <= n - k + 1 THEN SubSeq(s, k, n)[i]
                                ELSE SubSeq(s, 1, k - 1)[i - (n - k + 1)]
  <2>1. /\ t \in Seq(Window) /\ Len(t) = (n - k + 1) + (k - 1)
        /\ \A i \in 1 .. (n - k + 1) + (k - 1) :
              t[i] = IF i <= n - k + 1 THEN SubSeq(s, k, n)[i]
                     ELSE SubSeq(s, 1, k - 1)[i - (n - k + 1)]
    <3> DEFINE a == SubSeq(s, k, n)
               b == SubSeq(s, 1, k - 1)
    <3>1. a \in Seq(Window) /\ b \in Seq(Window) /\ Len(a) = n - k + 1 /\ Len(b) = k - 1
      BY <1>2, <1>3
    <3> HIDE DEF a, b
    <3>2. /\ a \o b \in Seq(Window) /\ Len(a \o b) = Len(a) + Len(b)
          /\ \A i \in 1 .. Len(a) + Len(b) : (a \o b)[i] = IF i <= Len(a) THEN a[i] ELSE b[i - Len(a)]
      BY <3>1, ConcatProperties
    <3>3. QED BY <1>4, <3>1, <3>2 DEF a, b
  <2>2. (n - k + 1) + (k - 1) = n
    BY <1>1
  <2>3. QED BY <2>1, <2>2
<1> HIDE DEF t
<1>6. DOMAIN t = 1 .. n /\ to \in [1 .. n -> 1 .. n]
  BY <1>1, <1>5
<1>7. \A i \in 1 .. n : t[i] = s[to[i]]
  <2> TAKE i \in 1 .. n
  <2>1. CASE i <= n - k + 1
    <3>1. i \in 1 .. n - k + 1 /\ k + i - 1 = i + k - 1
      BY <1>1, <2>1
    <3>2. QED BY <1>2, <1>5, <2>1, <3>1
  <2>2. CASE ~(i <= n - k + 1)
    <3>1. i - (n - k + 1) \in 1 .. k - 1 /\ i - (n - k + 1) = i + k - 1 - n
      BY <1>1, <2>2
    <3>2. QED BY <1>3, <1>5, <2>2, <3>1
  <2>3. QED BY <2>1, <2>2
<1>8. IsInjective(to)
  BY <1>1 DEF IsInjective
<1>9. \A j \in 1 .. n : \E i \in 1 .. n : to[i] = j
  <2> TAKE j \in 1 .. n
  <2>1. CASE j >= k
    <3> j - k + 1 \in 1 .. n /\ to[j - k + 1] = j
      BY <1>1, <2>1
    <3> QED OBVIOUS
  <2>2. CASE j < k
    <3>1. n - k + 1 + j \in 1 .. n
      BY <1>1, <2>2
    <3>2. PICK i \in 1 .. n : i = n - k + 1 + j
      BY <3>1
    <3>3. ~(i <= n - k + 1) /\ i + k - 1 - n = j
      BY <1>1, <2>2, <3>2
    <3>4. QED BY <3>3
  <2>3. QED BY <1>1, <2>1, <2>2
<1> HIDE DEF to
<1>10. IsInjective(t)
  BY <1>1, <1>6, <1>7, <1>8 DEF IsInjective
<1>11. ToSet(t) = ToSet(s)
  <2>1. ToSet(t) = {t[i] : i \in 1 .. n} /\ ToSet(s) = {s[i] : i \in 1 .. n}
    BY <1>1, <1>6 DEF ToSet
  <2>2. \A i \in 1 .. n : t[i] \in ToSet(s)
    BY <1>6, <1>7, <2>1
  <2>3. ASSUME NEW j \in 1 .. n
        PROVE  s[j] \in ToSet(t)
    <3>1. PICK i \in 1 .. n : to[i] = j
      BY <1>9
    <3>2. QED BY <1>7, <2>1, <3>1
  <2>4. QED BY <2>1, <2>2, <2>3
<1>12. QED BY <1>5, <1>10, <1>11 DEF t

LEMMA TailList ==
  ASSUME NEW s \in Seq(Window), IsInjective(s), s # <<>>
  PROVE  /\ Tail(s) \in Seq(Window) /\ IsInjective(Tail(s))
         /\ ToSet(Tail(s)) = ToSet(s) \ {Head(s)} /\ Head(s) \in ToSet(s) /\ Head(s) \in Window
<1> DEFINE t == Tail(s)
<1>1. /\ t \in Seq(Window) /\ Len(s) \in Nat \ {0} /\ DOMAIN t = 1 .. Len(s) - 1
      /\ DOMAIN s = 1 .. Len(s) /\ Head(s) = s[1]
      /\ \A i \in 1 .. Len(s) - 1 : t[i] = s[i + 1]
  OBVIOUS
<1> HIDE DEF t
<1>2. \A i \in DOMAIN t : i + 1 \in DOMAIN s /\ t[i] = s[i + 1] /\ i + 1 # 1
  BY <1>1
<1>3. \A i \in DOMAIN s : i # 1 => i - 1 \in DOMAIN t /\ t[i - 1] = s[i]
  BY <1>1
<1>4. ToSet(t) = ToSet(s) \ {Head(s)}
  <2>1. \A w : w \in ToSet(t) <=> \E i \in DOMAIN t : w = t[i]
    BY DEF ToSet
  <2>2. \A w : w \in ToSet(s) <=> \E i \in DOMAIN s : w = s[i]
    BY DEF ToSet
  <2>3. \A i \in DOMAIN s : s[i] = Head(s) <=> i = 1
    BY <1>1 DEF IsInjective
  <2>4. QED BY <1>2, <1>3, <2>1, <2>2, <2>3
<1>5. IsInjective(t)
  BY <1>1, <1>2 DEF IsInjective
<1>6. QED BY <1>1, <1>4, <1>5 DEF t, ToSet

\* Win+Tab is a turn by one place.
LEMMA RotatedList ==
  ASSUME NEW s \in Seq(Window), IsInjective(s), s # <<>>
  PROVE  /\ Rotate(s) \in Seq(Window) /\ IsInjective(Rotate(s))
         /\ ToSet(Rotate(s)) = ToSet(s)
<1> DEFINE n == Len(s)
           t == Rotate(s)
           to == [i \in 1 .. n |-> IF i = n THEN 1 ELSE i + 1]
<1>1. /\ t \in Seq(Window) /\ n \in Nat \ {0} /\ DOMAIN t = 1 .. n /\ DOMAIN s = 1 .. n
      /\ \A i \in 1 .. n : t[i] = IF i = n THEN s[1] ELSE s[i + 1]
  BY DEF Rotate
<1> HIDE DEF n, t
<1>2. to \in [1 .. n -> 1 .. n] /\ IsInjective(to)
  BY <1>1 DEF IsInjective
<1>3. \A i \in 1 .. n : t[i] = s[to[i]]
  BY <1>1
<1>4. \A j \in 1 .. n : \E i \in 1 .. n : to[i] = j
  <2> TAKE j \in 1 .. n
  <2>1. CASE j = 1
    BY <1>1, <2>1
  <2>2. CASE j # 1
    <3> j - 1 \in 1 .. n /\ to[j - 1] = j
      BY <1>1, <2>2
    <3> QED OBVIOUS
  <2>3. QED BY <2>1, <2>2
<1> HIDE DEF to
<1>5. IsInjective(t)
  BY <1>1, <1>2, <1>3 DEF IsInjective
<1>6. ToSet(t) = ToSet(s)
  <2>1. ToSet(t) = {t[i] : i \in 1 .. n} /\ ToSet(s) = {s[i] : i \in 1 .. n}
    BY <1>1 DEF ToSet
  <2>2. \A i \in 1 .. n : t[i] \in ToSet(s)
    BY <1>2, <1>3, <2>1
  <2>3. ASSUME NEW j \in 1 .. n
        PROVE  s[j] \in ToSet(t)
    <3>1. PICK i \in 1 .. n : to[i] = j
      BY <1>4
    <3>2. QED BY <1>3, <2>1, <3>1
  <2>4. QED BY <2>1, <2>2, <2>3
<1>7. QED BY <1>1, <1>5, <1>6 DEF t

\* The search finds a window that is in the list.
LEMMA PlaceFound ==
  ASSUME NEW s \in Seq(Window), IsInjective(s), NEW w \in ToSet(s)
  PROVE  Place(s, w) \in DOMAIN s /\ s[Place(s, w)] = w
<1>1. PICK i \in DOMAIN s : s[i] = w
  BY DEF ToSet
<1>2. \A j \in 1 .. i - 1 : s[j] # w
  BY <1>1 DEF IsInjective
<1>3. QED BY <1>1, <1>2 DEF Place

LEMMA RemovedList ==
  ASSUME NEW s \in Seq(Window), IsInjective(s), NEW w \in ToSet(s)
  PROVE  /\ remWin(s, w) \in Seq(Window) /\ IsInjective(remWin(s, w))
         /\ ToSet(remWin(s, w)) = ToSet(s) \ {w}
<1> DEFINE n == Len(s)
           k == Place(s, w)
           t == remWin(s, w)
           to == [i \in 1 .. n - 1 |-> IF i < k THEN i ELSE i + 1]
<1>1. n \in Nat /\ k \in 1 .. n /\ DOMAIN s = 1 .. n /\ s[k] = w /\ (\A i \in 1 .. n : s[i] \in Window)
  BY PlaceFound
<1> HIDE DEF k, n
<1>2. /\ SubSeq(s, 1, k - 1) \in Seq(Window) /\ Len(SubSeq(s, 1, k - 1)) = k - 1
      /\ \A i \in 1 .. k - 1 : SubSeq(s, 1, k - 1)[i] = s[i]
  BY <1>1 DEF n
<1>3. /\ SubSeq(s, k + 1, n) \in Seq(Window) /\ Len(SubSeq(s, k + 1, n)) = n - k
      /\ \A i \in 1 .. n - k : SubSeq(s, k + 1, n)[i] = s[k + 1 + i - 1]
  <2>1. k + 1 \in Int /\ n \in Int /\ n - (k + 1) + 1 = n - k /\ \A i \in k + 1 .. n : s[i] \in Window
    BY <1>1
  <2>2. /\ SubSeq(s, k + 1, n) \in Seq(Window)
        /\ Len(SubSeq(s, k + 1, n)) = IF k + 1 <= n THEN n - (k + 1) + 1 ELSE 0
        /\ \A i \in 1 .. n - (k + 1) + 1 : SubSeq(s, k + 1, n)[i] = s[k + 1 + i - 1]
    BY <2>1, SubSeqProperties
  <2>3. QED BY <1>1, <2>1, <2>2
<1>4. t = SubSeq(s, 1, k - 1) \o SubSeq(s, k + 1, n)
  BY DEF remWin, RemoveAt, k, n
<1>5. /\ t \in Seq(Window) /\ Len(t) = n - 1
      /\ \A i \in 1 .. n - 1 : t[i] = IF i <= k - 1 THEN SubSeq(s, 1, k - 1)[i]
                                    ELSE SubSeq(s, k + 1, n)[i - (k - 1)]
  <2>1. /\ t \in Seq(Window) /\ Len(t) = (k - 1) + (n - k)
        /\ \A i \in 1 .. (k - 1) + (n - k) :
              t[i] = IF i <= k - 1 THEN SubSeq(s, 1, k - 1)[i] ELSE SubSeq(s, k + 1, n)[i - (k - 1)]
    <3> DEFINE a == SubSeq(s, 1, k - 1)
               b == SubSeq(s, k + 1, n)
    <3>1. a \in Seq(Window) /\ b \in Seq(Window) /\ Len(a) = k - 1 /\ Len(b) = n - k
      BY <1>2, <1>3
    <3> HIDE DEF a, b
    <3>2. /\ a \o b \in Seq(Window) /\ Len(a \o b) = Len(a) + Len(b)
          /\ \A i \in 1 .. Len(a) + Len(b) : (a \o b)[i] = IF i <= Len(a) THEN a[i] ELSE b[i - Len(a)]
      BY <3>1, ConcatProperties
    <3>3. QED BY <1>4, <3>1, <3>2 DEF a, b
  <2>2. (k - 1) + (n - k) = n - 1
    BY <1>1
  <2>3. QED BY <2>1, <2>2
<1> HIDE DEF t
<1>6. DOMAIN t = 1 .. n - 1 /\ to \in [1 .. n - 1 -> 1 .. n]
  BY <1>1, <1>5
<1>7. \A i \in 1 .. n - 1 : t[i] = s[to[i]]
  <2> TAKE i \in 1 .. n - 1
  <2>1. CASE i < k
    <3>1. i \in 1 .. k - 1
      BY <1>1, <2>1
    <3>2. QED BY <1>2, <1>5, <2>1, <3>1
  <2>2. CASE ~(i < k)
    <3>1. i - (k - 1) \in 1 .. n - k /\ k + 1 + (i - (k - 1)) - 1 = i + 1 /\ ~(i <= k - 1)
      BY <1>1, <2>2
    <3>2. QED BY <1>3, <1>5, <2>2, <3>1
  <2>3. QED BY <2>1, <2>2
<1>8. IsInjective(to) /\ \A i \in 1 .. n - 1 : to[i] # k
  BY <1>1 DEF IsInjective
<1>9. \A j \in 1 .. n : j # k => \E i \in 1 .. n - 1 : to[i] = j
  <2> TAKE j \in 1 .. n
  <2>1. CASE j < k
    <3> j \in 1 .. n - 1 /\ to[j] = j
      BY <1>1, <2>1
    <3> QED OBVIOUS
  <2>2. CASE j > k
    <3> j - 1 \in 1 .. n - 1 /\ to[j - 1] = j
      BY <1>1, <2>2
    <3> QED OBVIOUS
  <2>3. QED BY <1>1, <2>1, <2>2
<1> HIDE DEF to
<1>10. IsInjective(t)
  BY <1>1, <1>6, <1>7, <1>8 DEF IsInjective
<1>11. ToSet(t) = ToSet(s) \ {w}
  <2>1. ToSet(t) = {t[i] : i \in 1 .. n - 1} /\ ToSet(s) = {s[i] : i \in 1 .. n}
    BY <1>1, <1>6 DEF ToSet
  <2>2. \A i \in 1 .. n : s[i] = w <=> i = k
    BY <1>1 DEF IsInjective
  <2>3. \A i \in 1 .. n - 1 : t[i] \in ToSet(s) /\ t[i] # w
    BY <1>6, <1>7, <1>8, <2>1, <2>2
  <2>4. ASSUME NEW j \in 1 .. n, s[j] # w
        PROVE  s[j] \in ToSet(t)
    <3>1. PICK i \in 1 .. n - 1 : to[i] = j
      BY <1>9, <2>2, <2>4
    <3>2. QED BY <1>7, <2>1, <3>1
  <2>5. QED BY <2>1, <2>3, <2>4
<1>12. QED BY <1>5, <1>10, <1>11 DEF t

-----------------------------------------------------------------------------
(* The steps of the desktop keep the windows where they are told to be.      *)

\* Putting the windows of a workspace in another order.
LEMMA OrderKeeps ==
  ASSUME DeskInv, NEW n \in Ws, NEW s \in Seq(Window), IsInjective(s),
         ToSet(s) = ToSet(wins[n]), wins' = [wins EXCEPT ![n] = s],
         UNCHANGED <<wsOf, alive, stale>>
  PROVE  WindowsPlaced' /\ wins' \in [Ws -> Seq(Window)]
<1>1. DeskTypeOK /\ WindowsPlaced
  BY DEF DeskInv
<1>2. wins' \in [Ws -> Seq(Window)]
  BY <1>1 DEF DeskTypeOK
<1>3. \A m \in Ws : ToSet(wins'[m]) = ToSet(wins[m]) /\ IsInjective(wins'[m])
  BY <1>1 DEF DeskTypeOK, WindowsPlaced
<1>4. QED BY <1>1, <1>2, <1>3 DEF DeskTypeOK, WindowsPlaced

LEMMA KeyOnMeKeeps ==
  ASSUME DeskInv, NEW sc, keyOnMe(sc, mods')
  PROVE  DeskInv'
<1>1. /\ DeskTypeOK /\ WindowsPlaced /\ active \in Ws
      /\ wins[active] \in Seq(Window) /\ IsInjective(wins[active])
      /\ UNCHANGED <<wsOf, alive, active, stale>>
      /\ superState' = [superState EXCEPT ![active] = Held(mods')]
  BY DEF DeskInv, DeskTypeOK, WindowsPlaced, keyOnMe
<1>2. WindowsPlaced' /\ wins' \in [Ws -> Seq(Window)]
  <2>1. CASE wins' = wins
    BY <1>1, <2>1 DEF DeskTypeOK, WindowsPlaced
  <2>2. CASE wins[active] # <<>> /\ wins' = [wins EXCEPT ![active] = Rotate(@)]
    <3>1. /\ Rotate(wins[active]) \in Seq(Window) /\ IsInjective(Rotate(wins[active]))
          /\ ToSet(Rotate(wins[active])) = ToSet(wins[active])
      BY <1>1, <2>2, RotatedList
    <3>2. QED BY <1>1, <2>2, <3>1, OrderKeeps
  <2>3. QED BY <2>1, <2>2 DEF keyOnMe
<1>3. Held(mods') \in BOOLEAN
  BY DEF Held
<1>4. superState' \in [Ws -> BOOLEAN] /\ superState'[active] = Held(mods')
  BY <1>1, <1>3 DEF DeskTypeOK
<1>5. SuperHeld'
  BY <1>1, <1>4 DEF SuperHeld
<1>6. QED BY <1>1, <1>2, <1>4, <1>5 DEF DeskInv, DeskTypeOK

LEMMA MoveKeeps ==
  ASSUME DeskInv, NEW n \in Ws, moveWindow(n), UNCHANGED <<alive, stale>>
  PROVE  WindowsPlaced' /\ wins' \in [Ws -> Seq(Window)] /\ wsOf' \in [Window -> Ws]
<1>1. DeskTypeOK /\ WindowsPlaced /\ active \in Ws
  BY DEF DeskInv, DeskTypeOK
<1>2. CASE wins[active] = <<>>
  BY <1>1, <1>2 DEF moveWindow, WindowsPlaced, DeskTypeOK
<1>3. CASE wins[active] # <<>>
  <2> DEFINE s == wins[active]
             w == Head(s)
             r == IF n = active THEN Tail(s) ELSE wins[n]
  <2>1. s \in Seq(Window) /\ IsInjective(s)
    BY <1>1 DEF DeskTypeOK, WindowsPlaced
  <2>2. /\ Tail(s) \in Seq(Window) /\ IsInjective(Tail(s))
        /\ ToSet(Tail(s)) = ToSet(s) \ {w} /\ w \in ToSet(s) /\ w \in Window
    BY <1>3, <2>1, TailList
  <2>3. w \in alive /\ wsOf[w] = active /\ \A m \in Ws : m # active => w \notin ToSet(wins[m])
    BY <1>1, <2>2 DEF WindowsPlaced
  <2>4. r \in Seq(Window) /\ IsInjective(r) /\ w \notin ToSet(r)
    BY <1>1, <2>2, <2>3 DEF DeskTypeOK, WindowsPlaced
  <2>5. /\ ToFront(r, w) \in Seq(Window) /\ IsInjective(ToFront(r, w))
        /\ ToSet(ToFront(r, w)) = ToSet(r) \union {w}
    BY <2>2, <2>4, FrontList
  <2>6. /\ wins' = [[wins EXCEPT ![active] = Tail(@)] EXCEPT ![n] = ToFront(@, w)]
        /\ wsOf' = [wsOf EXCEPT ![w] = n]
    BY <1>3 DEF moveWindow, Focused
  <2>7. \A m \in Ws : wins'[m] = IF m = n THEN ToFront(r, w)
                                ELSE IF m = active THEN Tail(s) ELSE wins[m]
    BY <1>1, <2>6 DEF DeskTypeOK
  <2>8. DOMAIN wins' = Ws /\ wins' = [m \in Ws |-> wins'[m]]
    BY <1>1, <2>6 DEF DeskTypeOK
  <2> HIDE DEF w, r
  <2>9. \A m \in Ws : wins'[m] \in Seq(Window) /\ IsInjective(wins'[m])
    <3> TAKE m \in Ws
    <3>1. wins[m] \in Seq(Window) /\ IsInjective(wins[m])
      BY <1>1 DEF DeskTypeOK, WindowsPlaced
    <3>2. wins'[m] = ToFront(r, w) \/ wins'[m] = Tail(s) \/ wins'[m] = wins[m]
      BY <2>7
    <3>3. QED BY <2>2, <2>5, <3>1, <3>2
  <2>10. wins' \in [Ws -> Seq(Window)]
    BY <2>8, <2>9
  <2>11. wsOf' \in [Window -> Ws] /\ wsOf'[w] = n /\ \A v \in Window \ {w} : wsOf'[v] = wsOf[v]
    BY <1>1, <2>2, <2>6 DEF DeskTypeOK
  <2>12. \A m \in Ws : ToSet(wins'[m]) = IF m = n THEN ToSet(wins[m]) \union {w}
                                        ELSE ToSet(wins[m]) \ {w}
    <3> TAKE m \in Ws
    <3>1. CASE m = n /\ n = active
      BY <2>2, <2>5, <2>7, <3>1 DEF r
    <3>2. CASE m = n /\ n # active
      BY <2>5, <2>7, <3>2 DEF r
    <3>3. CASE m # n /\ m = active
      BY <2>2, <2>7, <3>3
    <3>4. CASE m # n /\ m # active
      BY <2>3, <2>7, <3>4
    <3>5. QED BY <3>1, <3>2, <3>3, <3>4
  <2>13. ASSUME NEW v \in alive
         PROVE  /\ v \in ToSet(wins'[wsOf'[v]])
                /\ \A m \in Ws \ {wsOf'[v]} : v \notin ToSet(wins'[m])
    <3>1. v \in Window /\ wsOf[v] \in Ws
      BY <1>1 DEF DeskTypeOK
    <3>2. CASE v = w
      BY <2>11, <2>12, <3>2
    <3>3. CASE v # w
      <4>1. \A m \in Ws : v \in ToSet(wins'[m]) <=> v \in ToSet(wins[m])
        BY <2>12, <3>3
      <4>2. v \in ToSet(wins[wsOf[v]]) /\ \A m \in Ws \ {wsOf[v]} : v \notin ToSet(wins[m])
        BY <1>1 DEF WindowsPlaced
      <4>3. wsOf'[v] = wsOf[v]
        BY <2>11, <3>1, <3>3
      <4>4. QED BY <3>1, <4>1, <4>2, <4>3
    <3>4. QED BY <3>2, <3>3
  <2>14. ASSUME NEW m \in Ws
         PROVE  ToSet(wins'[m]) \subseteq alive
    <3>1. ToSet(wins[m]) \subseteq alive
      BY <1>1 DEF WindowsPlaced
    <3>2. ToSet(wins'[m]) = ToSet(wins[m]) \union {w} \/ ToSet(wins'[m]) = ToSet(wins[m]) \ {w}
      BY <2>12
    <3>3. QED BY <2>3, <3>1, <3>2
  <2>15. QED BY <1>1, <2>9, <2>10, <2>11, <2>13, <2>14 DEF WindowsPlaced
<1>4. QED BY <1>2, <1>3

LEMMA KeyKeeps ==
  ASSUME DeskInv, NEW sc, handleKey(sc, mods')
  PROVE  DeskInv'
<1>1. DeskTypeOK /\ WindowsPlaced /\ active \in Ws
  BY DEF DeskInv, DeskTypeOK
<1>2. CASE keyOnMe(sc, mods')
  BY <1>2, KeyOnMeKeeps
<1>3. CASE /\ IsCommand(sc, mods')
           /\ \/ moveWindow(workspaceNum(sc)) /\ UNCHANGED active
              \/ active' = workspaceNum(sc) /\ UNCHANGED <<wins, wsOf>>
           /\ UNCHANGED <<alive, superState, grab, stale>>
  <2>1. Held(mods') /\ workspaceNum(sc) \in Ws
    BY <1>3, DesktopAssumption DEF IsCommand, workspaceNum
  <2>2. CASE moveWindow(workspaceNum(sc)) /\ UNCHANGED active
    <3>1. WindowsPlaced' /\ wins' \in [Ws -> Seq(Window)] /\ wsOf' \in [Window -> Ws]
      BY <1>3, <2>1, <2>2, MoveKeeps
    <3>2. SuperHeld'
      BY <2>1, <2>2 DEF SuperHeld
    <3>3. QED BY <1>1, <1>3, <2>2, <3>1, <3>2 DEF DeskInv, DeskTypeOK
  <2>3. CASE active' = workspaceNum(sc) /\ UNCHANGED <<wins, wsOf>>
    <3>1. WindowsPlaced' /\ DeskTypeOK'
      BY <1>1, <1>3, <2>1, <2>3 DEF WindowsPlaced, DeskTypeOK
    <3>2. SuperHeld'
      BY <2>1 DEF SuperHeld
    <3>3. QED BY <3>1, <3>2 DEF DeskInv
  <2>4. QED BY <1>3, <2>2, <2>3
<1>4. QED BY <1>2, <1>3 DEF handleKey

\* A click puts the windows in another order, or none.
LEMMA MouseKeeps ==
  ASSUME DeskInv, NEW e, NEW w, handleMouse(e, w), UNCHANGED mods
  PROVE  DeskInv'
<1>1. /\ DeskTypeOK /\ WindowsPlaced /\ active \in Ws
      /\ wins[active] \in Seq(Window) /\ IsInjective(wins[active])
      /\ wins' = [wins EXCEPT ![active] = Raised(e, w)]
      /\ w \in ToSet(wins[active]) \union {NoWindow}
      /\ UNCHANGED <<wsOf, alive, active, superState, stale>>
  BY DEF DeskInv, DeskTypeOK, WindowsPlaced, handleMouse
<1>2. /\ Raised(e, w) \in Seq(Window) /\ IsInjective(Raised(e, w))
      /\ ToSet(Raised(e, w)) = ToSet(wins[active])
  <2>1. CASE w # NoWindow /\ e.pressed \intersect e.changed # {}
    <3>1. w \in ToSet(wins[active])
      BY <1>1, <2>1
    <3>2. Place(wins[active], w) \in DOMAIN wins[active]
      BY <1>1, <3>1, PlaceFound
    <3>3. Raised(e, w) = Turned(wins[active], Place(wins[active], w))
      BY <2>1 DEF Raised, Turned
    <3>4. QED BY <1>1, <3>2, <3>3, TurnedList
  <2>2. CASE ~(w # NoWindow /\ e.pressed \intersect e.changed # {})
    BY <1>1, <2>2 DEF Raised
  <2>3. QED BY <2>1, <2>2
<1>3. WindowsPlaced' /\ wins' \in [Ws -> Seq(Window)]
  BY <1>1, <1>2, OrderKeeps
<1>4. SuperHeld'
  BY <1>1 DEF DeskInv, SuperHeld, Held
<1>5. QED BY <1>1, <1>3, <1>4 DEF DeskInv, DeskTypeOK

LEMMA OpenKeeps ==
  ASSUME DeskInv, NEW n \in Ws, NEW w \in Window, openWindow(n, w)
  PROVE  DeskInv'
<1>1. /\ DeskTypeOK /\ WindowsPlaced /\ w \notin alive
      /\ wins[n] \in Seq(Window) /\ IsInjective(wins[n]) /\ ToSet(wins[n]) \subseteq alive
      /\ alive' = alive \union {w}
      /\ wins' = [wins EXCEPT ![n] = ToFront(@, w)]
      /\ wsOf' = [wsOf EXCEPT ![w] = n]
      /\ UNCHANGED <<active, superState, stale, mods>>
  BY DEF DeskInv, DeskTypeOK, WindowsPlaced, openWindow, kbdVars
<1>2. /\ ToFront(wins[n], w) \in Seq(Window) /\ IsInjective(ToFront(wins[n], w))
      /\ ToSet(ToFront(wins[n], w)) = ToSet(wins[n]) \union {w}
  BY <1>1, FrontList
<1>3. DeskTypeOK'
  BY <1>1, <1>2 DEF DeskTypeOK
<1>4. \A m \in Ws :
        /\ IsInjective(wins'[m]) /\ ToSet(wins'[m]) \subseteq alive'
        /\ \A v \in alive : (v \in ToSet(wins'[m])) <=> (v \in ToSet(wins[m]))
        /\ (w \in ToSet(wins'[m])) <=> (m = n)
  <2> TAKE m \in Ws
  <2>1. IsInjective(wins[m]) /\ ToSet(wins[m]) \subseteq alive
    BY <1>1 DEF WindowsPlaced
  <2>2. wins'[m] = IF m = n THEN ToFront(wins[n], w) ELSE wins[m]
    BY <1>1 DEF DeskTypeOK
  <2>3. CASE m = n
    BY <1>1, <1>2, <2>2, <2>3
  <2>4. CASE m # n
    BY <1>1, <2>1, <2>2, <2>4
  <2>5. QED BY <2>3, <2>4
<1>5. ASSUME NEW v \in alive'
      PROVE  /\ v \in ToSet(wins'[wsOf'[v]])
             /\ \A m \in Ws \ {wsOf'[v]} : v \notin ToSet(wins'[m])
  <2>1. CASE v = w
    <3>1. wsOf'[v] = n
      BY <1>1, <2>1 DEF DeskTypeOK
    <3>2. QED BY <1>4, <2>1, <3>1
  <2>2. CASE v # w
    <3>1. v \in alive /\ v \in Window /\ wsOf[v] \in Ws
      BY <1>1, <2>2 DEF DeskTypeOK
    <3>2. wsOf'[v] = wsOf[v]
      BY <1>1, <2>2, <3>1 DEF DeskTypeOK
    <3>3. v \in ToSet(wins[wsOf[v]]) /\ \A m \in Ws \ {wsOf[v]} : v \notin ToSet(wins[m])
      BY <1>1, <3>1 DEF WindowsPlaced
    <3>4. QED BY <1>4, <3>1, <3>2, <3>3
  <2>3. QED BY <2>1, <2>2
<1>6. WindowsPlaced'
  BY <1>1, <1>4, <1>5 DEF WindowsPlaced
<1>7. SuperHeld'
  BY <1>1 DEF DeskInv, SuperHeld, Held
<1>8. QED BY <1>3, <1>6, <1>7 DEF DeskInv

LEMMA CloseKeeps ==
  ASSUME DeskInv, NEW w \in Window, closeWindow(w)
  PROVE  DeskInv' /\ UNCHANGED stopped
<1> DEFINE n == wsOf[w]
<1>1. /\ DeskTypeOK /\ WindowsPlaced /\ w \in alive /\ n \in Ws
      /\ w \in ToSet(wins[n]) /\ \A m \in Ws \ {n} : w \notin ToSet(wins[m])
      /\ wins[n] \in Seq(Window) /\ IsInjective(wins[n]) /\ ToSet(wins[n]) \subseteq alive
  BY DEF DeskInv, DeskTypeOK, WindowsPlaced, closeWindow
<1>2. /\ wins' = [wins EXCEPT ![n] = remWin(@, w)]
      /\ alive' = alive \ {w}
      /\ UNCHANGED <<stopped, stale, wsOf, active, superState, mods>>
  BY <1>1 DEF closeWindow
<1> HIDE DEF n
<1>3. /\ remWin(wins[n], w) \in Seq(Window) /\ IsInjective(remWin(wins[n], w))
      /\ ToSet(remWin(wins[n], w)) = ToSet(wins[n]) \ {w}
  BY <1>1, RemovedList
<1>4. DeskTypeOK'
  BY <1>1, <1>2, <1>3 DEF DeskTypeOK
<1>5. \A m \in Ws : IsInjective(wins'[m]) /\ ToSet(wins'[m]) = ToSet(wins[m]) \ {w}
  <2> TAKE m \in Ws
  <2>1. wins'[m] = IF m = n THEN remWin(wins[n], w) ELSE wins[m]
    BY <1>1, <1>2 DEF DeskTypeOK
  <2>2. CASE m = n
    BY <1>3, <2>1, <2>2
  <2>3. CASE m # n
    <3>1. w \notin ToSet(wins[m]) /\ IsInjective(wins[m])
      BY <1>1, <2>3 DEF WindowsPlaced
    <3>2. QED BY <2>1, <2>3, <3>1
  <2>4. QED BY <2>2, <2>3
<1>6. ASSUME NEW v \in alive'
      PROVE  /\ v \in ToSet(wins'[wsOf'[v]])
             /\ \A m \in Ws \ {wsOf'[v]} : v \notin ToSet(wins'[m])
  <2>1. v \in alive /\ v # w /\ wsOf[v] \in Ws /\ wsOf'[v] = wsOf[v]
    BY <1>1, <1>2 DEF DeskTypeOK
  <2>2. v \in ToSet(wins[wsOf[v]]) /\ \A m \in Ws \ {wsOf[v]} : v \notin ToSet(wins[m])
    BY <1>1, <2>1 DEF WindowsPlaced
  <2>3. QED BY <1>5, <2>1, <2>2
<1>7. ASSUME NEW m \in Ws
      PROVE  ToSet(wins'[m]) \subseteq alive'
  <2>1. ToSet(wins[m]) \subseteq alive
    BY <1>1 DEF WindowsPlaced
  <2>2. QED BY <1>2, <1>5, <2>1
<1>8. WindowsPlaced'
  BY <1>1, <1>2, <1>5, <1>6, <1>7 DEF WindowsPlaced
<1>9. SuperHeld'
  BY <1>2 DEF DeskInv, SuperHeld, Held
<1>10. QED BY <1>2, <1>4, <1>8, <1>9 DEF DeskInv

-----------------------------------------------------------------------------
(* The invariant is inductive.                                               *)

LEMMA KeyboardStarts ==
  ASSUME KeyboardInit
  PROVE  KbdInv
<1> USE KeyboardAssumption DEF KeyboardInit
<1>1. KeyboardTypeOK
  <2>1. ring \in [0 .. QSize - 1 -> Bytes \union {Taken}]
    OBVIOUS
  <2>2. begin \in 0 .. QSize - 1 /\ end \in 0 .. QSize - 1 /\ size \in 0 .. QSize
    OBVIOUS
  <2>3. lost \in 0 .. MaxLost
    OBVIOUS
  <2>6. stopped \in BOOLEAN /\ overrun \in BOOLEAN
    BY Zenon
  <2>4. mods \subseteq Modifiers /\ held \subseteq Modifiers
    OBVIOUS
  <2>5. QED BY <2>1, <2>2, <2>3, <2>4, <2>6 DEF KeyboardTypeOK
<1>2. RingIsPending
  <2>1. (0 + 0) % QSize = 0
    BY Turn
  <2>2. Len(<<>>) = 0 /\ pending = <<>>
    OBVIOUS
  <2>3. QED BY <2>1, <2>2 DEF RingIsPending
<1>3. \A m \in Modifiers : Tells(<<>>, m, {}, {})
  BY DEF Tells
<1>4. StreamTells
  BY <1>3 DEF StreamTells, Coming
<1>5. QED BY <1>1, <1>2, <1>4 DEF KbdInv, LoadAgrees

LEMMA DesktopStarts ==
  ASSUME Init
  PROVE  DeskInv
<1> USE DesktopAssumption
<1>1. 1 % NbWs \in Ws
  BY DEF Ws
<1>2. \A w \in Window, n \in Ws : w \in ToSet(InitialWins[n]) =>
        wsOf[w] = n /\ \A m \in Ws \ {n} : w \notin ToSet(InitialWins[m])
  BY DEF Init
<1>3. 0 \in Ws
  BY DEF Ws
<1>4. wsOf \in [Window -> Ws]
  BY <1>3 DEF Init
<1>5. \A n \in Ws : ToSet(InitialWins[n]) \subseteq Window
  BY DEF ToSet
<1>6. DeskTypeOK
  BY <1>1, <1>4, <1>5 DEF Init, DeskTypeOK
<1>7. WindowsPlaced
  <2>1. ASSUME NEW w \in alive
        PROVE  /\ w \in ToSet(wins[wsOf[w]])
               /\ \A n \in Ws \ {wsOf[w]} : w \notin ToSet(wins[n])
    <3>1. PICK n \in Ws : w \in ToSet(InitialWins[n])
      BY DEF Init
    <3>2. w \in Window
      BY <1>5, <3>1
    <3>3. QED BY <1>2, <3>1, <3>2 DEF Init
  <2>2. ASSUME NEW n \in Ws
        PROVE  IsInjective(wins[n]) /\ ToSet(wins[n]) \subseteq alive
    BY DEF Init
  <2>3. ~stale
    BY DEF Init
  <2>4. QED BY <2>1, <2>2, <2>3 DEF WindowsPlaced
<1>8. SuperHeld
  BY <1>1 DEF Init, SuperHeld
<1>9. QED BY <1>6, <1>7, <1>8 DEF DeskInv

\* What the keyboard's invariant is about.
LEMMA KeyboardIdle ==
  ASSUME KbdInv, UNCHANGED kbdVars
  PROVE  KbdInv'
<1>1. UNCHANGED <<ring, begin, end, size, load, mods, stopped, held, rest, pending, lost, overrun>>
  BY DEF kbdVars
<1>2. KeyboardTypeOK' /\ RingIsPending'
  BY <1>1 DEF KbdInv, KeyboardTypeOK, RingIsPending
<1>3. LoadAgrees'
  BY <1>1 DEF KbdInv, LoadAgrees
<1>4. StreamTells'
  BY <1>1 DEF KbdInv, StreamTells, Coming
<1>5. QED BY <1>1, <1>2, <1>3, <1>4 DEF KbdInv

\* What the windows' invariant is about.
LEMMA DesktopIdle ==
  ASSUME DeskInv, UNCHANGED <<deskVars, mods>>
  PROVE  DeskInv'
BY DEF DeskInv, DeskTypeOK, WindowsPlaced, SuperHeld, deskVars

LEMMA StepKeeps ==
  ASSUME IInv, [Next]_vars
  PROVE  IInv'
<1> USE DEF IInv
<1>1. CASE keyboard
  <2>1. UNCHANGED <<deskVars, mods>>
    BY <1>1 DEF keyboard, KeyInterrupt, Type, handleScanCode
  <2>2. KbdInv'
    BY <1>1, InterruptKeeps DEF keyboard
  <2>3. QED BY <2>1, <2>2, DesktopIdle
<1>2. ASSUME NEW B \in Buttons, mouseint(B)
      PROVE  IInv'
  <2>1. UNCHANGED kbdVars /\ UNCHANGED <<deskVars, mods>>
    BY <1>2 DEF mouseint, kbdVars
  <2>2. QED BY <2>1, KeyboardIdle, DesktopIdle
<1>3. CASE enterKloop \/ keysDone
  <2>1. UNCHANGED kbdVars /\ UNCHANGED <<deskVars, mods>>
    BY <1>3 DEF enterKloop, keysDone, kbdVars
  <2>2. QED BY <2>1, KeyboardIdle, DesktopIdle
<1>4. CASE pollKey
  <2>1. CASE LoadPop /\ UNCHANGED deskVars
    <3>1. UNCHANGED <<deskVars, mods>>
      BY <2>1 DEF LoadPop
    <3>2. QED BY <2>1, <3>1, LoadKeeps, DesktopIdle
  <2>2. CASE StoreFirst /\ UNCHANGED deskVars
    <3>1. UNCHANGED <<deskVars, mods>>
      BY <2>2 DEF StoreFirst
    <3>2. QED BY <2>2, <3>1, FirstKeeps, DesktopIdle
  <2>3. CASE StoreLast /\ handleKey(load.sc, mods')
    BY <2>3, LastKeeps, KeyKeeps
  <2>4. QED BY <1>4, <2>1, <2>2, <2>3 DEF pollKey
<1>5. CASE pollMouse
  <2>1. PICK w \in Window \union {NoWindow} : handleMouse(mouseQueue[1], w)
    BY <1>5 DEF pollMouse
  <2>2. UNCHANGED kbdVars /\ UNCHANGED mods
    BY <1>5 DEF pollMouse, kbdVars
  <2>3. QED BY <2>1, <2>2, MouseKeeps, KeyboardIdle
<1>6. CASE pollLast
  <2>1. PICK w \in Window \union {NoWindow} :
          handleMouse([pressed |-> lastPressed, changed |-> {}], w)
    BY <1>6 DEF pollLast
  <2>2. UNCHANGED kbdVars /\ UNCHANGED mods
    BY <1>6 DEF pollLast, kbdVars
  <2>3. QED BY <2>1, <2>2, MouseKeeps, KeyboardIdle
<1>7. ASSUME NEW n \in Ws, NEW w \in Window, openWindow(n, w)
      PROVE  IInv'
  <2>1. UNCHANGED kbdVars
    BY <1>7 DEF openWindow
  <2>2. QED BY <1>7, <2>1, KeyboardIdle, OpenKeeps
<1>8. ASSUME NEW w \in Window, closeWindow(w)
      PROVE  IInv'
  <2>1. DeskInv' /\ UNCHANGED stopped
    BY <1>8, CloseKeeps
  <2>2. UNCHANGED kbdVars
    BY <1>8, <2>1 DEF closeWindow, kbdVars, queueVars
  <2>3. QED BY <2>1, <2>2, KeyboardIdle
<1>9. CASE UNCHANGED vars
  <2>1. UNCHANGED kbdVars /\ UNCHANGED <<deskVars, mods>>
    BY <1>9 DEF vars, kbdVars
  <2>2. QED BY <2>1, KeyboardIdle, DesktopIdle
<1>10. QED
  BY <1>1, <1>2, <1>3, <1>4, <1>5, <1>6, <1>7, <1>8, <1>9 DEF Next

-----------------------------------------------------------------------------
(* The theorems.                                                             *)

LEMMA InvHolds == Spec => []IInv
<1>1. Init => IInv
  BY KeyboardStarts, DesktopStarts DEF Init, IInv
<1>2. IInv /\ [Next]_vars => IInv'
  BY StepKeeps
<1>3. QED BY <1>1, <1>2, PTL DEF Spec

\* The keyboard's handler and the kernel's pop_front share the queue without a
\* lock (Keyboard.cpp:12, Deque.h): whatever steps of the two alternate, and
\* however many increments of _size are lost, _size is short by just these, and
\* until a byte is written over the ring holds what was sent and not taken, in
\* the order it was sent, and when all is taken the modifiers that Keyboard::poll
\* computed are those that are held.  No byte is written over as long as no
\* increment is lost.
THEOREM KeysArriveInOrder == Spec => []KeysInOrder
<1>1. IInv => KeysInOrder
  <2> SUFFICES ASSUME IInv
               PROVE  KeysInOrder
    OBVIOUS
  <2>1. KeyboardTypeOK /\ RingIsPending
    BY DEF IInv, KbdInv
  <2>2. ASSUME ~overrun, pending = <<>>, rest = <<>>
        PROVE  mods = held
    <3>1. \A m \in Modifiers : Tells(<<>>, m, mods, held)
      BY <2>2 DEF IInv, KbdInv, StreamTells, Coming
    <3>2. \A m \in Modifiers : m \in mods <=> m \in held
      BY <3>1 DEF Tells
    <3>3. QED BY <2>1, <3>2 DEF KeyboardTypeOK
  <2>3. QED BY <2>1, <2>2 DEF KeysInOrder, ModifiersAgree
<1>2. QED BY <1>1, InvHolds, PTL

\* The destructor of a window finds it in the workspace that Window::_ws names
\* (Workspace.cpp:195-203): no window is in two workspaces or twice in one, and
\* the list of a workspace holds no window that was destroyed, for any number of
\* windows, workspaces and events.
THEOREM WindowsStayPlaced == Spec => []WindowsPlaced
<1>1. IInv => WindowsPlaced
  BY DEF IInv, DeskInv
<1>2. QED BY <1>1, InvHolds, PTL

\* An event of the mouse moves or resizes a window only with the Win key held
\* and a button down (Workspace.cpp:72-119), and then a window that exists,
\* although _superState misses the keys typed while another workspace is active
\* and _currentWindow outlives the window it points to.
THEOREM NoDragWithoutWin == Spec => []NoStrayDrag
<1>1. IInv => NoStrayDrag
  <2> SUFFICES ASSUME IInv
               PROVE  NoStrayDrag
    OBVIOUS
  <2>1. ASSUME NEW e, Drags(e)
        PROVE  Held(mods) /\ e.pressed # {} /\ Focused(active) \in alive
    <3>1. /\ superState[active] /\ wins[active] # <<>> /\ active \in Ws
          /\ wins[active] \in Seq(Window) /\ ToSet(wins[active]) \subseteq alive
          /\ IsInjective(wins[active])
      BY <2>1 DEF IInv, DeskInv, DeskTypeOK, WindowsPlaced, Drags
    <3>2. Held(mods)
      BY <3>1 DEF IInv, DeskInv, SuperHeld
    <3>3. Focused(active) \in alive /\ Focused(active) \in Window
      BY <3>1, TailList DEF Focused
    <3>4. e.pressed # {}
      <4>1. SUFFICES ASSUME e.pressed = {}
                     PROVE  FALSE
        OBVIOUS
      <4>2. Grabbed(e) = Normal
        BY <3>1, <4>1 DEF Grabbed, JustPressed
      <4>3. Focused(active) = NoWindow
        BY <2>1, <4>2 DEF Drags, Normal
      <4>4. QED BY <3>3, <4>3, DesktopAssumption
    <3>5. QED BY <3>2, <3>3, <3>4
  <2>2. QED BY <2>1 DEF NoStrayDrag
<1>2. QED BY <1>1, InvHolds, PTL

-----------------------------------------------------------------------------
(* The text and the parser.                                                  *)

Colours == {"default", "palette", "rgb", "junk"}
Formats == [fg : Colours, bg : Colours, underline : BOOLEAN]
Chars == STRING \cup {"~", "space", "bs", "nl"}
Cells == [c : Chars, format : Formats]
Lines == Seq(Seq(Cells))
Stacks == Seq(Int)

Texts == [lines : Lines, x : Nat, y : Nat, format : Formats,
          state : {"NORMAL", "WAITINGOB", "ESCAPE"}, stack : Stacks, ok : BOOLEAN]

\* The cursor is on a line, and an open escape sequence has a parameter.
TextOk(t) ==
  /\ t \in Texts
  /\ t.ok /\ Len(t.lines) \in 1 .. LineNum /\ t.y < Len(t.lines)
  /\ t.state = "ESCAPE" => t.stack # <<>>

\* What changes the lines and the cursor, and nothing else.
Moved(t, u, l, x, y) ==
  /\ u.lines = l /\ u.x = x /\ u.y = y /\ u.format = t.format /\ u.state = t.state
  /\ u.stack = t.stack /\ u.ok = t.ok /\ u \in Texts

LEMMA MovedOk ==
  ASSUME NEW t, TextOk(t), NEW l, NEW x, NEW y, NEW u, Moved(t, u, l, x, y),
         Len(l) \in 1 .. LineNum, y < Len(l)
  PROVE  TextOk(u)
BY DEF Moved, TextOk

LEMMA NewLine ==
  ASSUME NEW t, TextOk(t)
  PROVE  TextOk(Text!newLine(t)) /\ Text!newLine(t).x = 0
<1>1. /\ LineNum \in Nat \ {0} /\ t.lines \in Seq(Seq(Cells)) /\ t.lines # <<>>
      /\ <<>> \in Seq(Cells) /\ Len(t.lines) \in Nat /\ t.y \in Nat
  BY WindowShape DEF Text!TextShape, TextOk, Texts, Lines
<1>2. /\ Append(t.lines, <<>>) \in Lines
      /\ Len(Append(t.lines, <<>>)) = Len(t.lines) + 1
  BY <1>1 DEF Lines
<1>3. /\ Append(Tail(t.lines), <<>>) \in Lines
      /\ Len(Append(Tail(t.lines), <<>>)) = Len(t.lines)
  BY <1>1 DEF Lines
<1>4. CASE t.y + 1 = Len(t.lines) /\ Len(t.lines) = LineNum
  <2> DEFINE l == Append(Tail(t.lines), <<>>)
             u == Text!newLine(t)
  <2>1. u = [t EXCEPT !.x = 0, !.lines = l]
    BY <1>4 DEF Text!newLine
  <2>2. l \in Lines /\ Len(l) \in 1 .. LineNum /\ t.y < Len(l) /\ t \in Texts
    BY <1>1, <1>3 DEF TextOk
  <2> HIDE DEF l, u
  <2>3. Moved(t, u, l, 0, t.y)
    BY <2>1, <2>2 DEF Texts, Moved
  <2> QED BY <2>2, <2>3, MovedOk DEF u, Moved
<1>5. CASE ~(t.y + 1 = Len(t.lines) /\ Len(t.lines) = LineNum)
  <2> DEFINE l == IF t.y + 1 = Len(t.lines) THEN Append(t.lines, <<>>) ELSE t.lines
             u == Text!newLine(t)
  <2>1. u = [t EXCEPT !.x = 0, !.y = t.y + 1, !.lines = l]
    BY <1>5 DEF Text!newLine
  <2>3. l \in Lines /\ Len(l) \in 1 .. LineNum /\ t.y + 1 < Len(l) /\ t.y + 1 \in Nat
        /\ t \in Texts
    BY <1>1, <1>2, <1>5 DEF TextOk, Texts
  <2> HIDE DEF l, u
  <2>2. Moved(t, u, l, 0, t.y + 1)
    BY <2>1, <2>3 DEF Texts, Moved
  <2> QED BY <2>2, <2>3, MovedOk DEF u, Moved
<1> QED BY <1>4, <1>5

\* Line::write of a line makes it new.
Written(line, x, cell, new) ==
  /\ new \in Seq(Cells)
  /\ Len(new) = IF Len(line) <= x THEN x + 1 ELSE Len(line)
  /\ new[x + 1] = cell
  /\ \A i \in 1 .. Len(line) : i # x + 1 => new[i] = line[i]

LEMMA WriteAt ==
  ASSUME NEW line \in Seq(Cells), NEW x \in Nat, NEW cell \in Cells
  PROVE  Written(line, x, cell, Text!writeAt(line, x, cell))
<1> DEFINE n == IF Len(line) <= x THEN x + 1 ELSE Len(line)
<1>1. Text!Space \in Cells
  <2>1. Text!Default \in Formats
    BY DEF Text!Default, Formats, Colours
  <2> QED BY <2>1 DEF Text!Space, Text!Cell, Cells, Chars
<1>2. Len(line) \in Nat /\ n \in Nat /\ x + 1 \in 1 .. n /\ 1 .. Len(line) \subseteq 1 .. n
      /\ \A i \in 1 .. Len(line) : line[i] \in Cells
  OBVIOUS
<1>3. Text!writeAt(line, x, cell) =
        [i \in 1 .. n |-> IF i = x + 1 THEN cell
                          ELSE IF i <= Len(line) THEN line[i] ELSE Text!Space]
  BY DEF Text!writeAt
<1> HIDE DEF n
<1>4. \A i \in 1 .. n : i <= Len(line) => i \in 1 .. Len(line)
  BY <1>2
<1>5. Text!writeAt(line, x, cell) \in [1 .. n -> Cells]
  BY <1>1, <1>2, <1>3, <1>4
<1>6. Text!writeAt(line, x, cell) \in Seq(Cells) /\ Len(Text!writeAt(line, x, cell)) = n
  BY <1>2, <1>5
<1>7. \A i \in 1 .. Len(line) : i \in 1 .. n /\ i <= Len(line)
  BY <1>2
<1> QED BY <1>2, <1>3, <1>6, <1>7 DEF n, Written

\* A character is put at the cursor.
Printed(t, c) == Text!writeAt(t.lines[t.y + 1], t.x, Text!Cell(c, t.format))

LEMMA Put ==
  ASSUME NEW t, TextOk(t), NEW c \in Chars
  PROVE  /\ TextOk(Text!addPrintableChar(t, c))
         /\ Text!addPrintableChar(t, c).lines[t.y + 1] = Printed(t, c)
         /\ Len(Text!addPrintableChar(t, c).lines) = Len(t.lines)
         /\ Text!addPrintableChar(t, c).x = t.x + 1
         /\ Text!addPrintableChar(t, c).y = t.y
         /\ Text!addPrintableChar(t, c).state = t.state
<1>1. /\ t.lines \in Seq(Seq(Cells)) /\ Len(t.lines) \in Nat /\ t.y \in Nat /\ t.x \in Nat
      /\ t.y + 1 \in 1 .. Len(t.lines) /\ t.format \in Formats
      /\ t.lines[t.y + 1] \in Seq(Cells)
  BY DEF TextOk, Texts, Lines
<1>2. Text!Cell(c, t.format) \in Cells
  BY <1>1 DEF Text!Cell, Cells
<1>3. Printed(t, c) \in Seq(Cells)
  BY <1>1, <1>2, WriteAt DEF Printed, Written
<1>4. Text!addPrintableChar(t, c) =
        [t EXCEPT !.lines = [t.lines EXCEPT ![t.y + 1] = Printed(t, c)], !.x = t.x + 1]
  BY <1>1 DEF Text!addPrintableChar, Printed, TextOk
<1>5. /\ [t.lines EXCEPT ![t.y + 1] = Printed(t, c)] \in Lines
      /\ Len([t.lines EXCEPT ![t.y + 1] = Printed(t, c)]) = Len(t.lines)
      /\ [t.lines EXCEPT ![t.y + 1] = Printed(t, c)][t.y + 1] = Printed(t, c)
  BY <1>1, <1>3 DEF Lines
<1>7. Len(t.lines) \in 1 .. LineNum /\ t.y < Len(t.lines) /\ t.x + 1 \in Nat
  BY <1>1 DEF TextOk, Texts
<1> DEFINE l == [t.lines EXCEPT ![t.y + 1] = Printed(t, c)]
           u == Text!addPrintableChar(t, c)
<1>8. /\ u = [t EXCEPT !.lines = l, !.x = t.x + 1] /\ t \in Texts
      /\ l \in Lines /\ Len(l) = Len(t.lines) /\ l[t.y + 1] = Printed(t, c)
  BY <1>4, <1>5 DEF TextOk
<1> HIDE DEF l, u
<1>6. Moved(t, u, l, t.x + 1, t.y)
  BY <1>8, <1>7 DEF Texts, Moved
<1> QED BY <1>1, <1>6, <1>7, <1>8, MovedOk DEF Moved, u

LEMMA Error ==
  ASSUME NEW t, TextOk(t)
  PROVE  TextOk(Text!error(t)) /\ Text!error(t).state = "NORMAL"
<1> DEFINE u == [t EXCEPT !.state = "NORMAL"]
<1>1. TextOk(u) /\ u.state = "NORMAL"
  BY DEF TextOk, Texts
<1> HIDE DEF u
<1> DEFINE v == Text!addPrintableChar(u, "~")
<1>2. TextOk(v) /\ v.state = "NORMAL"
  BY <1>1, Put DEF Chars
<1> HIDE DEF v
<1>3. TextOk(Text!addPrintableChar(v, "~")) /\ Text!addPrintableChar(v, "~").state = "NORMAL"
  BY <1>2, Put DEF Chars
<1>4. Text!error(t) = Text!addPrintableChar(v, "~")
  BY DEF Text!error, u, v
<1> QED BY <1>3, <1>4

\* A tab puts up to four blanks.
LEMMA Tabbed ==
  ASSUME NEW t, TextOk(t), NEW w
  PROVE  TextOk(Text!putNormal(t, "tab", w))
<1> DEFINE p(u) == Text!addPrintableChar(u, "space")
           put(s) == [n \in 0 .. 4 |-> IF n = 0 THEN t ELSE p(s[n - 1])]
           spaces == CHOOSE s : s = put(s)
<1>1. \E s : s = put(s)
  <2> DEFINE s == [n \in 0 .. 4 |-> CASE n = 0 -> t [] n = 1 -> p(t) [] n = 2 -> p(p(t))
                                      [] n = 3 -> p(p(p(t))) [] n = 4 -> p(p(p(p(t))))]
  <2> HIDE DEF p
  <2>1. s = put(s)
    OBVIOUS
  <2> QED BY <2>1
<1>2. spaces = put(spaces)
  BY <1>1
<1>3. Text!putNormal(t, "tab", w) = spaces[4 - (t.x % 4)]
  BY DEF Text!putNormal
<1> HIDE DEF spaces
<1>4. /\ spaces[0] = t /\ spaces[1] = p(spaces[0]) /\ spaces[2] = p(spaces[1])
      /\ spaces[3] = p(spaces[2]) /\ spaces[4] = p(spaces[3])
  <2> HIDE DEF p
  <2> QED BY <1>2
<1>5. \A u : TextOk(u) => TextOk(p(u))
  BY Put DEF Chars
<1>6. \A n \in 0 .. 4 : TextOk(spaces[n])
  <2> HIDE DEF p
  <2>1. TextOk(spaces[0]) /\ TextOk(spaces[1])
    BY <1>4, <1>5
  <2>2. TextOk(spaces[2]) /\ TextOk(spaces[3])
    BY <2>1, <1>4, <1>5
  <2>3. TextOk(spaces[4])
    BY <2>2, <1>4, <1>5
  <2> QED BY <2>1, <2>2, <2>3
<1>7. 4 - (t.x % 4) \in 0 .. 4
  <2>1. t.x \in Nat
    BY DEF TextOk, Texts
  <2> QED BY <2>1
<1> QED BY <1>3, <1>6, <1>7

\* The cursor goes to the left, or to the end of the line above.
LEMMA Backspace ==
  ASSUME NEW t, TextOk(t), NEW w \in Nat \ {0}
  PROVE  /\ TextOk(Text!backspace(t, w))
         /\ t.x > 0 => Moved(t, Text!backspace(t, w), t.lines, t.x - 1, t.y)
<1> DEFINE u == Text!backspace(t, w)
<1>1. /\ t.lines \in Lines /\ t.x \in Nat /\ t.y \in Nat /\ t \in Texts
      /\ Len(t.lines) \in 1 .. LineNum /\ t.y < Len(t.lines)
  BY DEF TextOk, Texts
<1>2. CASE t.x = 0
  <2> DEFINE y == IF t.y > 0 THEN t.y - 1 ELSE t.y
  <2>1. u = [t EXCEPT !.x = w - 1, !.y = y]
    BY <1>2 DEF Text!backspace
  <2>2. y \in Nat /\ y < Len(t.lines) /\ w - 1 \in Nat
    <3>1. LineNum \in Nat
      BY WindowShape DEF Text!TextShape
    <3> QED BY <1>1, <3>1
  <2> HIDE DEF u, y
  <2>3. Moved(t, u, t.lines, w - 1, y)
    BY <1>1, <2>1, <2>2 DEF Texts, Moved
  <2>4. TextOk(u)
    BY <1>1, <2>2, <2>3, MovedOk
  <2> QED BY <1>2, <2>4 DEF u
<1>3. CASE t.x # 0
  <2>1. u = [t EXCEPT !.x = t.x - 1] /\ t.x - 1 \in Nat
    BY <1>1, <1>3 DEF Text!backspace
  <2> HIDE DEF u
  <2>2. Moved(t, u, t.lines, t.x - 1, t.y)
    BY <1>1, <2>1 DEF Texts, Moved
  <2>3. TextOk(u)
    BY <1>1, <2>2, MovedOk
  <2> QED BY <2>2, <2>3 DEF u
<1> QED BY <1>2, <1>3

\* What changes the format only, or the parser.
LEMMA Reformatted ==
  ASSUME NEW t, TextOk(t), NEW u, u \in Texts,
         u.lines = t.lines, u.x = t.x, u.y = t.y, u.ok = t.ok,
         u.state = "ESCAPE" => u.stack # <<>>
  PROVE  TextOk(u)
BY DEF TextOk

LEMMA Commanded ==
  ASSUME NEW f \in Formats, NEW p \in Seq(Int), p # <<>>
  PROVE  Text!commanded(f, p) \in Formats
<1> DEFINE rgb == IF Len(p) = 5 THEN "junk" ELSE "rgb"
<1>1. p[1] \in Int /\ rgb \in Colours
  BY DEF Colours
<1>2. Text!Default \in Formats
  BY DEF Text!Default, Formats, Colours
<1>3. \A c \in Colours : [f EXCEPT !.fg = c] \in Formats /\ [f EXCEPT !.bg = c] \in Formats
  BY DEF Formats
<1>4. /\ [f EXCEPT !.underline = TRUE] \in Formats /\ [f EXCEPT !.underline = FALSE] \in Formats
      /\ [f EXCEPT !.fg = f.bg, !.bg = f.fg] \in Formats
  BY DEF Formats
<1>5. /\ [f EXCEPT !.fg = "palette"] \in Formats /\ [f EXCEPT !.bg = "palette"] \in Formats
      /\ [f EXCEPT !.fg = "default"] \in Formats /\ [f EXCEPT !.bg = "default"] \in Formats
      /\ [f EXCEPT !.fg = rgb] \in Formats /\ [f EXCEPT !.bg = rgb] \in Formats
  BY <1>1, <1>3 DEF Colours
<1>6. CASE p[1] \in {0, 4, 24, 7}
  <2>1. p[1] = 0 => Text!commanded(f, p) = Text!Default
    BY DEF Text!commanded
  <2>2. p[1] = 4 => Text!commanded(f, p) = [f EXCEPT !.underline = TRUE]
    BY DEF Text!commanded
  <2>3. p[1] = 24 => Text!commanded(f, p) = [f EXCEPT !.underline = FALSE]
    BY DEF Text!commanded
  <2>4. p[1] = 7 => Text!commanded(f, p) = [f EXCEPT !.fg = f.bg, !.bg = f.fg]
    BY DEF Text!commanded
  <2> QED BY <1>2, <1>4, <1>6, <2>1, <2>2, <2>3, <2>4
<1>7. CASE p[1] \in 30 .. 37 \/ p[1] \in 40 .. 47
  BY <1>1, <1>5, <1>7 DEF Text!commanded
<1>8. CASE p[1] \in {38, 48, 39, 49}
  BY <1>5, <1>8 DEF Text!commanded
<1>9. CASE p[1] \notin {0, 4, 24, 7, 38, 48, 39, 49} \cup (30 .. 37) \cup (40 .. 47)
  <2>1. Text!commanded(f, p) = f
    BY <1>1, <1>9 DEF Text!commanded
  <2> QED BY <2>1
<1> QED BY <1>6, <1>7, <1>8, <1>9

LEMMA SGROk ==
  ASSUME NEW t, TextOk(t), t.stack # <<>>
  PROVE  TextOk(Text!SGR(t))
<1> DEFINE u == Text!SGR(t)
           f == Text!commanded(t.format, t.stack)
<1>1. t \in Texts /\ f \in Formats
  BY Commanded DEF TextOk, Texts, Stacks
<1>2. u = Text!error(t) \/ u = [t EXCEPT !.format = f]
  BY DEF Text!SGR
<1> HIDE DEF u, f
<1>3. CASE u = [t EXCEPT !.format = f]
  <2>1. /\ u \in Texts /\ u.lines = t.lines /\ u.x = t.x /\ u.y = t.y /\ u.ok = t.ok
        /\ u.stack = t.stack
    BY <1>1, <1>3 DEF Texts
  <2>2. TextOk(u)
    BY <2>1, Reformatted
  <2> QED BY <2>2 DEF u
<1> QED BY <1>2, <1>3, Error DEF u

Controls == {"esc", "nl", "tab", "bs", "cr", "ff", "ctl"}

LEMMA PutNormal ==
  ASSUME NEW t, TextOk(t), NEW c \in Chars, NEW w \in Nat \ {0}
  PROVE  /\ TextOk(Text!putNormal(t, c, w))
         /\ c \notin Controls => Text!putNormal(t, c, w) = Text!addPrintableChar(t, c)
         /\ c = "bs" => Text!putNormal(t, c, w) = Text!backspace(t, w)
<1> DEFINE u == Text!putNormal(t, c, w)
<1>1. t \in Texts /\ t.x \in Nat
  BY DEF TextOk, Texts
<1>2. CASE c = "esc"
  <2>1. u = [t EXCEPT !.state = "WAITINGOB"]
    BY <1>2 DEF Text!putNormal
  <2> HIDE DEF u
  <2>2. /\ u \in Texts /\ u.lines = t.lines /\ u.x = t.x /\ u.y = t.y /\ u.ok = t.ok
        /\ u.state = "WAITINGOB"
    BY <1>1, <2>1 DEF Texts
  <2>3. TextOk(u)
    BY <2>2, Reformatted
  <2> QED BY <1>2, <2>3 DEF u, Controls
<1>3. CASE c = "nl"
  BY <1>3, NewLine DEF Text!putNormal, Controls
<1>4. CASE c = "tab"
  BY <1>4, Tabbed DEF Controls
<1>5. CASE c = "bs"
  BY <1>5, Backspace DEF Text!putNormal, Controls
<1>6. CASE c = "cr"
  <2>1. u = [t EXCEPT !.x = 0]
    BY <1>6 DEF Text!putNormal
  <2> HIDE DEF u
  <2>2. Moved(t, u, t.lines, 0, t.y)
    BY <1>1, <2>1 DEF Moved, Texts
  <2>3. TextOk(u)
    BY <2>2, MovedOk DEF TextOk
  <2> QED BY <1>6, <2>3 DEF u, Controls
<1>7. CASE c = "ff"
  <2> DEFINE v == Text!newLine(t)
  <2>1. u = [v EXCEPT !.x = t.x] /\ TextOk(v)
    BY <1>7, NewLine DEF Text!putNormal
  <2> HIDE DEF u, v
  <2>2. Moved(v, u, v.lines, t.x, v.y)
    BY <1>1, <2>1 DEF Moved, Texts, TextOk
  <2>3. TextOk(u)
    BY <2>1, <2>2, MovedOk DEF TextOk
  <2> QED BY <1>7, <2>3 DEF u, Controls
<1>8. CASE c = "ctl"
  BY <1>8, Error DEF Text!putNormal, Controls
<1>9. CASE c \notin Controls
  <2>1. u = Text!addPrintableChar(t, c)
    BY <1>9 DEF Text!putNormal, Controls
  <2> QED BY <2>1, <1>9, Put DEF Controls
<1> QED BY <1>2, <1>3, <1>4, <1>5, <1>6, <1>7, <1>8, <1>9 DEF Controls

\* putChar keeps the text sound, and does what putNormal does if no sequence is open.
LEMMA PutChar ==
  ASSUME NEW t, TextOk(t), NEW c \in Chars, NEW w \in Nat \ {0}
  PROVE  /\ TextOk(Text!putChar(t, c, w))
         /\ t.state = "NORMAL" => Text!putChar(t, c, w) = Text!putNormal(t, c, w)
<1> DEFINE u == Text!putChar(t, c, w)
<1>1. t \in Texts /\ t.stack \in Seq(Int) /\ t.state \in {"NORMAL", "WAITINGOB", "ESCAPE"}
  BY DEF TextOk, Texts, Stacks
<1>2. CASE t.state = "NORMAL"
  <2>1. u = Text!putNormal(t, c, w)
    BY <1>2 DEF Text!putChar
  <2> QED BY <2>1, <1>2, PutNormal
<1>3. CASE t.state = "WAITINGOB" /\ c = "["
  <2>1. u = [t EXCEPT !.stack = <<0>>, !.state = "ESCAPE"]
    BY <1>3 DEF Text!putChar
  <2>2. <<0>> \in Stacks /\ <<0>> # <<>>
    BY DEF Stacks
  <2> HIDE DEF u
  <2>3. /\ u \in Texts /\ u.lines = t.lines /\ u.x = t.x /\ u.y = t.y /\ u.ok = t.ok
        /\ u.stack # <<>>
    BY <1>1, <2>1, <2>2 DEF Texts
  <2>4. TextOk(u)
    BY <2>3, Reformatted
  <2> QED BY <1>3, <2>4 DEF u
<1>4. CASE t.state = "ESCAPE" /\ c \in Text!ToSet(Text!Digits)
  <2> DEFINE s == Text!addDigit(t.stack, c)
             last == Len(t.stack)
  <2>2. Text!val(c) \in Int
    <3>1. \E i \in 1 .. 10 : Text!Digits[i] = c
      BY <1>4 DEF Text!ToSet, Text!Digits
    <3> QED BY <3>1 DEF Text!val
  <2>3. t.stack # <<>> /\ last \in 1 .. Len(t.stack)
    BY <1>1, <1>4 DEF TextOk
  <2>1. u = [t EXCEPT !.stack = s]
    <3>1. "semicolon" \notin Text!ToSet(Text!Digits) /\ "m" \notin Text!ToSet(Text!Digits)
      BY DEF Text!ToSet, Text!Digits
    <3> QED BY <1>4, <3>1 DEF Text!putChar
  <2>4. s \in Stacks /\ s # <<>>
    BY <1>1, <2>2, <2>3 DEF Stacks, Text!addDigit
  <2> HIDE DEF u, s
  <2>5. /\ u \in Texts /\ u.lines = t.lines /\ u.x = t.x /\ u.y = t.y /\ u.ok = t.ok
        /\ u.stack # <<>>
    BY <1>1, <2>1, <2>4 DEF Texts
  <2>6. TextOk(u)
    BY <2>5, Reformatted
  <2> QED BY <1>4, <2>6 DEF u
<1>5. CASE t.state = "ESCAPE" /\ c = "semicolon"
  <2> DEFINE s == Append(t.stack, 0)
  <2>1. u = [t EXCEPT !.stack = s]
    <3>1. "semicolon" \notin Text!ToSet(Text!Digits)
      BY DEF Text!ToSet, Text!Digits
    <3> QED BY <1>5, <3>1 DEF Text!putChar
  <2>2. s \in Stacks /\ s # <<>>
    BY <1>1 DEF Stacks
  <2> HIDE DEF u, s
  <2>3. /\ u \in Texts /\ u.lines = t.lines /\ u.x = t.x /\ u.y = t.y /\ u.ok = t.ok
        /\ u.stack # <<>>
    BY <1>1, <2>1, <2>2 DEF Texts
  <2>4. TextOk(u)
    BY <2>3, Reformatted
  <2> QED BY <1>5, <2>4 DEF u
<1>6. CASE t.state = "ESCAPE" /\ c = "m"
  <2> DEFINE v == Text!SGR(t)
  <2>1. u = [v EXCEPT !.state = "NORMAL"]
    <3>1. "m" \notin Text!ToSet(Text!Digits)
      BY DEF Text!ToSet, Text!Digits
    <3> QED BY <1>6, <3>1 DEF Text!putChar
  <2>2. TextOk(v)
    BY <1>6, SGROk DEF TextOk
  <2> HIDE DEF u, v
  <2>3. /\ u \in Texts /\ u.lines = v.lines /\ u.x = v.x /\ u.y = v.y /\ u.ok = v.ok
        /\ u.state = "NORMAL"
    BY <2>1, <2>2 DEF Texts, TextOk
  <2>4. TextOk(u)
    BY <2>2, <2>3, Reformatted
  <2> QED BY <1>6, <2>4 DEF u
<1>7. CASE /\ t.state # "NORMAL" /\ ~(t.state = "WAITINGOB" /\ c = "[")
           /\ ~(t.state = "ESCAPE" /\ c \in Text!ToSet(Text!Digits) \cup {"semicolon", "m"})
  <2>1. u = Text!putNormal(Text!error(t), c, w)
    BY <1>1, <1>7 DEF Text!putChar
  <2>2. TextOk(Text!error(t))
    BY Error
  <2> QED BY <1>7, <2>1, <2>2, PutNormal
<1> QED BY <1>1, <1>2, <1>3, <1>4, <1>5, <1>6, <1>7

\* putAll of one character, and of three.
LEMMA PutOne ==
  ASSUME NEW t, NEW c, NEW w
  PROVE  Text!putAll(t, <<c>>, w) = Text!putChar(t, c, w)
<1> DEFINE p(u, n) == Text!putChar(u, <<c>>[n], w)
           put(s) == [n \in 0 .. Len(<<c>>) |-> IF n = 0 THEN t ELSE p(s[n - 1], n)]
           all == CHOOSE s : s = put(s)
<1>1. Text!putAll(t, <<c>>, w) = all[Len(<<c>>)]
  BY DEF Text!putAll
<1>2. Len(<<c>>) = 1
  OBVIOUS
<1>3. \A u : p(u, 1) = Text!putChar(u, c, w)
  OBVIOUS
<1> HIDE DEF p
<1>4. \E s : s = put(s)
  <2> DEFINE s == [n \in 0 .. 1 |-> IF n = 0 THEN t ELSE p(t, n)]
  <2>1. s = put(s)
    BY <1>2
  <2> QED BY <2>1
<1>5. all = put(all)
  BY <1>4
<1> HIDE DEF all
<1>6. all[0] = t /\ all[1] = p(all[0], 1)
  BY <1>2, <1>5
<1> QED BY <1>1, <1>2, <1>3, <1>6

LEMMA PutThree ==
  ASSUME NEW t, NEW a, NEW b, NEW c, NEW w
  PROVE  Text!putAll(t, <<a, b, c>>, w) =
           Text!putChar(Text!putChar(Text!putChar(t, a, w), b, w), c, w)
<1> DEFINE cs == <<a, b, c>>
           p(u, n) == Text!putChar(u, cs[n], w)
           put(s) == [n \in 0 .. Len(cs) |-> IF n = 0 THEN t ELSE p(s[n - 1], n)]
           all == CHOOSE s : s = put(s)
<1>1. Text!putAll(t, cs, w) = all[Len(cs)]
  BY DEF Text!putAll
<1>2. Len(cs) = 3
  OBVIOUS
<1>3. \A u : /\ p(u, 1) = Text!putChar(u, a, w) /\ p(u, 2) = Text!putChar(u, b, w)
             /\ p(u, 3) = Text!putChar(u, c, w)
  OBVIOUS
<1> HIDE DEF p
<1>4. \E s : s = put(s)
  <2> DEFINE s == [n \in 0 .. 3 |-> CASE n = 0 -> t [] n = 1 -> p(t, 1) [] n = 2 -> p(p(t, 1), 2)
                                      [] n = 3 -> p(p(p(t, 1), 2), 3)]
  <2> HIDE DEF cs
  <2>1. s = put(s)
    BY <1>2
  <2> QED BY <2>1
<1>5. all = put(all)
  BY <1>4
<1> HIDE DEF all, cs
<1>6. all[0] = t /\ all[1] = p(all[0], 1) /\ all[2] = p(all[1], 2) /\ all[3] = p(all[2], 3)
  BY <1>2, <1>5
<1> QED BY <1>1, <1>2, <1>3, <1>6 DEF cs

-----------------------------------------------------------------------------
(* The echo of the line that is being typed.                                 *)

\* The characters of buf stand in the line of the cursor, from column f to the cursor,
\* and behind it there is nothing.
EchoAt(t, buf, f) ==
  LET line == t.lines[t.y + 1] IN
  f # Text!None =>
    /\ f \in Nat /\ t.state = "NORMAL" /\ t.x <= Len(line) /\ t.x = f + Len(buf)
    /\ \A i \in 1 .. Len(buf) : line[f + i].c = buf[i]
    /\ \A i \in (t.x + 1) .. Len(line) : line[i].c = "space"

LEMMA LineOf ==
  ASSUME NEW t, TextOk(t)
  PROVE  t.lines[t.y + 1] \in Seq(Cells) /\ t.x \in Nat /\ Len(t.lines[t.y + 1]) \in Nat
<1>1. /\ t.lines \in Seq(Seq(Cells)) /\ t.y + 1 \in 1 .. Len(t.lines) /\ t.x \in Nat
  BY DEF TextOk, Texts, Lines
<1> QED BY <1>1

LEMMA Begins ==
  ASSUME NEW t, TextOk(t)
  PROVE  EchoAt(t, <<>>, Text!Begin(t))
BY LineOf DEF EchoAt, Text!Begin, Text!None

\* A key is inserted at the cursor.
LEMMA Inserted ==
  ASSUME NEW t, TextOk(t), NEW buf \in Seq(STRING), NEW f, EchoAt(t, buf, f),
         NEW k \in STRING, k \notin Controls, NEW w \in Nat \ {0}
  PROVE  EchoAt(Text!putChar(t, k, w), Append(buf, k), f)
<1> SUFFICES ASSUME f # Text!None
             PROVE  EchoAt(Text!putChar(t, k, w), Append(buf, k), f)
  BY DEF EchoAt
<1> DEFINE line == t.lines[t.y + 1]
           u == Text!putChar(t, k, w)
           new == Printed(t, k)
           b == Append(buf, k)
           cell == Text!Cell(k, t.format)
<1>1. /\ f \in Nat /\ t.state = "NORMAL" /\ t.x <= Len(line) /\ t.x = f + Len(buf)
      /\ \A i \in 1 .. Len(buf) : line[f + i].c = buf[i]
      /\ \A i \in (t.x + 1) .. Len(line) : line[i].c = "space"
  BY DEF EchoAt
<1>2. line \in Seq(Cells) /\ t.x \in Nat /\ Len(line) \in Nat /\ Len(buf) \in Nat
  BY LineOf
<1>3. u = Text!addPrintableChar(t, k)
  BY <1>1, PutChar, PutNormal DEF Chars
<1>4. u.lines[u.y + 1] = new /\ u.x = t.x + 1 /\ u.state = "NORMAL"
  BY <1>1, <1>3, Put DEF Chars
<1>5. cell \in Cells /\ cell.c = k
  BY DEF Text!Cell, Cells, Chars, TextOk, Texts
<1>6. /\ Len(new) = IF Len(line) <= t.x THEN t.x + 1 ELSE Len(line)
      /\ new[t.x + 1] = cell
      /\ \A i \in 1 .. Len(line) : i # t.x + 1 => new[i] = line[i]
  <2>1. new = Text!writeAt(line, t.x, cell)
    BY DEF Printed
  <2> HIDE DEF line, cell, new
  <2>2. Written(line, t.x, cell, new)
    BY <2>1, <1>2, <1>5, WriteAt
  <2> QED BY <2>2 DEF Written
<1>7. /\ Len(b) = Len(buf) + 1 /\ b[Len(buf) + 1] = k
      /\ \A i \in 1 .. Len(buf) : b[i] = buf[i]
  BY <1>2
<1> HIDE DEF line, u, new, b, cell
<1>8. \A i \in 1 .. Len(b) : new[f + i].c = b[i]
  <2> TAKE i \in 1 .. Len(b)
  <2>1. CASE i = Len(buf) + 1
    BY <1>1, <1>2, <1>5, <1>6, <1>7, <2>1
  <2>2. CASE i # Len(buf) + 1
    <3>1. i \in 1 .. Len(buf) /\ f + i \in 1 .. Len(line) /\ f + i # t.x + 1
      BY <1>1, <1>2, <1>7, <2>2
    <3> QED BY <1>1, <1>6, <1>7, <3>1
  <2> QED BY <2>1, <2>2
<1>9. \A i \in (t.x + 2) .. Len(new) : new[i].c = "space"
  <2> TAKE i \in (t.x + 2) .. Len(new)
  <2>1. i \in (t.x + 1) .. Len(line) /\ i \in 1 .. Len(line) /\ i # t.x + 1
    <3>1. CASE Len(line) <= t.x
      BY <1>2, <1>6, <3>1
    <3>2. CASE ~(Len(line) <= t.x)
      BY <1>2, <1>6, <3>2
    <3> QED BY <3>1, <3>2
  <2> QED BY <1>1, <1>6, <2>1
<1>10. u.x <= Len(new) /\ u.x = f + Len(b) /\ u.x + 1 = t.x + 2
  BY <1>1, <1>2, <1>4, <1>6, <1>7
<1> QED BY <1>1, <1>4, <1>8, <1>9, <1>10 DEF EchoAt, u, b

\* A backspace takes back the last key: one cell to the left, a blank, and again.
Erased(t, w) ==
  Text!putChar(Text!putChar(Text!putChar(t, "bs", w), "space", w), "bs", w)

LEMMA ErasedOk ==
  ASSUME NEW t, TextOk(t), NEW w \in Nat \ {0}
  PROVE  TextOk(Erased(t, w))
BY PutChar DEF Erased, Chars

LEMMA EchoErased ==
  ASSUME NEW t, TextOk(t), NEW buf \in Seq(STRING), buf # <<>>, NEW f, EchoAt(t, buf, f),
         NEW w \in Nat \ {0}
  PROVE  EchoAt(Erased(t, w), Text!Front(buf), f)
<1> SUFFICES ASSUME f # Text!None
             PROVE  EchoAt(Erased(t, w), Text!Front(buf), f)
  BY DEF EchoAt
<1> DEFINE line == t.lines[t.y + 1]
           u == Text!putChar(t, "bs", w)
           v == Text!putChar(u, "space", w)
           z == Text!putChar(v, "bs", w)
           new == Printed(u, "space")
           b == Text!Front(buf)
           cell == Text!Cell("space", u.format)
<1>1. /\ f \in Nat /\ t.state = "NORMAL" /\ t.x <= Len(line) /\ t.x = f + Len(buf)
      /\ \A i \in 1 .. Len(buf) : line[f + i].c = buf[i]
      /\ \A i \in (t.x + 1) .. Len(line) : line[i].c = "space"
  BY DEF EchoAt
<1>2. /\ line \in Seq(Cells) /\ t.x \in Nat /\ Len(line) \in Nat /\ Len(buf) \in Nat
      /\ Len(buf) > 0 /\ t.x > 0
  <2>1. Len(buf) \in Nat /\ Len(buf) > 0
    OBVIOUS
  <2> QED BY <1>1, <2>1, LineOf
<1>3. u = Text!backspace(t, w) /\ TextOk(u)
  BY <1>1, PutChar, PutNormal DEF Chars
<1>4. u.lines = t.lines /\ u.x = t.x - 1 /\ u.y = t.y /\ u.state = "NORMAL" /\ u.x \in Nat
  BY <1>1, <1>2, <1>3, Backspace, SMTT(30) DEF Moved
<1>5. v = Text!addPrintableChar(u, "space") /\ TextOk(v)
  BY <1>3, <1>4, PutChar, PutNormal DEF Chars, Controls
<1>6. v.lines[v.y + 1] = new /\ v.x = t.x /\ v.state = "NORMAL"
  BY <1>2, <1>3, <1>4, <1>5, Put, SMTT(30) DEF Chars
<1>7. z = Text!backspace(v, w)
  BY <1>5, <1>6, PutChar, PutNormal DEF Chars
<1>8. z.lines[z.y + 1] = new /\ z.x = t.x - 1 /\ z.state = "NORMAL"
  BY <1>2, <1>5, <1>6, <1>7, Backspace, SMTT(30) DEF Moved
<1>9. cell \in Cells /\ cell.c = "space"
  BY <1>3 DEF Text!Cell, Cells, Chars, TextOk, Texts
<1>10. new = Text!writeAt(line, u.x, cell)
  BY <1>4 DEF Printed
<1>11. /\ Len(new) = Len(line) /\ new[t.x] = cell
       /\ \A i \in 1 .. Len(line) : i # t.x => new[i] = line[i]
  <2> HIDE DEF line, cell, u, new
  <2>1. u.x + 1 = t.x
    BY <1>2, <1>4
  <2>2. ~(Len(line) <= u.x)
    BY <1>1, <1>2, <1>4
  <2>3. Written(line, u.x, cell, new)
    BY <1>2, <1>4, <1>9, <1>10, WriteAt
  <2> QED BY <2>1, <2>2, <2>3 DEF Written
<1>12. Len(b) = Len(buf) - 1 /\ \A i \in 1 .. Len(buf) - 1 : b[i] = buf[i]
  <2>1. b = SubSeq(buf, 1, Len(buf) - 1)
    BY DEF Text!Front
  <2>2. Len(buf) - 1 \in 0 .. Len(buf)
    BY <1>2
  <2> DEFINE n == Len(buf) - 1
  <2>3. \A i \in 1 .. n : buf[i] \in STRING
    BY <1>2
  <2>4. 1 \in Int /\ n \in Int
    BY <1>2
  <2> HIDE DEF n
  <2>5. /\ Len(SubSeq(buf, 1, n)) = IF 1 <= n THEN n - 1 + 1 ELSE 0
        /\ \A i \in 1 .. n - 1 + 1 : SubSeq(buf, 1, n)[i] = buf[1 + i - 1]
    BY <2>3, <2>4, SubSeqProperties
  <2>6. n - 1 + 1 = n /\ \A i \in 1 .. n : 1 + i - 1 = i
    BY <2>4
  <2>7. (IF 1 <= n THEN n - 1 + 1 ELSE 0) = n
    BY <1>2, <2>6 DEF n
  <2> HIDE DEF b
  <2>8. b = SubSeq(buf, 1, n)
    BY <2>1 DEF n
  <2>9. Len(b) = n
    BY <2>5, <2>7, <2>8
  <2>10. \A i \in 1 .. n : b[i] = buf[i]
    BY <2>5, <2>6, <2>8
  <2> QED BY <2>9, <2>10 DEF n
<1> HIDE DEF line, u, v, z, new, b, cell
<1>13. \A i \in 1 .. Len(b) : new[f + i].c = b[i]
  <2> TAKE i \in 1 .. Len(b)
  <2>1. /\ i \in 1 .. Len(buf) /\ i \in 1 .. Len(buf) - 1
        /\ f + i \in 1 .. Len(line) /\ f + i # t.x
    BY <1>1, <1>2, <1>12
  <2> QED BY <1>1, <1>11, <1>12, <2>1
<1>14. \A i \in t.x .. Len(new) : new[i].c = "space"
  <2> TAKE i \in t.x .. Len(new)
  <2>1. CASE i = t.x
    BY <1>9, <1>11, <2>1
  <2>2. CASE i # t.x
    <3>1. i \in (t.x + 1) .. Len(line) /\ i \in 1 .. Len(line)
      BY <1>2, <1>11, <2>2
    <3> QED BY <1>1, <1>11, <2>2, <3>1
  <2> QED BY <2>1, <2>2
<1>15. z.x <= Len(new) /\ z.x = f + Len(b) /\ z.x + 1 = t.x
  BY <1>1, <1>2, <1>8, <1>11, <1>12
<1>16. EchoAt(z, b, f)
  BY <1>1, <1>8, <1>13, <1>14, <1>15 DEF EchoAt
<1> QED BY <1>16 DEF Erased, u, v, z, b

-----------------------------------------------------------------------------
(* The window.                                                               *)

TextInv ==
  /\ TextOk(text) /\ ~failed /\ pixels \in Sizes
  /\ keyboardBuffer \in Seq(STRING) /\ out \in Seq(STRING)
  /\ EchoAt(text, keyboardBuffer, from)

LEMMA TextStart == Text!Init => TextInv
<1> SUFFICES ASSUME Text!Init PROVE TextInv
  OBVIOUS
<1> DEFINE b == Text!Blank
<1>1. b = [lines |-> <<<<>>>>, x |-> 0, y |-> 0, format |-> Text!Default,
           state |-> "NORMAL", stack |-> <<>>, ok |-> TRUE]
  BY DEF Text!Blank
<1>2. Text!Default \in Formats /\ LineNum \in Nat \ {0}
  BY WindowShape DEF Text!Default, Formats, Colours, Text!TextShape
<1>3. <<<<>>>> \in Lines /\ Len(<<<<>>>>) = 1 /\ <<<<>>>>[1] = <<>> /\ <<>> \in Stacks
  BY DEF Lines, Stacks
<1> HIDE DEF b
<1>4. b \in Texts /\ b.ok /\ b.state = "NORMAL" /\ b.y = 0 /\ b.x = 0 /\ b.lines = <<<<>>>>
  BY <1>1, <1>2, <1>3 DEF Texts
<1>5. TextOk(b)
  BY <1>2, <1>3, <1>4 DEF TextOk
<1>6. text = b /\ keyboardBuffer = <<>> /\ from = 0 /\ pixels \in Sizes /\ out = <<>> /\ ~failed
  BY DEF Text!Init, b
<1>7. EchoAt(b, <<>>, 0)
  BY <1>3, <1>4 DEF EchoAt
<1> QED BY <1>5, <1>6, <1>7 DEF TextInv

\* A key.
LEMMA KeyTyped ==
  ASSUME TextInv, NEW k \in Keys, Text!handleEvent(k)
  PROVE  TextInv'
<1> DEFINE w == Text!width(pixels)
<1>1. /\ w \in Nat \ {0} /\ k \in STRING /\ k \in Chars /\ k \notin {"esc", "ff", "ctl"}
      /\ pixels' = pixels /\ out' = out
      /\ TextOk(text) /\ keyboardBuffer \in Seq(STRING) /\ EchoAt(text, keyboardBuffer, from)
  BY WindowShape DEF Text!TextShape, TextInv, Chars, Text!handleEvent
<1>2. CASE k = "nl" /\ Text!enter
  <2>1. /\ text' = Text!putAll(text, <<"nl">>, w) /\ failed' = ~text'.ok
        /\ keyboardBuffer' = <<>> /\ from' = Text!Begin(text')
    BY <1>2 DEF Text!enter, Text!Show, Text!handleEvent
  <2> HIDE DEF w
  <2>2. TextOk(text')
    BY <1>1, <2>1, PutOne, PutChar DEF Chars
  <2>3. EchoAt(text', <<>>, Text!Begin(text'))
    BY <2>2, Begins
  <2>4. /\ TextOk(text') /\ ~failed' /\ pixels' \in Sizes /\ out' \in Seq(STRING)
        /\ keyboardBuffer' = <<>> /\ EchoAt(text', keyboardBuffer', from')
    BY <1>1, <2>1, <2>2, <2>3 DEF TextInv, TextOk
  <2> QED BY <2>4 DEF TextInv
<1>3. CASE k = "bs" /\ Text!erase
  <2>1. from' = from
    BY <1>3 DEF Text!handleEvent
  <2>2. CASE keyboardBuffer = <<>>
    <3>1. UNCHANGED <<keyboardBuffer, text, failed>>
      BY <1>3, <2>2 DEF Text!erase
    <3> QED BY <1>1, <2>1, <3>1 DEF TextInv
  <2>3. CASE keyboardBuffer # <<>>
    <3>1. /\ text' = Text!putAll(text, <<"bs", "space", "bs">>, w) /\ failed' = ~text'.ok
          /\ keyboardBuffer' = Text!Front(keyboardBuffer)
      BY <1>3, <2>3 DEF Text!erase, Text!Show
    <3> HIDE DEF w
    <3>2. text' = Erased(text, w)
      BY <3>1, PutThree DEF Erased
    <3>3. TextOk(text') /\ EchoAt(text', keyboardBuffer', from')
      BY <1>1, <2>1, <2>3, <3>1, <3>2, ErasedOk, EchoErased
    <3>4. Text!Front(keyboardBuffer) \in Seq(STRING)
      <4> DEFINE n == Len(keyboardBuffer) - 1
      <4>1. n \in Int /\ 1 \in Int /\ \A i \in 1 .. n : keyboardBuffer[i] \in STRING
        BY <1>1
      <4> HIDE DEF n
      <4>2. SubSeq(keyboardBuffer, 1, n) \in Seq(STRING)
        BY <4>1, SubSeqProperties
      <4> QED BY <4>2 DEF n, Text!Front
    <3> QED BY <1>1, <3>1, <3>3, <3>4 DEF TextInv, TextOk
  <2> QED BY <2>2, <2>3
<1>4. CASE k \notin {"nl", "bs"} /\ Text!insert(k)
  <2>1. /\ text' = Text!putAll(text, <<k>>, w) /\ failed' = ~text'.ok
        /\ keyboardBuffer' = Append(keyboardBuffer, k)
        /\ from' = IF k \in {"tab", "cr"} THEN Text!None ELSE from
    BY <1>4 DEF Text!insert, Text!Show, Text!handleEvent
  <2> HIDE DEF w
  <2>2. text' = Text!putChar(text, k, w) /\ TextOk(text')
    BY <1>1, <2>1, PutOne, PutChar
  <2>3. EchoAt(text', Append(keyboardBuffer, k), from')
    <3>1. CASE k \in {"tab", "cr"}
      BY <2>1, <3>1 DEF EchoAt
    <3>2. CASE k \notin {"tab", "cr"}
      <4>1. k \notin Controls /\ from' = from
        BY <1>1, <1>4, <2>1, <3>2 DEF Controls
      <4> QED BY <1>1, <2>2, <4>1, Inserted
    <3> QED BY <3>1, <3>2
  <2>4. Append(keyboardBuffer, k) \in Seq(STRING)
    BY <1>1
  <2> QED BY <1>1, <2>1, <2>2, <2>3, <2>4 DEF TextInv, TextOk
<1> QED BY <1>2, <1>3, <1>4 DEF Text!handleEvent

\* A byte that the program has written.
LEMMA ByteWritten ==
  ASSUME TextInv, Text!write
  PROVE  TextInv'
<1> DEFINE w == Text!width(pixels)
<1>1. /\ w \in Nat \ {0} /\ out \in Seq(STRING) /\ out # <<>>
      /\ TextOk(text) /\ keyboardBuffer \in Seq(STRING)
  BY WindowShape DEF Text!TextShape, TextInv, Text!write
<1>2. /\ text' = Text!putAll(text, <<Head(out)>>, w) /\ failed' = ~text'.ok
      /\ pixels' = pixels /\ keyboardBuffer' = keyboardBuffer /\ out' = Tail(out)
      /\ from' = IF keyboardBuffer = <<>> THEN Text!Begin(text') ELSE Text!None
  BY DEF Text!write, Text!Show
<1> HIDE DEF w
<1>3. Head(out) \in STRING /\ Tail(out) \in Seq(STRING)
  BY <1>1
<1>4. TextOk(text')
  <2>1. text' = Text!putChar(text, Head(out), w)
    BY <1>2, PutOne
  <2>2. Head(out) \in Chars
    BY <1>3 DEF Chars
  <2> QED BY <1>1, <2>1, <2>2, PutChar
<1>5. EchoAt(text', keyboardBuffer', from')
  <2>1. CASE keyboardBuffer = <<>>
    BY <1>2, <1>4, <2>1, Begins
  <2>2. CASE keyboardBuffer # <<>>
    BY <1>2, <2>2 DEF EchoAt
  <2> QED BY <2>1, <2>2
<1> QED BY <1>1, <1>2, <1>3, <1>4, <1>5 DEF TextInv, TextOk

LEMMA TextStep == TextInv /\ [Text!Next]_textVars => TextInv'
<1> SUFFICES ASSUME TextInv, [Text!Next]_textVars PROVE TextInv'
  OBVIOUS
<1>1. ASSUME NEW k \in Keys, Text!handleEvent(k) PROVE TextInv'
  BY <1>1, KeyTyped
<1>2. ASSUME NEW s \in Scripts, Text!startWrite(s) PROVE TextInv'
  <2>1. out' \in Seq(STRING) /\ UNCHANGED <<text, pixels, keyboardBuffer, failed, from>>
    BY <1>2, WindowShape DEF Text!startWrite, Text!TextShape
  <2> QED BY <2>1 DEF TextInv
<1>3. CASE Text!write
  BY <1>3, ByteWritten
<1>4. ASSUME NEW r \in Reader, Text!sysread(r) \/ Text!check(r) PROVE TextInv'
  <2>1. UNCHANGED <<text, pixels, keyboardBuffer, out, failed, from>>
    BY <1>4 DEF Text!sysread, Text!check, Text!read
  <2> QED BY <2>1 DEF TextInv
<1>5. ASSUME NEW s \in Sizes, Text!setSize(s) PROVE TextInv'
  <2>1. pixels' \in Sizes /\ UNCHANGED <<text, keyboardBuffer, out, failed, from>>
    BY <1>5 DEF Text!setSize
  <2> QED BY <2>1 DEF TextInv
<1>6. CASE UNCHANGED textVars
  BY <1>6 DEF TextInv, textVars
<1> QED BY <1>1, <1>2, <1>3, <1>4, <1>5, <1>6 DEF Text!Next

LEMMA TextAlways == MCSpec => []TextInv
<1>1. MCInit => TextInv
  BY TextStart DEF MCInit
<1>2. [MCNext]_<<vars, textVars, machine>> => [Text!Next]_textVars
  BY DEF MCNext
<1> QED BY <1>1, <1>2, TextStep, PTL DEF MCSpec

\* Whatever is written and typed, in a window with room for a character and of any number
\* of lines: no assertion fails, the cursor stays on a line, and an open escape sequence
\* has a parameter to put digits in (putChar).
THEOREM TextStaysSound == MCSpec => []TextSound
<1>1. TextInv => TextSound
  <2> SUFFICES ASSUME TextInv PROVE TextSound
    OBVIOUS
  <2>1. TextOk(text) /\ ~failed /\ text.x \in Nat /\ text.y \in Nat
    BY DEF TextInv, TextOk, Texts
  <2>2. Len(text.lines) \in Nat
    BY <2>1, WindowShape DEF TextOk, Text!TextShape
  <2> QED BY <2>1, <2>2 DEF TextSound, Text!TextSound, TextOk
<1> QED BY <1>1, TextAlways, PTL

\* The line that is being typed is what the screen shows before the cursor, however it is
\* edited, the window is resized and programs write between its lines (handleEvent).
THEOREM EchoStaysShown == MCSpec => []EchoShown
<1>1. TextInv => EchoShown
  BY DEF TextInv, EchoAt, EchoShown, Text!EchoShown
<1> QED BY <1>1, TextAlways, PTL

-----------------------------------------------------------------------------
(* The lines that are typed.                                                 *)

\* What the keys give.
Symbols == Keys \cup {"bs", "nl"}

\* Of the keys i to j of s, the backspaces and the others.
BackspacesOf(s, i, j) == {n \in i .. j : s[n] = "bs"}
OthersOf(s, i, j) == {n \in i .. j : s[n] # "bs"}

\* The keys of s whose characters are still there, those of the line that is still edited,
\* and those behind the key i or not behind it.
KeptOf(s) ==
  {i \in 1 .. Len(s) :
     /\ s[i] # "bs"
     /\ \A j \in (i + 1) .. Len(s) :
          (\A n \in i .. j : s[n] # "nl") =>
             Cardinality(BackspacesOf(s, i + 1, j)) <= Cardinality(OthersOf(s, i + 1, j))}
Editing(s) == {i \in KeptOf(s) : \A n \in i .. Len(s) : s[n] # "nl"}
Behind(s, i) == {j \in KeptOf(s) : j > i}
UpTo(s, i) == {j \in KeptOf(s) : j <= i}

\* The keys behind one of the line that is edited balance, but for the characters kept.
Balanced(s) ==
  \A i \in Editing(s) :
     Cardinality(OthersOf(s, i + 1, Len(s)))
       = Cardinality(BackspacesOf(s, i + 1, Len(s))) + Cardinality(Behind(s, i))

\* all is what was typed, and the last m characters can be taken back.
TypedIs(s, all, m) ==
  /\ Balanced(s) /\ m = Cardinality(Editing(s))
  /\ Len(all) = Cardinality(KeptOf(s))
  /\ \A i \in KeptOf(s) : all[Cardinality(UpTo(s, i))] = s[i]

\* These sets are finite.
LEMMA KeysCounted ==
  ASSUME NEW s \in Seq(Symbols)
  PROVE  /\ \A i, j \in Nat : /\ IsFiniteSet(BackspacesOf(s, i, j)) /\ IsFiniteSet(OthersOf(s, i, j))
                              /\ Cardinality(BackspacesOf(s, i, j)) \in Nat
                              /\ Cardinality(OthersOf(s, i, j)) \in Nat
         /\ IsFiniteSet(KeptOf(s)) /\ IsFiniteSet(Editing(s))
         /\ Cardinality(KeptOf(s)) \in Nat /\ Cardinality(Editing(s)) \in Nat
         /\ \A i : /\ IsFiniteSet(Behind(s, i)) /\ IsFiniteSet(UpTo(s, i))
                   /\ Cardinality(Behind(s, i)) \in Nat
                   /\ Cardinality(UpTo(s, i)) \in Nat
<1>1. ASSUME NEW i \in Nat, NEW j \in Nat
      PROVE  /\ IsFiniteSet(BackspacesOf(s, i, j)) /\ IsFiniteSet(OthersOf(s, i, j))
             /\ Cardinality(BackspacesOf(s, i, j)) \in Nat
             /\ Cardinality(OthersOf(s, i, j)) \in Nat
  <2>1. IsFiniteSet(i .. j)
    BY FS_Interval
  <2>2. BackspacesOf(s, i, j) \in SUBSET (i .. j) /\ OthersOf(s, i, j) \in SUBSET (i .. j)
    BY DEF BackspacesOf, OthersOf
  <2> QED BY <2>1, <2>2, FS_Subset, FS_CardinalityType
<1>2. IsFiniteSet(KeptOf(s))
  <2>1. IsFiniteSet(1 .. Len(s)) /\ KeptOf(s) \in SUBSET (1 .. Len(s))
    BY FS_Interval DEF KeptOf
  <2> QED BY <2>1, FS_Subset
<1>3. Editing(s) \in SUBSET KeptOf(s)
  BY DEF Editing
<1>4. \A i : Behind(s, i) \in SUBSET KeptOf(s) /\ UpTo(s, i) \in SUBSET KeptOf(s)
  BY DEF Behind, UpTo
<1>5. \A T \in SUBSET KeptOf(s) : IsFiniteSet(T) /\ Cardinality(T) \in Nat
  BY <1>2, FS_Subset, FS_CardinalityType
<1> QED BY <1>1, <1>2, <1>3, <1>4, <1>5

\* A sequence with one element more.
LEMMA Appended ==
  ASSUME NEW S, NEW s \in Seq(S), NEW k \in S
  PROVE  /\ Append(s, k) \in Seq(S) /\ Len(Append(s, k)) = Len(s) + 1 /\ Len(s) \in Nat
         /\ Append(s, k)[Len(s) + 1] = k /\ \A n \in 1 .. Len(s) : Append(s, k)[n] = s[n]
<1>1. Append(s, k) \in Seq(S) /\ Len(Append(s, k)) = Len(s) + 1 /\ Len(s) \in Nat
  OBVIOUS
<1>2. Append(s, k)[Len(s) + 1] = k
  OBVIOUS
<1>3. \A n \in 1 .. Len(s) : Append(s, k)[n] = s[n]
  OBVIOUS
<1> QED BY <1>1, <1>2, <1>3

\* A key more.
LEMMA KeyMore ==
  ASSUME NEW s \in Seq(Symbols), NEW k \in Symbols, NEW t, t = Append(s, k), NEW N, N = Len(s) + 1
  PROVE  /\ t \in Seq(Symbols) /\ Len(t) = N /\ t[N] = k /\ N \in Nat \ {0} /\ Len(s) \in Nat
         /\ \A n \in 1 .. Len(s) : t[n] = s[n]
<1>1. /\ Append(s, k) \in Seq(Symbols) /\ Len(Append(s, k)) = Len(s) + 1 /\ Len(s) \in Nat
      /\ Append(s, k)[Len(s) + 1] = k /\ \A n \in 1 .. Len(s) : Append(s, k)[n] = s[n]
  BY Appended
<1> QED BY <1>1

\* What is counted before it.
LEMMA CountedBefore ==
  ASSUME NEW s \in Seq(Symbols), NEW k \in Symbols, NEW i \in 1 .. Len(s) + 1, NEW j \in 0 .. Len(s)
  PROVE  /\ BackspacesOf(Append(s, k), i, j) = BackspacesOf(s, i, j)
         /\ OthersOf(Append(s, k), i, j) = OthersOf(s, i, j)
<1> DEFINE t == Append(s, k)
<1>1. Len(s) \in Nat /\ \A n \in 1 .. Len(s) : t[n] = s[n]
  BY KeyMore
<1> HIDE DEF t
<1>2. i \in Int /\ i >= 1 /\ j \in Int /\ j <= Len(s)
  BY <1>1
<1>3. \A n \in i .. j : n \in 1 .. Len(s)
  BY <1>1, <1>2
<1>4. \A n \in i .. j : t[n] = s[n]
  BY <1>1, <1>3
<1>5. BackspacesOf(t, i, j) = BackspacesOf(s, i, j) /\ OthersOf(t, i, j) = OthersOf(s, i, j)
  BY <1>4 DEF BackspacesOf, OthersOf
<1> QED BY <1>5 DEF t

\* What is counted up to it.
LEMMA CountedAll ==
  ASSUME NEW s \in Seq(Symbols), NEW k \in Symbols, NEW i \in 1 .. Len(s) + 1
  PROVE  LET t == Append(s, k)
             N == Len(s) + 1
             B == Cardinality(BackspacesOf(s, i, Len(s)))
             O == Cardinality(OthersOf(s, i, Len(s)))
         IN  /\ B \in Nat /\ O \in Nat
             /\ Cardinality(BackspacesOf(t, i, N)) = IF k = "bs" THEN B + 1 ELSE B
             /\ Cardinality(OthersOf(t, i, N)) = IF k = "bs" THEN O ELSE O + 1
<1> DEFINE t == Append(s, k)
           N == Len(s) + 1
           B == BackspacesOf(s, i, Len(s))
           O == OthersOf(s, i, Len(s))
<1>1. Len(s) \in Nat /\ N \in Nat /\ t[N] = k
  BY KeyMore
<1>2. BackspacesOf(t, i, Len(s)) = B /\ OthersOf(t, i, Len(s)) = O
  <2>1. Len(s) \in 0 .. Len(s)
    BY <1>1
  <2> QED BY <2>1, CountedBefore
<1>3. \A n : n \in i .. N <=> n \in i .. Len(s) \/ n = N
  BY <1>1
<1>4. N \notin i .. Len(s)
  BY <1>1
<1>5. i \in Nat
  BY <1>1
<1> HIDE DEF t, N
<1>6. BackspacesOf(t, i, N) = IF k = "bs" THEN B \cup {N} ELSE B
  BY <1>1, <1>2, <1>3 DEF BackspacesOf
<1>7. OthersOf(t, i, N) = IF k = "bs" THEN O ELSE O \cup {N}
  BY <1>1, <1>2, <1>3 DEF OthersOf
<1>8. N \notin B /\ N \notin O
  BY <1>4 DEF BackspacesOf, OthersOf
<1>9. IsFiniteSet(B) /\ IsFiniteSet(O) /\ Cardinality(B) \in Nat /\ Cardinality(O) \in Nat
  BY <1>1, <1>5, KeysCounted
<1> HIDE DEF B, O
<1>10. Cardinality(B \cup {N}) = Cardinality(B) + 1 /\ Cardinality(O \cup {N}) = Cardinality(O) + 1
  BY <1>8, <1>9, FS_AddElement
<1>11. /\ Cardinality(BackspacesOf(t, i, N)) = IF k = "bs" THEN Cardinality(B) + 1 ELSE Cardinality(B)
       /\ Cardinality(OthersOf(t, i, N)) = IF k = "bs" THEN Cardinality(O) ELSE Cardinality(O) + 1
  BY <1>6, <1>7, <1>10, Zenon
<1> QED BY <1>9, <1>11, Zenon DEF t, N, B, O

\* A key that is kept has had no fewer others than backspaces behind it.
LEMMA KeptBehind ==
  ASSUME NEW s \in Seq(Symbols), NEW i \in KeptOf(s), \A n \in i .. Len(s) : s[n] # "nl"
  PROVE  Cardinality(BackspacesOf(s, i + 1, Len(s))) <= Cardinality(OthersOf(s, i + 1, Len(s)))
<1>1. i \in Nat /\ i >= 1 /\ Len(s) \in Nat /\ i <= Len(s)
  BY LenProperties DEF KeptOf
<1>2. CASE i < Len(s)
  <2>1. Len(s) \in (i + 1) .. Len(s)
    BY <1>1, <1>2
  <2> QED BY <2>1 DEF KeptOf
<1>3. CASE i = Len(s)
  <2>1. (i + 1) .. Len(s) = {}
    BY <1>1, <1>3
  <2>2. BackspacesOf(s, i + 1, Len(s)) = {} /\ OthersOf(s, i + 1, Len(s)) = {}
    BY <2>1 DEF BackspacesOf, OthersOf
  <2>3. Cardinality({}) = 0
    BY FS_EmptySet
  <2>4. /\ Cardinality(BackspacesOf(s, i + 1, Len(s))) = 0
        /\ Cardinality(OthersOf(s, i + 1, Len(s))) = 0
    BY <2>2, <2>3, Zenon
  <2> QED BY <2>4
<1> QED BY <1>1, <1>2, <1>3

\* Nothing comes back.
LEMMA KeptBefore ==
  ASSUME NEW s \in Seq(Symbols), NEW k \in Symbols, NEW t, t = Append(s, k), NEW N, N = Len(s) + 1,
         NEW i \in KeptOf(t), i # N
  PROVE  i \in KeptOf(s)
<1>1. /\ Len(t) = N /\ N \in Nat \ {0} /\ Len(s) \in Nat /\ \A n \in 1 .. Len(s) : t[n] = s[n]
      /\ \A j \in 1 .. N : \A n \in 0 .. Len(s) :
            BackspacesOf(t, j, n) = BackspacesOf(s, j, n) /\ OthersOf(t, j, n) = OthersOf(s, j, n)
  <2>1. /\ Len(t) = N /\ N \in Nat \ {0} /\ Len(s) \in Nat /\ \A n \in 1 .. Len(s) : t[n] = s[n]
        /\ t[N] = k
    BY KeyMore
  <2>2. ASSUME NEW j \in 1 .. N, NEW n \in 0 .. Len(s)
        PROVE  BackspacesOf(t, j, n) = BackspacesOf(s, j, n) /\ OthersOf(t, j, n) = OthersOf(s, j, n)
    BY CountedBefore
  <2> QED BY <2>1, <2>2
<1>2. i \in 1 .. Len(s) /\ t[i] # "bs"
  BY <1>1 DEF KeptOf
<1>3. ASSUME NEW j \in (i + 1) .. Len(s), \A n \in i .. j : s[n] # "nl"
      PROVE  Cardinality(BackspacesOf(s, i + 1, j)) <= Cardinality(OthersOf(s, i + 1, j))
  <2>1. j \in (i + 1) .. Len(t) /\ i + 1 \in 1 .. N /\ j \in 0 .. Len(s)
    BY <1>1, <1>2
  <2>2. \A n \in i .. j : n \in 1 .. Len(s)
    BY <1>1, <1>2
  <2>3. \A n \in i .. j : t[n] # "nl"
    BY <1>1, <1>3, <2>2
  <2>4. Cardinality(BackspacesOf(t, i + 1, j)) <= Cardinality(OthersOf(t, i + 1, j))
    BY <2>1, <2>3 DEF KeptOf
  <2> QED BY <1>1, <2>1, <2>4
<1> QED BY <1>1, <1>2, <1>3 DEF KeptOf

\* A key that stays kept: its line has ended, or the new key does not erase it.
LEMMA KeptAfter ==
  ASSUME NEW s \in Seq(Symbols), NEW k \in Symbols, NEW t, t = Append(s, k), NEW N, N = Len(s) + 1,
         NEW i \in KeptOf(s),
         (\A n \in i .. Len(s) : s[n] # "nl") /\ k # "nl" =>
            Cardinality(BackspacesOf(t, i + 1, N)) <= Cardinality(OthersOf(t, i + 1, N))
  PROVE  i \in KeptOf(t)
<1>1. /\ Len(t) = N /\ N \in Nat \ {0} /\ Len(s) \in Nat /\ \A n \in 1 .. Len(s) : t[n] = s[n]
      /\ t[N] = k
      /\ \A j \in 1 .. N : \A n \in 0 .. Len(s) :
            BackspacesOf(t, j, n) = BackspacesOf(s, j, n) /\ OthersOf(t, j, n) = OthersOf(s, j, n)
  <2>1. /\ Len(t) = N /\ N \in Nat \ {0} /\ Len(s) \in Nat /\ \A n \in 1 .. Len(s) : t[n] = s[n]
        /\ t[N] = k
    BY KeyMore
  <2>2. ASSUME NEW j \in 1 .. N, NEW n \in 0 .. Len(s)
        PROVE  BackspacesOf(t, j, n) = BackspacesOf(s, j, n) /\ OthersOf(t, j, n) = OthersOf(s, j, n)
    BY CountedBefore
  <2> QED BY <2>1, <2>2
<1>2. i \in 1 .. Len(s) /\ s[i] # "bs" /\ i \in 1 .. Len(t) /\ t[i] # "bs" /\ i + 1 \in 1 .. N
  BY <1>1 DEF KeptOf
<1>3. ASSUME NEW j \in (i + 1) .. Len(t), \A n \in i .. j : t[n] # "nl"
      PROVE  Cardinality(BackspacesOf(t, i + 1, j)) <= Cardinality(OthersOf(t, i + 1, j))
  <2>1. CASE j = N
    <3>1. k # "nl"
      BY <1>1, <1>2, <1>3, <2>1
    <3>2. \A n \in i .. Len(s) : n \in i .. j /\ n \in 1 .. Len(s)
      BY <1>1, <1>2, <2>1
    <3>3. \A n \in i .. Len(s) : s[n] # "nl"
      BY <1>1, <1>3, <3>2
    <3> QED BY <2>1, <3>1, <3>3
  <2>2. CASE j # N
    <3>1. j \in (i + 1) .. Len(s) /\ j \in 0 .. Len(s)
      BY <1>1, <1>2, <2>2
    <3>2. \A n \in i .. j : n \in 1 .. Len(s)
      BY <1>1, <1>2, <3>1
    <3>3. \A n \in i .. j : s[n] # "nl"
      BY <1>1, <1>3, <3>2
    <3>4. Cardinality(BackspacesOf(s, i + 1, j)) <= Cardinality(OthersOf(s, i + 1, j))
      BY <3>1, <3>3 DEF KeptOf
    <3> QED BY <1>1, <1>2, <3>1, <3>4
  <2> QED BY <2>1, <2>2
<1> QED BY <1>2, <1>3 DEF KeptOf

\* A character or the end of a line is kept, and erases nothing.
LEMMA KeptMore ==
  ASSUME NEW s \in Seq(Symbols), NEW k \in Symbols, k # "bs", NEW t, t = Append(s, k), NEW N, N = Len(s) + 1
  PROVE  KeptOf(t) = KeptOf(s) \cup {N}
<1>1. /\ Len(t) = N /\ N \in Nat \ {0} /\ Len(s) \in Nat /\ t[N] = k
      /\ \A i \in 1 .. N :
           /\ Cardinality(BackspacesOf(t, i, N)) = Cardinality(BackspacesOf(s, i, Len(s)))
           /\ Cardinality(OthersOf(t, i, N)) = Cardinality(OthersOf(s, i, Len(s))) + 1
           /\ Cardinality(BackspacesOf(s, i, Len(s))) \in Nat
           /\ Cardinality(OthersOf(s, i, Len(s))) \in Nat
  <2>1. /\ Len(t) = N /\ N \in Nat \ {0} /\ Len(s) \in Nat /\ t[N] = k
        /\ \A i \in 1 .. N : i \in Nat
    BY KeyMore
  <2>2. \A i \in 1 .. N :
           /\ Cardinality(BackspacesOf(s, i, Len(s))) \in Nat
           /\ Cardinality(OthersOf(s, i, Len(s))) \in Nat
    BY <2>1, KeysCounted
  <2>3. \A i \in 1 .. N :
           /\ Cardinality(BackspacesOf(t, i, N)) = Cardinality(BackspacesOf(s, i, Len(s)))
           /\ Cardinality(OthersOf(t, i, N)) = Cardinality(OthersOf(s, i, Len(s))) + 1
    BY CountedAll
  <2> QED BY <2>1, <2>2, <2>3
<1>2. ASSUME NEW i \in KeptOf(s) PROVE i \in KeptOf(t)
  <2>1. i + 1 \in 1 .. N
    BY <1>1 DEF KeptOf
  <2>2. (\A n \in i .. Len(s) : s[n] # "nl") =>
            Cardinality(BackspacesOf(t, i + 1, N)) <= Cardinality(OthersOf(t, i + 1, N))
    BY <1>1, <2>1, KeptBehind
  <2> QED BY <2>2, KeptAfter
<1>3. N \in KeptOf(t)
  <2>1. N \in 1 .. Len(t) /\ (N + 1) .. Len(t) = {}
    BY <1>1
  <2> QED BY <1>1, <2>1 DEF KeptOf
<1>4. \A i \in KeptOf(t) : i # N => i \in KeptOf(s)
  BY KeptBefore
<1> QED BY <1>2, <1>3, <1>4

\* The line that is edited has the new character, or ends.
LEMMA EditingMore ==
  ASSUME NEW s \in Seq(Symbols), NEW k \in Symbols, k # "bs", NEW t, t = Append(s, k), NEW N, N = Len(s) + 1
  PROVE  Editing(t) = IF k = "nl" THEN {} ELSE Editing(s) \cup {N}
<1>1. /\ Len(t) = N /\ t[N] = k /\ N \in Nat \ {0} /\ Len(s) \in Nat
      /\ \A n \in 1 .. Len(s) : t[n] = s[n]
  BY KeyMore
<1>2. KeptOf(t) = KeptOf(s) \cup {N} /\ KeptOf(s) \subseteq 1 .. Len(s)
  <2>1. KeptOf(s) \subseteq 1 .. Len(s)
    BY DEF KeptOf
  <2> QED BY <2>1, KeptMore
<1>3. CASE k = "nl"
  <2>1. \A i \in KeptOf(t) : N \in i .. Len(t)
    BY <1>1, <1>2
  <2> QED BY <1>1, <1>3, <2>1 DEF Editing
<1>4. CASE k # "nl"
  <2>1. ASSUME NEW i \in KeptOf(s)
        PROVE  (\A n \in i .. Len(t) : t[n] # "nl") <=> (\A n \in i .. Len(s) : s[n] # "nl")
    <3>1. \A n : n \in i .. Len(t) <=> n \in i .. Len(s) \/ n = N
      BY <1>1, <1>2
    <3>2. \A n \in i .. Len(s) : t[n] = s[n]
      BY <1>1, <1>2
    <3> QED BY <1>1, <1>4, <3>1, <3>2
  <2>2. \A n \in N .. Len(t) : t[n] # "nl"
    BY <1>1, <1>4
  <2> QED BY <1>2, <1>4, <2>1, <2>2 DEF Editing
<1> QED BY <1>3, <1>4

\* A set of numbers that is not empty has a least one.
LEMMA Least ==
  ASSUME NEW T \in SUBSET Nat, T # {}
  PROVE  \E n \in T : \A m \in T : n <= m
<1> DEFINE Upto(n) == 0 .. n
           C == {Upto(n) : n \in T}
<1>1. IsWellFoundedOn(StrictSubsetOrdering(Nat), FiniteSubsetsOf(Nat))
  BY FS_StrictSubsetOrderingWellFounded
<1>2. \A n \in T : Upto(n) \in FiniteSubsetsOf(Nat)
  <2> TAKE n \in T
  <2>1. IsFiniteSet(0 .. n)
    BY FS_Interval
  <2>2. QED BY <2>1 DEF FiniteSubsetsOf
<1>3. \A n \in T, m \in T : m < n => <<Upto(m), Upto(n)>> \in StrictSubsetOrdering(Nat)
  <2> TAKE n \in T, m \in T
  <2>1. m < n => /\ Upto(m) \in SUBSET Nat /\ Upto(n) \in SUBSET Nat
                 /\ Upto(m) \subseteq Upto(n) /\ n \in Upto(n) /\ n \notin Upto(m)
    OBVIOUS
  <2> HIDE DEF Upto
  <2>2. QED BY <2>1 DEF StrictSubsetOrdering
<1> HIDE DEF Upto
<1>4. C # {} /\ C \subseteq FiniteSubsetsOf(Nat)
  BY <1>2
<1> HIDE DEF C
<1>5. \E x \in C : \A y \in C : ~(<<y, x>> \in StrictSubsetOrdering(Nat))
  BY <1>1, <1>4, WFMin
<1>6. PICK n \in T : \A m \in T : ~(<<Upto(m), Upto(n)>> \in StrictSubsetOrdering(Nat))
  BY <1>5 DEF C
<1>7. \A m \in T : ~(m < n)
  BY <1>3, <1>6
<1>8. QED BY <1>7

\* The character that a backspace takes back: the last one kept, if its line is edited.
LEMMA LastKept ==
  ASSUME NEW s \in Seq(Symbols), NEW e \in Editing(s)
  PROVE  \E i \in Editing(s) : Behind(s, i) = {}
<1>1. IsFiniteSet(KeptOf(s)) /\ KeptOf(s) \subseteq 1 .. Len(s) /\ Len(s) \in Nat
  BY KeysCounted, LenProperties DEF KeptOf
<1> DEFINE D == {n \in Nat : \E i \in Editing(s) : i + n = Len(s)}
<1>2. \A i \in Editing(s) : i \in 1 .. Len(s) /\ Len(s) - i \in D
  BY <1>1 DEF Editing
<1>3. D # {} /\ D \in SUBSET Nat
  BY <1>2
<1> HIDE DEF D
<1>4. PICK n \in D : \A m \in D : n <= m
  BY <1>3, Least
<1>5. PICK i \in Editing(s) : i + n = Len(s)
  BY DEF D
<1>6. ASSUME NEW j \in Behind(s, i) PROVE FALSE
  <2>1. j \in KeptOf(s) /\ j > i /\ j \in Nat /\ i \in Nat /\ j \in 1 .. Len(s)
    BY <1>1, <1>2 DEF Behind, Editing
  <2>2. j \in Editing(s)
    BY <1>5, <2>1 DEF Editing
  <2>3. Len(s) - j \in D
    BY <1>2, <2>2
  <2>4. n <= Len(s) - j /\ n \in Nat
    BY <1>3, <1>4, <2>3
  <2> QED BY <1>1, <1>5, <2>1, <2>4
<1> QED BY <1>5, <1>6

\* A character that is typed, or the end of the line.
LEMMA CharTyped ==
  ASSUME NEW s \in Seq(Symbols), NEW all \in Seq(Symbols), NEW m, TypedIs(s, all, m),
         NEW k \in Symbols, k # "bs"
  PROVE  TypedIs(Append(s, k), Append(all, k), IF k = "nl" THEN 0 ELSE m + 1)
<1> DEFINE t == Append(s, k)
           N == Len(s) + 1
           K == KeptOf(s)
<1>0. t = Append(s, k) /\ N = Len(s) + 1 /\ K = KeptOf(s)
  OBVIOUS
<1> HIDE DEF t, N, K
<1>1. /\ t \in Seq(Symbols) /\ Len(t) = N /\ t[N] = k /\ N \in Nat \ {0} /\ Len(s) \in Nat
      /\ N = Len(s) + 1 /\ \A n \in 1 .. Len(s) : t[n] = s[n]
  BY <1>0, KeyMore
<1>2. KeptOf(t) = K \cup {N} /\ Editing(t) = IF k = "nl" THEN {} ELSE Editing(s) \cup {N}
  <2>1. KeptOf(t) = KeptOf(s) \cup {N}
    BY <1>0, KeptMore
  <2>2. Editing(t) = IF k = "nl" THEN {} ELSE Editing(s) \cup {N}
    BY <1>0, EditingMore
  <2> QED BY <1>0, <2>1, <2>2
<1>3. \A i \in 1 .. N :
         /\ Cardinality(BackspacesOf(s, i, Len(s))) \in Nat
         /\ Cardinality(OthersOf(s, i, Len(s))) \in Nat
         /\ Cardinality(BackspacesOf(t, i, N)) = Cardinality(BackspacesOf(s, i, Len(s)))
         /\ Cardinality(OthersOf(t, i, N)) = Cardinality(OthersOf(s, i, Len(s))) + 1
  BY <1>0, CountedAll
<1>4. K \subseteq 1 .. Len(s) /\ Editing(s) \subseteq K /\ N \notin K
  <2>1. K \subseteq 1 .. Len(s) /\ Editing(s) \subseteq K
    BY <1>0 DEF KeptOf, Editing
  <2> QED BY <1>1, <2>1
<1>5. /\ IsFiniteSet(K) /\ IsFiniteSet(Editing(s)) /\ Cardinality(K) \in Nat
      /\ Cardinality(Editing(s)) \in Nat
      /\ \A i : /\ IsFiniteSet(Behind(s, i)) /\ IsFiniteSet(UpTo(s, i))
                /\ Cardinality(Behind(s, i)) \in Nat /\ Cardinality(UpTo(s, i)) \in Nat
  BY <1>0, KeysCounted
<1>6. Cardinality(K \cup {N}) = Cardinality(K) + 1
  BY <1>4, <1>5, FS_AddElement
<1>7. ASSUME NEW i \in Editing(t)
      PROVE  Cardinality(OthersOf(t, i + 1, Len(t)))
                = Cardinality(BackspacesOf(t, i + 1, Len(t))) + Cardinality(Behind(t, i))
  <2>1. k # "nl" /\ i \in Editing(s) \cup {N}
    BY <1>2
  <2>2. CASE i \in Editing(s)
    <3>0. i \in 1 .. Len(s)
      BY <1>4, <2>2
    <3>1. i \in 1 .. Len(s) /\ i < N /\ i + 1 \in 1 .. N
      BY <1>1, <3>0
    <3>2. Behind(t, i) = Behind(s, i) \cup {N}
      BY <1>0, <1>2, <3>1 DEF Behind
    <3>3. N \notin Behind(s, i)
      BY <1>0, <1>4 DEF Behind
    <3>4. Cardinality(Behind(t, i)) = Cardinality(Behind(s, i)) + 1
      BY <1>5, <3>2, <3>3, FS_AddElement
    <3>5. Cardinality(OthersOf(s, i + 1, Len(s)))
             = Cardinality(BackspacesOf(s, i + 1, Len(s))) + Cardinality(Behind(s, i))
      BY <2>2 DEF TypedIs, Balanced
    <3>6. Cardinality(Behind(s, i)) \in Nat
      BY <1>5
    <3>7. /\ Cardinality(BackspacesOf(s, i + 1, Len(s))) \in Nat
          /\ Cardinality(OthersOf(s, i + 1, Len(s))) \in Nat
          /\ Cardinality(BackspacesOf(t, i + 1, N)) = Cardinality(BackspacesOf(s, i + 1, Len(s)))
          /\ Cardinality(OthersOf(t, i + 1, N)) = Cardinality(OthersOf(s, i + 1, Len(s))) + 1
      BY <1>3, <3>1
    <3>8. Len(t) = N
      BY <1>1
    <3> HIDE DEF t
    <3> QED BY <3>4, <3>5, <3>6, <3>7, <3>8
  <2>3. CASE i = N
    <3>1. (N + 1) .. Len(t) = {}
      BY <1>1
    <3>2. OthersOf(t, N + 1, Len(t)) = {} /\ BackspacesOf(t, N + 1, Len(t)) = {}
      BY <3>1 DEF OthersOf, BackspacesOf
    <3>3. Behind(t, N) = {}
      <4>1. \A j \in 1 .. Len(s) : ~ (j > N)
        BY <1>1
      <4>2. ~ (N > N)
        BY <1>1
      <4> QED BY <1>2, <1>4, <4>1, <4>2 DEF Behind
    <3>4. Cardinality({}) = 0
      BY FS_EmptySet
    <3>5. /\ Cardinality(OthersOf(t, i + 1, Len(t))) = 0
          /\ Cardinality(BackspacesOf(t, i + 1, Len(t))) = 0 /\ Cardinality(Behind(t, i)) = 0
      BY <2>3, <3>2, <3>3, <3>4, Zenon
    <3> QED BY <3>5
  <2> QED BY <2>1, <2>2, <2>3
<1>8. Cardinality(Editing(t)) = IF k = "nl" THEN 0 ELSE m + 1
  <2>1. N \notin Editing(s) /\ m = Cardinality(Editing(s))
    BY <1>4 DEF TypedIs
  <2>2. Cardinality(Editing(s) \cup {N}) = Cardinality(Editing(s)) + 1
    BY <1>5, <2>1, FS_AddElement
  <2>3. Cardinality({}) = 0
    BY FS_EmptySet
  <2> QED BY <1>2, <2>1, <2>2, <2>3, Zenon
<1>9. /\ Append(all, k) \in Seq(Symbols) /\ Len(Append(all, k)) = Len(all) + 1
      /\ Append(all, k)[Len(all) + 1] = k /\ \A n \in 1 .. Len(all) : Append(all, k)[n] = all[n]
      /\ Len(all) = Cardinality(K)
  BY <1>0, Appended DEF TypedIs
<1>10. ASSUME NEW i \in KeptOf(t)
       PROVE  Append(all, k)[Cardinality(UpTo(t, i))] = t[i]
  <2>1. CASE i \in K
    <3>1. i \in 1 .. Len(s) /\ i < N
      BY <1>1, <1>4, <2>1
    <3>2. UpTo(t, i) = UpTo(s, i)
      BY <1>0, <1>2, <3>1 DEF UpTo
    <3>3. UpTo(s, i) \in SUBSET K /\ i \in UpTo(s, i)
      BY <1>0, <2>1, <3>1 DEF UpTo
    <3>4. Cardinality(UpTo(s, i)) <= Cardinality(K)
      BY <1>5, <3>3, FS_Subset
    <3>5. Cardinality(UpTo(s, i)) # 0
      BY <1>5, <3>3, FS_EmptySet
    <3>6. Cardinality(UpTo(s, i)) \in 1 .. Len(all)
      BY <1>5, <1>9, <3>4, <3>5
    <3>7. all[Cardinality(UpTo(s, i))] = s[i]
      BY <1>0, <2>1 DEF TypedIs
    <3> QED BY <1>1, <1>9, <3>1, <3>2, <3>6, <3>7
  <2>2. CASE i = N
    <3>1. UpTo(t, N) = K \cup {N}
      <4>1. \A j \in 1 .. Len(s) : j <= N
        BY <1>1
      <4>2. N <= N
        BY <1>1
      <4> QED BY <1>2, <1>4, <4>1, <4>2 DEF UpTo
    <3>2. Cardinality(UpTo(t, i)) = Len(all) + 1
      BY <1>6, <1>9, <2>2, <3>1
    <3> QED BY <1>1, <1>9, <2>2, <3>2
  <2> QED BY <1>2, <2>1, <2>2
<1>11. Len(Append(all, k)) = Cardinality(KeptOf(t))
  BY <1>2, <1>6, <1>9
<1>12. Balanced(t)
  BY <1>7 DEF Balanced
<1>13. TypedIs(t, Append(all, k), IF k = "nl" THEN 0 ELSE m + 1)
  BY <1>8, <1>10, <1>11, <1>12 DEF TypedIs
<1> QED BY <1>0, <1>13

\* A backspace where nothing can be taken back.
LEMMA VainTyped ==
  ASSUME NEW s \in Seq(Symbols), NEW all, TypedIs(s, all, 0)
  PROVE  TypedIs(Append(s, "bs"), all, 0)
<1> DEFINE t == Append(s, "bs")
           N == Len(s) + 1
<1>a. "bs" \in Symbols /\ "bs" # "nl"
  <2>1. "bs" \in Symbols
    BY DEF Symbols
  <2> QED BY <2>1
<1>b. t = Append(s, "bs") /\ N = Len(s) + 1
  OBVIOUS
<1> HIDE DEF t, N
<1>1. /\ t \in Seq(Symbols) /\ Len(t) = N /\ t[N] = "bs" /\ N \in Nat \ {0} /\ Len(s) \in Nat
      /\ N = Len(s) + 1
      /\ \A n \in 1 .. Len(s) : t[n] = s[n]
  BY <1>a, <1>b, KeyMore
<1>2. Editing(s) = {}
  <2>1. IsFiniteSet(Editing(s)) /\ Cardinality(Editing(s)) = 0
    BY KeysCounted DEF TypedIs
  <2> QED BY <2>1, FS_EmptySet
<1>3. ASSUME NEW i \in KeptOf(s) PROVE i \in KeptOf(t)
  <2>1. ~ (\A n \in i .. Len(s) : s[n] # "nl")
    BY <1>2 DEF Editing
  <2> QED BY <1>a, <1>b, <2>1, KeptAfter
<1>4. N \notin KeptOf(t)
  BY <1>1 DEF KeptOf
<1>5. ASSUME NEW i \in KeptOf(t) PROVE i \in KeptOf(s)
  BY <1>a, <1>b, <1>4, KeptBefore
<1>6. KeptOf(t) = KeptOf(s)
  BY <1>3, <1>5
<1>7. KeptOf(s) \subseteq 1 .. Len(s)
  BY DEF KeptOf
<1>8. ASSUME NEW i \in Editing(t) PROVE FALSE
  <2>1. i \in KeptOf(s) /\ \A n \in i .. Len(t) : t[n] # "nl"
    BY <1>6 DEF Editing
  <2>2. \A n \in i .. Len(s) : n \in i .. Len(t) /\ n \in 1 .. Len(s)
    BY <1>1, <1>7, <2>1
  <2>3. i \in Editing(s)
    BY <1>1, <2>1, <2>2 DEF Editing
  <2> QED BY <1>2, <2>3
<1>9. Editing(t) = {} /\ Balanced(t)
  BY <1>8 DEF Balanced
<1>10. Cardinality({}) = 0
  BY FS_EmptySet
<1>11. \A i : UpTo(t, i) = UpTo(s, i)
  BY <1>6 DEF UpTo
<1>12. /\ Len(all) = Cardinality(KeptOf(s))
       /\ \A i \in KeptOf(s) : all[Cardinality(UpTo(s, i))] = s[i]
  BY DEF TypedIs
<1>13. TypedIs(t, all, 0)
  BY <1>1, <1>6, <1>7, <1>9, <1>10, <1>11, <1>12 DEF TypedIs
<1> QED BY <1>b, <1>13

\* A backspace takes back the last character that is kept.
LEMMA KeptLess ==
  ASSUME NEW s \in Seq(Symbols), Balanced(s), NEW e \in Editing(s), Behind(s, e) = {},
         NEW t, t = Append(s, "bs")
  PROVE  /\ KeptOf(t) = KeptOf(s) \ {e} /\ Editing(t) = Editing(s) \ {e}
         /\ \A i \in Editing(s) \ {e} : e \in Behind(s, i)
         /\ \A i \in KeptOf(s) \ {e} : i < e
<1>0. "bs" \in Symbols /\ "bs" # "nl"
  <2>1. "bs" \in Symbols
    BY DEF Symbols
  <2> QED BY <2>1
<1> DEFINE N == Len(s) + 1
<1>a. N = Len(s) + 1
  OBVIOUS
<1> HIDE DEF N
<1>1. /\ t \in Seq(Symbols) /\ Len(t) = N /\ t[N] = "bs" /\ N \in Nat \ {0} /\ Len(s) \in Nat
      /\ \A n \in 1 .. Len(s) : t[n] = s[n]
  BY <1>0, <1>a, KeyMore
<1>2. KeptOf(s) \subseteq 1 .. Len(s) /\ Editing(s) \subseteq KeptOf(s) /\ e \in KeptOf(s)
  BY DEF KeptOf, Editing
<1>3. \A i \in KeptOf(s) \ {e} : i < e
  <2>1. \A i \in KeptOf(s) : ~ (i > e)
    BY DEF Behind
  <2>2. \A i \in KeptOf(s) : i \in Nat
    BY <1>1, <1>2
  <2> QED BY <1>2, <2>1, <2>2
<1>4. \A i \in Editing(s) \ {e} : e \in Behind(s, i)
  <2>1. \A i \in KeptOf(s) : i \in Nat
    BY <1>1, <1>2
  <2>2. \A i \in Editing(s) \ {e} : e > i
    BY <1>2, <1>3, <2>1
  <2> QED BY <1>2, <2>2 DEF Behind
<1>5. ASSUME NEW i \in Editing(s)
      PROVE  /\ Cardinality(OthersOf(t, i + 1, N))
                   = Cardinality(BackspacesOf(s, i + 1, Len(s))) + Cardinality(Behind(s, i))
             /\ Cardinality(BackspacesOf(t, i + 1, N))
                   = Cardinality(BackspacesOf(s, i + 1, Len(s))) + 1
             /\ Cardinality(BackspacesOf(s, i + 1, Len(s))) \in Nat
  <2>1. i \in 1 .. Len(s)
    BY <1>2
  <2>2. i + 1 \in 1 .. Len(s) + 1
    BY <1>1, <2>1
  <2>3. /\ Cardinality(BackspacesOf(s, i + 1, Len(s))) \in Nat
        /\ Cardinality(BackspacesOf(Append(s, "bs"), i + 1, Len(s) + 1))
              = Cardinality(BackspacesOf(s, i + 1, Len(s))) + 1
        /\ Cardinality(OthersOf(Append(s, "bs"), i + 1, Len(s) + 1))
              = Cardinality(OthersOf(s, i + 1, Len(s)))
    BY <1>0, <2>2, CountedAll
  <2>4. Cardinality(OthersOf(s, i + 1, Len(s)))
           = Cardinality(BackspacesOf(s, i + 1, Len(s))) + Cardinality(Behind(s, i))
    BY DEF Balanced
  <2> QED BY <1>a, <2>3, <2>4
<1>6. e \notin KeptOf(t)
  <2>1. SUFFICES ASSUME e \in KeptOf(t) PROVE FALSE
    OBVIOUS
  <2>2. e \in 1 .. Len(s)
    BY <1>2
  <2>3. N \in (e + 1) .. Len(t)
    BY <1>1, <1>a, <2>2
  <2>4. \A n \in e .. N : (n \in 1 .. Len(s) /\ n \in e .. Len(s)) \/ n = N
    BY <1>1, <1>a, <2>2
  <2>5. \A n \in e .. Len(s) : s[n] # "nl"
    BY DEF Editing
  <2>6. \A n \in e .. N : t[n] # "nl"
    BY <1>0, <1>1, <2>4, <2>5
  <2>7. Cardinality(BackspacesOf(t, e + 1, N)) <= Cardinality(OthersOf(t, e + 1, N))
    BY <2>1, <2>3, <2>6 DEF KeptOf
  <2>8. Cardinality(Behind(s, e)) = 0
    BY FS_EmptySet, Zenon
  <2>9. /\ Cardinality(OthersOf(t, e + 1, N))
              = Cardinality(BackspacesOf(s, e + 1, Len(s))) + Cardinality(Behind(s, e))
        /\ Cardinality(BackspacesOf(t, e + 1, N))
              = Cardinality(BackspacesOf(s, e + 1, Len(s))) + 1
        /\ Cardinality(BackspacesOf(s, e + 1, Len(s))) \in Nat
    BY <1>5
  <2> QED BY <2>7, <2>8, <2>9
<1>7. ASSUME NEW i \in KeptOf(s), i # e PROVE i \in KeptOf(t)
  <2>1. ASSUME \A n \in i .. Len(s) : s[n] # "nl"
        PROVE  Cardinality(BackspacesOf(t, i + 1, N)) <= Cardinality(OthersOf(t, i + 1, N))
    <3>1. i \in Editing(s)
      BY <2>1 DEF Editing
    <3>2. IsFiniteSet(Behind(s, i)) /\ Cardinality(Behind(s, i)) \in Nat
      BY KeysCounted
    <3>3. e \in Behind(s, i)
      BY <1>4, <1>7, <3>1
    <3>4. Cardinality(Behind(s, i)) # 0
      BY <3>2, <3>3, FS_EmptySet
    <3> QED BY <1>5, <3>1, <3>2, <3>4
  <2> QED BY <1>0, <1>a, <2>1, KeptAfter
<1>8. N \notin KeptOf(t)
  BY <1>1 DEF KeptOf
<1>9. ASSUME NEW i \in KeptOf(t) PROVE i \in KeptOf(s)
  BY <1>0, <1>a, <1>8, KeptBefore
<1>10. KeptOf(t) = KeptOf(s) \ {e}
  BY <1>6, <1>7, <1>9
<1>11. ASSUME NEW i \in KeptOf(s)
       PROVE  (\A n \in i .. Len(t) : t[n] # "nl") <=> (\A n \in i .. Len(s) : s[n] # "nl")
  <2>1. i \in 1 .. Len(s)
    BY <1>2
  <2>2. \A n : n \in i .. Len(t) <=> n \in i .. Len(s) \/ n = N
    BY <1>1, <1>a, <2>1
  <2>3. \A n \in i .. Len(s) : t[n] = s[n]
    BY <1>1, <2>1
  <2> QED BY <1>0, <1>1, <2>2, <2>3
<1>12. Editing(t) = Editing(s) \ {e}
  BY <1>10, <1>11 DEF Editing
<1> QED BY <1>3, <1>4, <1>10, <1>12

LEMMA BackspaceTyped ==
  ASSUME NEW s \in Seq(Symbols), NEW all \in Seq(Symbols), NEW m, TypedIs(s, all, m), m # 0
  PROVE  TypedIs(Append(s, "bs"), SubSeq(all, 1, Len(all) - 1), m - 1)
<1> DEFINE t == Append(s, "bs")
           N == Len(s) + 1
<1>a. t = Append(s, "bs") /\ N = Len(s) + 1
  OBVIOUS
<1> HIDE DEF t, N
<1>0. "bs" \in Symbols /\ "bs" # "nl"
  <2>1. "bs" \in Symbols
    BY DEF Symbols
  <2> QED BY <2>1
<1>1. /\ t \in Seq(Symbols) /\ Len(t) = N /\ N \in Nat \ {0} /\ Len(s) \in Nat
      /\ \A n \in 1 .. Len(s) : t[n] = s[n]
  BY <1>0, <1>a, KeyMore
<1>2. /\ Balanced(s) /\ m = Cardinality(Editing(s)) /\ Len(all) = Cardinality(KeptOf(s))
      /\ \A i \in KeptOf(s) : all[Cardinality(UpTo(s, i))] = s[i]
  BY DEF TypedIs
<1>3. /\ IsFiniteSet(KeptOf(s)) /\ IsFiniteSet(Editing(s)) /\ Cardinality(KeptOf(s)) \in Nat
      /\ \A i : /\ IsFiniteSet(Behind(s, i)) /\ IsFiniteSet(UpTo(s, i))
                /\ Cardinality(Behind(s, i)) \in Nat /\ Cardinality(UpTo(s, i)) \in Nat
  BY KeysCounted
<1>4. PICK e \in Editing(s) : Behind(s, e) = {}
  <2>1. Editing(s) # {}
    BY <1>2, FS_EmptySet, Zenon
  <2> QED BY <2>1, LastKept
<1>5. /\ KeptOf(t) = KeptOf(s) \ {e} /\ Editing(t) = Editing(s) \ {e}
      /\ \A i \in Editing(s) \ {e} : e \in Behind(s, i)
      /\ \A i \in KeptOf(s) \ {e} : i < e
  BY <1>a, <1>2, <1>4, KeptLess
<1>6. e \in KeptOf(s) /\ KeptOf(s) \subseteq 1 .. Len(s) /\ Editing(s) \subseteq KeptOf(s)
  BY DEF Editing, KeptOf
<1>7. /\ Cardinality(KeptOf(t)) = Cardinality(KeptOf(s)) - 1
      /\ Cardinality(Editing(t)) = Cardinality(Editing(s)) - 1 /\ IsFiniteSet(KeptOf(t))
  <2>1. Cardinality(KeptOf(s) \ {e}) = Cardinality(KeptOf(s)) - 1 /\ IsFiniteSet(KeptOf(s) \ {e})
    BY <1>3, <1>6, FS_RemoveElement
  <2>2. Cardinality(Editing(s) \ {e}) = Cardinality(Editing(s)) - 1
    BY <1>3, <1>4, FS_RemoveElement
  <2> QED BY <1>5, <2>1, <2>2
<1>8. ASSUME NEW i \in Editing(t)
      PROVE  Cardinality(OthersOf(t, i + 1, Len(t)))
                = Cardinality(BackspacesOf(t, i + 1, Len(t))) + Cardinality(Behind(t, i))
  <2>1. i \in Editing(s) /\ i # e /\ e \in Behind(s, i) /\ i \in 1 .. Len(s)
    BY <1>5, <1>6
  <2>2. i + 1 \in 1 .. Len(s) + 1
    BY <1>1, <2>1
  <2>3. /\ Cardinality(BackspacesOf(s, i + 1, Len(s))) \in Nat
        /\ Cardinality(BackspacesOf(t, i + 1, N)) = Cardinality(BackspacesOf(s, i + 1, Len(s))) + 1
        /\ Cardinality(OthersOf(t, i + 1, N)) = Cardinality(OthersOf(s, i + 1, Len(s)))
    BY <1>0, <1>a, <2>2, CountedAll
  <2>4. Cardinality(OthersOf(s, i + 1, Len(s)))
           = Cardinality(BackspacesOf(s, i + 1, Len(s))) + Cardinality(Behind(s, i))
    BY <1>2, <2>1 DEF Balanced
  <2>5. Behind(t, i) = Behind(s, i) \ {e}
    BY <1>5 DEF Behind
  <2>6. Cardinality(Behind(t, i)) = Cardinality(Behind(s, i)) - 1
    <3>1. IsFiniteSet(Behind(s, i))
      BY <1>3
    <3>2. Cardinality(Behind(s, i) \ {e}) = Cardinality(Behind(s, i)) - 1
      BY <2>1, <3>1, FS_RemoveElement
    <3> QED BY <2>5, <3>2
  <2>7. Cardinality(Behind(s, i)) \in Nat /\ Len(t) = N
    BY <1>1, <1>3
  <2> QED BY <2>3, <2>4, <2>6, <2>7
<1>9. Balanced(t)
  BY <1>8 DEF Balanced
<1> DEFINE front == SubSeq(all, 1, Len(all) - 1)
<1>10. Len(all) \in Nat \ {0}
  <2>1. Cardinality(KeptOf(s)) # 0
    BY <1>3, <1>6, FS_EmptySet
  <2> QED BY <1>2, <1>3, <2>1
<1>11. Len(front) = Len(all) - 1 /\ \A n \in 1 .. Len(all) - 1 : front[n] = all[n]
  <2> DEFINE n == Len(all) - 1
  <2>1. 1 \in Int /\ n \in Int /\ n >= 0 /\ \A i \in 1 .. n : all[i] \in Symbols
    BY <1>10
  <2> HIDE DEF n
  <2>2. /\ Len(SubSeq(all, 1, n)) = IF 1 <= n THEN n - 1 + 1 ELSE 0
        /\ \A i \in 1 .. n - 1 + 1 : SubSeq(all, 1, n)[i] = all[1 + i - 1]
    BY <2>1, SubSeqProperties
  <2>3. n - 1 + 1 = n /\ (IF 1 <= n THEN n - 1 + 1 ELSE 0) = n /\ \A i \in 1 .. n : 1 + i - 1 = i
    BY <2>1
  <2>4. Len(SubSeq(all, 1, n)) = n /\ \A i \in 1 .. n : SubSeq(all, 1, n)[i] = all[i]
    BY <2>2, <2>3
  <2> QED BY <2>4 DEF n
<1> HIDE DEF front
<1>12. ASSUME NEW i \in KeptOf(t)
       PROVE  front[Cardinality(UpTo(t, i))] = t[i]
  <2>1. i \in KeptOf(s) /\ i # e /\ i < e /\ i \in 1 .. Len(s) /\ e \in 1 .. Len(s)
    BY <1>5, <1>6
  <2>2. ~ (e <= i) /\ i <= i
    BY <1>1, <2>1
  <2>3. UpTo(t, i) = UpTo(s, i)
    BY <1>5, <2>2 DEF UpTo
  <2>4. UpTo(t, i) \subseteq KeptOf(t) /\ i \in UpTo(t, i)
    BY <2>2 DEF UpTo
  <2>5. IsFiniteSet(UpTo(t, i)) /\ Cardinality(UpTo(t, i)) \in Nat
    BY <1>3, <2>3
  <2>6. Cardinality(UpTo(t, i)) <= Cardinality(KeptOf(t))
    BY <1>7, <2>4, FS_Subset
  <2>7. Cardinality(UpTo(t, i)) # 0
    BY <2>4, <2>5, FS_EmptySet
  <2>8. Cardinality(UpTo(t, i)) \in 1 .. Len(all) - 1
    BY <1>2, <1>7, <1>10, <2>5, <2>6, <2>7
  <2>9. all[Cardinality(UpTo(t, i))] = s[i]
    BY <1>2, <2>1, <2>3
  <2> QED BY <1>1, <1>11, <2>1, <2>8, <2>9
<1>13. Len(front) = Cardinality(KeptOf(t)) /\ m - 1 = Cardinality(Editing(t))
  BY <1>2, <1>7, <1>11
<1>14. TypedIs(t, front, m - 1)
  BY <1>9, <1>12, <1>13 DEF TypedIs
<1> QED BY <1>a, <1>14 DEF front

-----------------------------------------------------------------------------
(* The lines in the window.                                                  *)

\* What was read, may be read and is still edited.
AllOf == got \o inputBuffer \o keyboardBuffer

\* A thread that wants a byte does not sleep on a line.
NoneSleeps ==
  /\ reader \in [Reader -> [state : {"no", "waiting", "woken"}, count : Nat]]
  /\ inputBuffer # <<>> =>
        \A r \in Reader : reader[r].state = "waiting" => reader[r].count = 0

LinesInv ==
  /\ typed \in Seq(Symbols) /\ got \in Seq(Symbols)
  /\ inputBuffer \in Seq(Symbols) /\ keyboardBuffer \in Seq(Symbols)
  /\ TypedIs(typed, AllOf, Len(keyboardBuffer))
  /\ NoneSleeps

LEMMA LinesStart == Text!Init => LinesInv
<1> SUFFICES ASSUME Text!Init PROVE LinesInv
  OBVIOUS
<1>1. /\ typed = <<>> /\ got = <<>> /\ inputBuffer = <<>> /\ keyboardBuffer = <<>>
      /\ reader = [r \in Reader |-> [state |-> "no", count |-> 0]]
  BY DEF Text!Init
<1>2. <<>> \in Seq(Symbols) /\ AllOf = <<>> /\ Len(<<>>) = 0
  BY <1>1 DEF AllOf
<1>3. KeptOf(<<>>) = {} /\ Editing(<<>>) = {}
  BY <1>2 DEF KeptOf, Editing
<1>4. Cardinality({}) = 0
  BY FS_EmptySet
<1>5. TypedIs(<<>>, <<>>, 0)
  BY <1>2, <1>3, <1>4 DEF TypedIs, Balanced
<1>6. NoneSleeps
  BY <1>1 DEF NoneSleeps
<1> QED BY <1>1, <1>2, <1>5, <1>6, Zenon DEF LinesInv

\* Two of the facts about concatenation, by themselves.
LEMMA Joined ==
  ASSUME NEW S, NEW s \in Seq(S), NEW t \in Seq(S), NEW u \in Seq(S)
  PROVE  s \o t \in Seq(S) /\ (s \o t) \o u = s \o (t \o u)
<1>1. s \o t \in Seq(S)
  BY ConcatProperties
<1>2. (s \o t) \o u = s \o (t \o u)
  BY ConcatAssociative
<1> QED BY <1>1, <1>2

\* The end of a line, at the end of all.
LEMMA LineEnds ==
  ASSUME NEW S, NEW g \in Seq(S), NEW i \in Seq(S), NEW b \in Seq(S), NEW k \in S
  PROVE  /\ (g \o i) \o Append(b, k) = Append((g \o i) \o b, k)
         /\ Append((g \o i) \o b, k) \o <<>> = Append((g \o i) \o b, k)
         /\ i \o Append(b, k) \in Seq(S) /\ Append(b, k) \in Seq(S)
<1>1. g \o i \in Seq(S) /\ Append(b, k) \in Seq(S) /\ <<k>> \in Seq(S)
  BY ConcatProperties
<1>2. Append(b, k) = b \o <<k>> /\ Append((g \o i) \o b, k) = ((g \o i) \o b) \o <<k>>
  BY <1>1, ConcatProperties, AppendIsConcat
<1>3. (g \o i) \o (b \o <<k>>) = ((g \o i) \o b) \o <<k>>
  BY <1>1, ConcatAssociative
<1> DEFINE l == Append(b, k)
<1>a. l \in Seq(S)
  BY <1>1
<1> HIDE DEF l
<1>4. i \o l \in Seq(S)
  BY <1>a, Joined
<1>5. (g \o i) \o l \in Seq(S)
  BY <1>1, <1>a, ConcatProperties
<1>6. ((g \o i) \o l) \o <<>> = (g \o i) \o l
  BY <1>5, ConcatEmptySeq
<1>7. (g \o i) \o l = Append((g \o i) \o b, k)
  BY <1>2, <1>3, Zenon DEF l
<1>8. /\ (g \o i) \o l = Append((g \o i) \o b, k)
      /\ Append((g \o i) \o b, k) \o <<>> = Append((g \o i) \o b, k)
  BY <1>6, <1>7, Zenon
<1> QED BY <1>a, <1>4, <1>8, Zenon DEF l

\* The last character of all goes with that of the line.
LEMMA LineErased ==
  ASSUME NEW S, NEW g \in Seq(S), NEW b \in Seq(S), b # <<>>
  PROVE  /\ SubSeq(b, 1, Len(b) - 1) \in Seq(S)
         /\ Len(SubSeq(b, 1, Len(b) - 1)) = Len(b) - 1
         /\ g \o SubSeq(b, 1, Len(b) - 1) = SubSeq(g \o b, 1, Len(g \o b) - 1)
<1> DEFINE n == Len(b) - 1
           f == SubSeq(b, 1, n)
           k == b[Len(b)]
<1>1. Len(b) \in Nat /\ Len(b) > 0 /\ n \in Nat /\ n + 1 = Len(b) /\ k \in S
  OBVIOUS
<1> HIDE DEF n
<1>2. f \in Seq(S) /\ Len(f) = n /\ \A i \in 1 .. n : f[i] = b[i]
  <2>1. 1 \in Int /\ n \in Int /\ \A i \in 1 .. n : b[i] \in S
    BY <1>1
  <2>2. /\ SubSeq(b, 1, n) \in Seq(S)
        /\ Len(SubSeq(b, 1, n)) = IF 1 <= n THEN n - 1 + 1 ELSE 0
        /\ \A i \in 1 .. n - 1 + 1 : SubSeq(b, 1, n)[i] = b[1 + i - 1]
    BY <2>1, SubSeqProperties
  <2>3. n - 1 + 1 = n /\ (IF 1 <= n THEN n - 1 + 1 ELSE 0) = n /\ \A i \in 1 .. n : 1 + i - 1 = i
    BY <1>1
  <2> QED BY <2>2, <2>3
<1> DEFINE gb == g \o b
           gf == g \o f
           m == Len(gb) - 1
<1> HIDE DEF m
<1>3. /\ gb \in Seq(S) /\ Len(gb) = Len(g) + Len(b) /\ Len(g) \in Nat
      /\ \A i \in 1 .. Len(g) + Len(b) : gb[i] = IF i <= Len(g) THEN g[i] ELSE b[i - Len(g)]
  BY ConcatProperties, LenProperties
<1>4. /\ gf \in Seq(S) /\ Len(gf) = Len(g) + n
      /\ \A i \in 1 .. Len(g) + n : gf[i] = IF i <= Len(g) THEN g[i] ELSE f[i - Len(g)]
  BY <1>2, ConcatProperties
<1> HIDE DEF gf
<1> HIDE DEF f, gb
<1>5. m = Len(g) + n /\ m \in Nat
  <2>1. m = Len(gb) - 1 /\ Len(gb) = Len(g) + Len(b) /\ Len(g) \in Nat
    BY <1>3, Zenon DEF m
  <2> QED BY <1>1, <2>1
<1>6. SubSeq(gb, 1, m) \in Seq(S) /\ Len(SubSeq(gb, 1, m)) = m
      /\ \A i \in 1 .. m : SubSeq(gb, 1, m)[i] = gb[i]
  <2>1. 1 \in Int /\ m \in Int /\ \A i \in 1 .. m : gb[i] \in S
    BY <1>1, <1>3, <1>5
  <2>2. /\ SubSeq(gb, 1, m) \in Seq(S)
        /\ Len(SubSeq(gb, 1, m)) = IF 1 <= m THEN m - 1 + 1 ELSE 0
        /\ \A i \in 1 .. m - 1 + 1 : SubSeq(gb, 1, m)[i] = gb[1 + i - 1]
    BY <2>1, SubSeqProperties
  <2>3. m - 1 + 1 = m /\ (IF 1 <= m THEN m - 1 + 1 ELSE 0) = m /\ \A i \in 1 .. m : 1 + i - 1 = i
    BY <1>5
  <2> QED BY <2>2, <2>3
<1>7. \A i \in 1 .. m : gf[i] = gb[i]
  <2> TAKE i \in 1 .. m
  <2>1. i \in 1 .. Len(g) + n /\ i \in 1 .. Len(g) + Len(b) /\ i \in Nat
    BY <1>1, <1>3, <1>5
  <2>2. CASE i <= Len(g)
    BY <1>3, <1>4, <2>1, <2>2
  <2>3. CASE ~ (i <= Len(g))
    <3>1. i - Len(g) \in 1 .. n
      BY <1>1, <1>3, <2>1, <2>3
    <3> QED BY <1>2, <1>3, <1>4, <2>1, <2>3, <3>1
  <2> QED BY <2>2, <2>3
<1>8. gf = SubSeq(gb, 1, m)
  <2>1. Len(gf) = Len(SubSeq(gb, 1, m)) /\ \A i \in 1 .. Len(gf) : gf[i] = SubSeq(gb, 1, m)[i]
    BY <1>4, <1>5, <1>6, <1>7
  <2> QED BY <1>4, <1>6, <2>1, SeqEqual
<1> QED BY <1>2, <1>8 DEF n, f, gb, gf, m

\* What is read leaves one buffer for the other.
LEMMA BytesRead ==
  ASSUME NEW S, NEW g \in Seq(S), NEW i \in Seq(S), NEW k \in 0 .. Len(i)
  PROVE  /\ (g \o SubSeq(i, 1, k)) \o SubSeq(i, k + 1, Len(i)) = g \o i
         /\ g \o SubSeq(i, 1, k) \in Seq(S) /\ SubSeq(i, k + 1, Len(i)) \in Seq(S)
<1>1. Len(i) \in Nat /\ k \in Nat /\ k <= Len(i)
  BY LenProperties
<1>2. SubSeq(i, 1, k) \in Seq(S)
  <2>1. 1 \in Int /\ k \in Int /\ \A n \in 1 .. k : i[n] \in S
    BY <1>1
  <2> QED BY <2>1, SubSeqProperties
<1>3. SubSeq(i, k + 1, Len(i)) \in Seq(S)
  <2>1. k + 1 \in Int /\ Len(i) \in Int /\ \A n \in k + 1 .. Len(i) : i[n] \in S
    BY <1>1
  <2> QED BY <2>1, SubSeqProperties
<1>4. SubSeq(i, 1, k) \o SubSeq(i, k + 1, Len(i)) = SubSeq(i, 1, Len(i))
  <2>1. 1 \in 1 .. Len(i) + 1 /\ k \in 1 - 1 .. Len(i) /\ Len(i) \in k .. Len(i)
    BY <1>1
  <2> QED BY <2>1, ConcatAdjacentSubSeq
<1>5. SubSeq(i, 1, Len(i)) = i
  BY SubSeqFull
<1> DEFINE a == SubSeq(i, 1, k)
           z == SubSeq(i, k + 1, Len(i))
<1>6. a \in Seq(S) /\ z \in Seq(S) /\ a \o z = i
  BY <1>2, <1>3, <1>4, <1>5, Zenon
<1> HIDE DEF a, z
<1>7. (g \o a) \o z = g \o (a \o z) /\ g \o a \in Seq(S)
  <2>a. a \in Seq(S) /\ z \in Seq(S)
    BY <1>6
  <2>1. \A x, y \in Seq(S) : (g \o x) \o y = g \o (x \o y)
    BY ConcatAssociative, SMTT(30)
  <2>2. (g \o a) \o z = g \o (a \o z)
    BY <2>a, <2>1, Zenon
  <2>3. g \o a \in Seq(S)
    BY <2>a, Joined
  <2> QED BY <2>2, <2>3
<1>8. (g \o a) \o z = g \o i
  BY <1>6, <1>7
<1> QED BY <1>6, <1>7, <1>8 DEF a, z

\* A key.
LEMMA LineTyped ==
  ASSUME LinesInv, NEW k \in Keys, Text!handleEvent(k)
  PROVE  LinesInv'
<1> DEFINE gi == got \o inputBuffer
<1>1. /\ typed \in Seq(Symbols) /\ got \in Seq(Symbols) /\ inputBuffer \in Seq(Symbols)
      /\ keyboardBuffer \in Seq(Symbols) /\ gi \in Seq(Symbols) /\ AllOf \in Seq(Symbols)
      /\ AllOf = gi \o keyboardBuffer /\ TypedIs(typed, AllOf, Len(keyboardBuffer)) /\ NoneSleeps
  BY ConcatProperties, SMT DEF LinesInv, AllOf
<1>2. k \in Symbols /\ typed' = Append(typed, k) /\ got' = got /\ typed' \in Seq(Symbols)
  <2>1. k \in Symbols
    BY DEF Symbols
  <2> QED BY <1>1, <2>1, AppendProperties DEF Text!handleEvent
<1>3. AllOf' = (got' \o inputBuffer') \o keyboardBuffer'
  BY DEF AllOf
<1> HIDE DEF gi
<1>4. CASE k = "nl" /\ Text!enter
  <2>1. /\ inputBuffer' = inputBuffer \o Append(keyboardBuffer, k) /\ keyboardBuffer' = <<>>
        /\ reader' = [r \in Reader |-> IF reader[r].state = "waiting"
                                       THEN [reader[r] EXCEPT !.state = "woken"] ELSE reader[r]]
    BY <1>4 DEF Text!enter, Text!free
  <2>2. AllOf' = Append(AllOf, k) /\ inputBuffer' \in Seq(Symbols)
    <3>1. /\ got \in Seq(Symbols) /\ inputBuffer \in Seq(Symbols)
          /\ keyboardBuffer \in Seq(Symbols) /\ k \in Symbols
      BY <1>1, <1>2
    <3> DEFINE l == Append(keyboardBuffer, k)
               new == Append((got \o inputBuffer) \o keyboardBuffer, k)
    <3>2. inputBuffer \o l \in Seq(Symbols)
      BY <3>1, LineEnds
    <3>3. got \o (inputBuffer \o l) = new
      <4>1. (got \o inputBuffer) \o l = new
        BY <3>1, LineEnds
      <4>2. l \in Seq(Symbols)
        BY <3>1, LineEnds
      <4> HIDE DEF l, new
      <4>3. (got \o inputBuffer) \o l = got \o (inputBuffer \o l)
        BY <3>1, <4>2, Joined
      <4> QED BY <4>1, <4>3, Zenon
    <3>4. new \o <<>> = new
      BY <3>1, LineEnds
    <3> HIDE DEF l, new
    <3>5. (got \o (inputBuffer \o l)) \o <<>> = new
      BY <3>3, <3>4, Zenon
    <3>6. AllOf' = new /\ inputBuffer' \in Seq(Symbols)
      BY <1>2, <1>3, <2>1, <3>2, <3>5, Zenon DEF l
    <3> QED BY <1>1, <3>6, Zenon DEF new, gi
  <2>3. TypedIs(Append(typed, k), Append(AllOf, k), 0)
    <3>1. k # "bs"
      BY <1>4
    <3>2. TypedIs(Append(typed, k), Append(AllOf, k), IF k = "nl" THEN 0 ELSE Len(keyboardBuffer) + 1)
      BY <1>1, <1>2, <3>1, CharTyped
    <3> QED BY <1>4, <3>2, Zenon
  <2>4. NoneSleeps'
    <3>1. \A r \in Reader : /\ reader'[r].state \in {"no", "woken"}
                            /\ reader'[r] \in [state : {"no", "waiting", "woken"}, count : Nat]
      BY <1>1, <2>1 DEF NoneSleeps
    <3>2. reader' \in [Reader -> [state : {"no", "waiting", "woken"}, count : Nat]]
      BY <2>1, <3>1
    <3> QED BY <3>1, <3>2 DEF NoneSleeps
  <2>5. Len(keyboardBuffer') = 0 /\ keyboardBuffer' \in Seq(Symbols)
    BY <2>1
  <2> QED BY <1>1, <1>2, <2>2, <2>3, <2>4, <2>5 DEF LinesInv
<1>5. CASE k = "bs" /\ Text!erase
  <2>1. inputBuffer' = inputBuffer /\ reader' = reader /\ NoneSleeps'
    BY <1>1, <1>5 DEF Text!erase, NoneSleeps
  <2>2. CASE keyboardBuffer = <<>>
    <3>1. keyboardBuffer' = keyboardBuffer /\ AllOf' = AllOf /\ Len(keyboardBuffer) = 0
      BY <1>1, <1>2, <1>3, <1>5, <2>1, <2>2 DEF Text!erase, gi
    <3>2. TypedIs(Append(typed, k), AllOf, 0)
      BY <1>1, <1>5, <3>1, VainTyped
    <3> QED BY <1>1, <1>2, <2>1, <3>1, <3>2 DEF LinesInv
  <2>3. CASE keyboardBuffer # <<>>
    <3>1. keyboardBuffer' = SubSeq(keyboardBuffer, 1, Len(keyboardBuffer) - 1)
      BY <1>5, <2>3 DEF Text!erase, Text!Front
    <3>2. /\ keyboardBuffer' \in Seq(Symbols) /\ Len(keyboardBuffer') = Len(keyboardBuffer) - 1
          /\ gi \o keyboardBuffer' = SubSeq(gi \o keyboardBuffer, 1, Len(gi \o keyboardBuffer) - 1)
      BY <1>1, <2>3, <3>1, LineErased
    <3>3. AllOf' = SubSeq(AllOf, 1, Len(AllOf) - 1)
      BY <1>1, <1>2, <1>3, <2>1, <3>2, Zenon DEF gi
    <3>4. Len(keyboardBuffer) # 0
      BY <1>1, <2>3
    <3>5. TypedIs(Append(typed, k), SubSeq(AllOf, 1, Len(AllOf) - 1), Len(keyboardBuffer) - 1)
      BY <1>1, <1>5, <3>4, BackspaceTyped
    <3> QED BY <1>1, <1>2, <2>1, <3>2, <3>3, <3>5 DEF LinesInv
  <2> QED BY <2>2, <2>3
<1>6. CASE k \notin {"nl", "bs"} /\ Text!insert(k)
  <2>1. /\ inputBuffer' = inputBuffer /\ reader' = reader /\ NoneSleeps'
        /\ keyboardBuffer' = Append(keyboardBuffer, k)
    BY <1>1, <1>6 DEF Text!insert, NoneSleeps
  <2>2. AllOf' = Append(AllOf, k)
    <3>1. (got \o inputBuffer) \o Append(keyboardBuffer, k)
             = Append((got \o inputBuffer) \o keyboardBuffer, k)
      BY <1>1, <1>2, LineEnds
    <3> QED BY <1>1, <1>2, <1>3, <2>1, <3>1, Zenon DEF gi
  <2>3. keyboardBuffer' \in Seq(Symbols) /\ Len(keyboardBuffer') = Len(keyboardBuffer) + 1
    BY <1>1, <1>2, <2>1, AppendProperties
  <2>4. TypedIs(Append(typed, k), Append(AllOf, k), Len(keyboardBuffer) + 1)
    <3>1. k # "bs" /\ k # "nl"
      BY <1>6
    <3>2. TypedIs(Append(typed, k), Append(AllOf, k), IF k = "nl" THEN 0 ELSE Len(keyboardBuffer) + 1)
      BY <1>1, <1>2, <3>1, CharTyped
    <3> QED BY <3>1, <3>2, Zenon
  <2> QED BY <1>1, <1>2, <2>1, <2>2, <2>3, <2>4 DEF LinesInv
<1> QED BY <1>4, <1>5, <1>6 DEF Text!handleEvent

\* A read.
LEMMA LineRead ==
  ASSUME LinesInv, NEW r \in Reader, NEW n \in Nat, Text!read(r, n)
  PROVE  LinesInv'
<1> DEFINE k == IF Len(inputBuffer) < n THEN Len(inputBuffer) ELSE n
<1>1. /\ got \in Seq(Symbols) /\ inputBuffer \in Seq(Symbols) /\ keyboardBuffer \in Seq(Symbols)
      /\ Len(inputBuffer) \in Nat /\ k \in 0 .. Len(inputBuffer) /\ NoneSleeps
  BY LenProperties DEF LinesInv
<1>2. /\ inputBuffer' = SubSeq(inputBuffer, k + 1, Len(inputBuffer))
      /\ got' = got \o SubSeq(inputBuffer, 1, k)
      /\ reader' = [reader EXCEPT ![r] = IF k > 0 THEN [state |-> "no", count |-> 0]
                                         ELSE [state |-> "waiting", count |-> n]]
      /\ typed' = typed /\ keyboardBuffer' = keyboardBuffer
  BY DEF Text!read
<1>3. inputBuffer = <<>> => inputBuffer' = <<>>
  <2>1. SUFFICES ASSUME inputBuffer = <<>> PROVE inputBuffer' = <<>>
    OBVIOUS
  <2>2. Len(inputBuffer) = 0 /\ k = 0
    BY <1>1, <2>1
  <2> QED BY <1>2, <2>2
<1>4. k = 0 => n = 0 \/ inputBuffer = <<>>
  BY <1>1
<1> HIDE DEF k
<1>5. /\ got' \o inputBuffer' = got \o inputBuffer
      /\ got' \in Seq(Symbols) /\ inputBuffer' \in Seq(Symbols)
  BY <1>1, <1>2, BytesRead, Zenon
<1>6. AllOf' = AllOf
  BY <1>2, <1>5, Zenon DEF AllOf
<1>7. NoneSleeps'
  <2>1. reader' \in [Reader -> [state : {"no", "waiting", "woken"}, count : Nat]]
    BY <1>1, <1>2 DEF NoneSleeps
  <2>2. ASSUME inputBuffer' # <<>>, NEW q \in Reader, reader'[q].state = "waiting"
        PROVE  reader'[q].count = 0
    <3>1. inputBuffer # <<>>
      BY <1>3, <2>2
    <3>2. CASE q = r
      <4>1. reader'[r] = IF k > 0 THEN [state |-> "no", count |-> 0]
                         ELSE [state |-> "waiting", count |-> n]
        BY <1>1, <1>2 DEF NoneSleeps
      <4>2. ~ (k > 0)
        BY <2>2, <3>2, <4>1
      <4> QED BY <1>1, <1>4, <3>1, <3>2, <4>1, <4>2
    <3>3. CASE q # r
      <4>1. reader'[q] = reader[q]
        BY <1>1, <1>2, <3>3 DEF NoneSleeps
      <4> QED BY <1>1, <2>2, <3>1, <4>1 DEF NoneSleeps
    <3> QED BY <3>2, <3>3
  <2> QED BY <2>1, <2>2 DEF NoneSleeps
<1> QED BY <1>1, <1>2, <1>5, <1>6, <1>7, Zenon DEF LinesInv

LEMMA LinesStep == LinesInv /\ [Text!Next]_textVars => LinesInv'
<1> SUFFICES ASSUME LinesInv, [Text!Next]_textVars PROVE LinesInv'
  OBVIOUS
<1>1. ASSUME NEW k \in Keys, Text!handleEvent(k) PROVE LinesInv'
  BY <1>1, LineTyped
<1>2. ASSUME UNCHANGED <<keyboardBuffer, inputBuffer, reader, typed, got>> PROVE LinesInv'
  BY <1>2, Zenon DEF LinesInv, AllOf, NoneSleeps
<1>3. ASSUME NEW s \in Scripts, Text!startWrite(s) PROVE LinesInv'
  BY <1>2, <1>3 DEF Text!startWrite
<1>4. CASE Text!write
  BY <1>2, <1>4 DEF Text!write
<1>5. ASSUME NEW r \in Reader, Text!sysread(r) \/ Text!check(r) PROVE LinesInv'
  <2>1. CASE Text!sysread(r)
    <3>1. \E n \in Nat : Text!read(r, n)
      BY <2>1, WindowShape DEF Text!sysread, Text!TextShape
    <3> QED BY <3>1, LineRead
  <2>2. CASE Text!check(r)
    <3>1. reader[r].count \in Nat
      BY DEF LinesInv, NoneSleeps
    <3>2. Text!read(r, reader[r].count)
      BY <2>2 DEF Text!check
    <3> QED BY <3>1, <3>2, LineRead
  <2> QED BY <1>5, <2>1, <2>2
<1>6. ASSUME NEW s \in Sizes, Text!setSize(s) PROVE LinesInv'
  BY <1>2, <1>6 DEF Text!setSize
<1>7. CASE UNCHANGED textVars
  BY <1>2, <1>7 DEF textVars
<1> QED BY <1>1, <1>3, <1>4, <1>5, <1>6, <1>7 DEF Text!Next

\* The window counts as these lemmas do.
LEMMA CountsAgree == \A S : Text!Cardinality(S) = Cardinality(S)
BY Zenon DEF Text!Cardinality, Cardinality

LEMMA KeptAgree ==
  ASSUME NEW i \in 1 .. Len(typed), Len(typed) \in Nat
  PROVE  Text!Kept(i) <=> i \in KeptOf(typed)
<1>1. \A a, b : /\ Text!Backspaces(a, b) = Cardinality(BackspacesOf(typed, a, b))
               /\ Text!Others(a, b) = Cardinality(OthersOf(typed, a, b))
  BY CountsAgree, Zenon DEF Text!Backspaces, Text!Others, BackspacesOf, OthersOf
<1> QED BY <1>1, Zenon DEF Text!Kept, KeptOf

\* Whatever is typed, written meanwhile and read by however many threads: the program gets
\* the lines as they were edited, once and in order, and no thread that wants a byte sleeps
\* while there is a line (handleEvent, sysread).
THEOREM LinesStayTyped == MCSpec => []LinesTyped
<1>1. MCInit => LinesInv
  BY LinesStart DEF MCInit
<1>2. [MCNext]_<<vars, textVars, machine>> => [Text!Next]_textVars
  BY DEF MCNext
<1>3. LinesInv => LinesTyped
  <2> SUFFICES ASSUME LinesInv PROVE LinesTyped
    OBVIOUS
  <2> DEFINE kept == {i \in 1 .. Len(typed) : Text!Kept(i)}
  <2>1. kept = KeptOf(typed)
    <3>1. Len(typed) \in Nat
      BY LenProperties DEF LinesInv
    <3>2. \A i \in 1 .. Len(typed) : Text!Kept(i) <=> i \in KeptOf(typed)
      BY <3>1, KeptAgree
    <3>3. KeptOf(typed) \subseteq 1 .. Len(typed)
      BY DEF KeptOf
    <3> QED BY <3>2, <3>3
  <2> HIDE DEF kept
  <2>2. Len(AllOf) = Text!Cardinality(kept)
    BY <2>1, CountsAgree, Zenon DEF LinesInv, TypedIs
  <2>3. \A i \in kept : AllOf[Text!Cardinality({j \in kept : j <= i})] = typed[i]
    BY <2>1, CountsAgree, Zenon DEF LinesInv, TypedIs, UpTo
  <2>4. inputBuffer # <<>> =>
           \A r \in Reader : reader[r].state = "waiting" => reader[r].count = 0
    BY DEF LinesInv, NoneSleeps
  <2> QED BY <2>2, <2>3, <2>4, Zenon DEF LinesTyped, Text!LinesTyped, AllOf, kept
<1> QED BY <1>1, <1>2, <1>3, LinesStep, PTL DEF MCSpec

-----------------------------------------------------------------------------
(* What is drawn.                                                            *)

\* Division.
LEMMA Divided ==
  ASSUME NEW a \in Nat, NEW w \in Nat \ {0}
  PROVE  /\ a \div w \in Nat /\ (a \div w) * w \in Nat
         /\ (a \div w) * w <= a /\ a < (a \div w) * w + w /\ a % w = a - (a \div w) * w
<1>1. a \div w \in Nat /\ (a \div w) * w \in Nat
  OBVIOUS
<1>2. (a \div w) * w <= a
  OBVIOUS
<1>3. a < (a \div w) * w + w
  OBVIOUS
<1>4. a % w = a - ((a \div w) * w)
  OBVIOUS
<1> QED BY <1>1, <1>2, <1>3, <1>4

LEMMA Quotient ==
  ASSUME NEW a \in Nat, NEW w \in Nat \ {0}, NEW q \in Nat, q * w <= a, a < q * w + w
  PROVE  a \div w = q
OBVIOUS

LEMMA Times ==
  ASSUME NEW p \in Nat, NEW q \in Nat, NEW w \in Nat \ {0}
  PROVE  /\ p * w \in Nat /\ q * w \in Nat
         /\ p < q => p * w + w <= q * w
         /\ p >= q => p * w >= q * w
<1>1. p * w \in Nat /\ q * w \in Nat
  OBVIOUS
<1>2. p >= q => p * w >= q * w
  OBVIOUS
<1>3. p < q => p * w + w <= q * w
  <2>1. (p + 1) * w = p * w + w
    OBVIOUS
  <2>2. p < q => (p + 1) * w <= q * w
    OBVIOUS
  <2> QED BY <2>1, <2>2
<1> QED BY <1>1, <1>2, <1>3

\* The rows of a line are those that begin within it.
RowsOfLine(l, w) == (l + w - 1) \div w

LEMMA RowBegins ==
  ASSUME NEW l \in Nat, NEW w \in Nat \ {0}, NEW k \in Nat
  PROVE  /\ RowsOfLine(l, w) \in Nat
         /\ k * w < l <=> k < RowsOfLine(l, w)
         /\ k * w < l => k < l
<1> DEFINE q == RowsOfLine(l, w)
           a == l + w - 1
<1>1. a \in Nat /\ a = l + w - 1
  OBVIOUS
<1>2. q = a \div w
  BY DEF RowsOfLine
<1> HIDE DEF a, q
<1>3. q \in Nat /\ q * w \in Nat /\ q * w <= a /\ a < q * w + w
  BY <1>1, <1>2, Divided
<1>4. k * w \in Nat /\ (k < q => k * w + w <= q * w) /\ (k >= q => k * w >= q * w)
  BY <1>3, Times
<1>5. k * w >= k
  OBVIOUS
<1>6. k < q => k * w < l
  BY <1>1, <1>3, <1>4
<1>7. k >= q => ~ (k * w < l)
  BY <1>1, <1>3, <1>4
<1>8. k * w < l <=> k < q
  BY <1>3, <1>6, <1>7
<1> QED BY <1>3, <1>4, <1>5, <1>8 DEF q

\* A part of a line's rows.
RowsIn(n, a, b) == {<<n, j>> : j \in a .. b}

LEMMA RowsCounted ==
  ASSUME NEW n, NEW a \in Int, NEW b \in Int
  PROVE  /\ IsFiniteSet(RowsIn(n, a, b))
         /\ Cardinality(RowsIn(n, a, b)) = IF a > b THEN 0 ELSE b - a + 1
<1> DEFINE f == [j \in a .. b |-> <<n, j>>]
           R == RowsIn(n, a, b)
<1>1. IsFiniteSet(a .. b) /\ Cardinality(a .. b) = IF a > b THEN 0 ELSE b - a + 1
  BY FS_Interval
<1>2. f \in Bijection(a .. b, R)
  BY DEF Bijection, Injection, Surjection, IsInjective, RowsIn
<1>3. ExistsBijection(a .. b, R)
  BY <1>2 DEF ExistsBijection
<1>4. IsFiniteSet(R) /\ Cardinality(R) = Cardinality(a .. b)
  BY <1>1, <1>3, FS_Bijection
<1> QED BY <1>1, <1>4

\* The rows of the lines of a text, those from a line on, and those after a row.
RowsOf(L, w) ==
  UNION {{<<n, j>> : j \in {k \in 0 .. Len(L[n]) : k * w < Len(L[n])}} : n \in 1 .. Len(L)}
RowsFrom(L, w, n) == {p \in RowsOf(L, w) : p[1] >= n}
RowsAfter(L, w, n, j) == {p \in RowsOf(L, w) : p[1] > n \/ (p[1] = n /\ p[2] > j)}

\* Lines and a width.
Drawable(L, w) == Len(L) \in Nat /\ w \in Nat \ {0} /\ \A n \in 1 .. Len(L) : Len(L[n]) \in Nat

\* A row is one of a line's.
IsRow(L, w, n, j) == n \in 1 .. Len(L) /\ j \in Nat /\ j < RowsOfLine(Len(L[n]), w)

LEMMA RowsAre ==
  ASSUME NEW L, NEW w, Drawable(L, w)
  PROVE  /\ \A n, j : <<n, j>> \in RowsOf(L, w) <=> IsRow(L, w, n, j)
         /\ \A p \in RowsOf(L, w) : p = <<p[1], p[2]>> /\ IsRow(L, w, p[1], p[2])
<1>1. ASSUME NEW n \in 1 .. Len(L)
      PROVE  \A j : j \in {k \in 0 .. Len(L[n]) : k * w < Len(L[n])}
                     <=> j \in Nat /\ j < RowsOfLine(Len(L[n]), w)
  <2> DEFINE l == Len(L[n])
  <2>1. l \in Nat /\ w \in Nat \ {0}
    BY DEF Drawable
  <2> HIDE DEF l
  <2>2. ASSUME NEW k \in Nat
        PROVE  (k * w < l <=> k < RowsOfLine(l, w)) /\ (k * w < l => k < l)
    BY <2>1, RowBegins, Zenon
  <2>3. \A k : k \in 0 .. l <=> k \in Nat /\ k <= l
    BY <2>1
  <2>4. \A k \in Nat : k < l => k <= l
    BY <2>1
  <2>5. \A j : j \in {k \in 0 .. l : k * w < l} <=> j \in 0 .. l /\ j * w < l
    BY Zenon
  <2>6. \A j : j \in 0 .. l /\ j * w < l <=> j \in Nat /\ j < RowsOfLine(l, w)
    BY <2>2, <2>3, <2>4, Zenon
  <2> QED BY <2>5, <2>6, Zenon DEF l
<1>2. ASSUME NEW n, NEW j PROVE <<n, j>> \in RowsOf(L, w) <=> IsRow(L, w, n, j)
  <2>1. <<n, j>> \in RowsOf(L, w)
          <=> n \in 1 .. Len(L) /\ j \in {k \in 0 .. Len(L[n]) : k * w < Len(L[n])}
    BY DEF RowsOf
  <2> QED BY <1>1, <2>1, Zenon DEF IsRow
<1>3. ASSUME NEW p \in RowsOf(L, w) PROVE p = <<p[1], p[2]>>
  BY DEF RowsOf
<1> QED BY <1>2, <1>3, Zenon

\* The rows from a line on are its own and those from the next line on.
LEMMA RowsNext ==
  ASSUME NEW L, NEW w, Drawable(L, w), NEW n \in 1 .. Len(L), NEW c, c = RowsOfLine(Len(L[n]), w)
  PROVE  /\ c \in Nat
         /\ RowsFrom(L, w, n) = RowsIn(n, 0, c - 1) \cup RowsFrom(L, w, n + 1)
         /\ \A j \in 0 .. c - 1 :
               RowsAfter(L, w, n, j) = RowsIn(n, j + 1, c - 1) \cup RowsFrom(L, w, n + 1)
         /\ \A a, b : RowsIn(n, a, b) \cap RowsFrom(L, w, n + 1) = {}
<1>1. c \in Nat /\ n \in Nat
  <2>1. Len(L[n]) \in Nat /\ w \in Nat \ {0} /\ n \in Nat /\ 0 \in Nat
    BY DEF Drawable
  <2>2. RowsOfLine(Len(L[n]), w) \in Nat
    BY <2>1, RowBegins, Zenon
  <2> QED BY <2>1, <2>2
<1>2. /\ \A j : <<n, j>> \in RowsOf(L, w) <=> j \in 0 .. c - 1
      /\ \A p \in RowsOf(L, w) : p = <<p[1], p[2]>> /\ p[1] \in Nat /\ p[2] \in Nat
                                /\ (p[1] = n => p[2] \in 0 .. c - 1)
  <2>1. \A j : <<n, j>> \in RowsOf(L, w) <=> j \in Nat /\ j < c
    BY RowsAre DEF IsRow
  <2>2. \A j : j \in Nat /\ j < c <=> j \in 0 .. c - 1
    BY <1>1
  <2>3. \A p \in RowsOf(L, w) : p = <<p[1], p[2]>> /\ p[1] \in 1 .. Len(L) /\ p[2] \in Nat
    BY RowsAre, Zenon DEF IsRow
  <2>4. Len(L) \in Nat
    BY DEF Drawable
  <2>5. \A p \in RowsOf(L, w) : p[1] = n => <<n, p[2]>> \in RowsOf(L, w)
    BY <2>3, Zenon
  <2> QED BY <2>1, <2>2, <2>3, <2>4, <2>5
<1>3. ASSUME NEW p
      PROVE  p \in RowsFrom(L, w, n) <=> p \in RowsIn(n, 0, c - 1) \cup RowsFrom(L, w, n + 1)
  <2>1. p \in RowsIn(n, 0, c - 1) <=> p \in RowsOf(L, w) /\ p[1] = n
    BY <1>2 DEF RowsIn
  <2>2. p \in RowsOf(L, w) => (p[1] >= n <=> p[1] = n \/ p[1] >= n + 1)
    BY <1>1, <1>2
  <2> QED BY <2>1, <2>2 DEF RowsFrom
<1>4. ASSUME NEW j \in 0 .. c - 1, NEW p
      PROVE  p \in RowsAfter(L, w, n, j)
               <=> p \in RowsIn(n, j + 1, c - 1) \cup RowsFrom(L, w, n + 1)
  <2>1. \A k : k \in j + 1 .. c - 1 <=> k \in 0 .. c - 1 /\ k > j
    BY <1>1
  <2>2. p \in RowsIn(n, j + 1, c - 1) <=> p \in RowsOf(L, w) /\ p[1] = n /\ p[2] > j
    BY <1>2, <2>1 DEF RowsIn
  <2>3. \A a \in Nat : a > n <=> a >= n + 1
    BY <1>1
  <2>4. p \in RowsOf(L, w) => p[1] \in Nat
    BY <1>2
  <2>5. p \in RowsOf(L, w) => (p[1] > n <=> p[1] >= n + 1)
    BY <2>3, <2>4, Zenon
  <2> QED BY <2>2, <2>5, Zenon DEF RowsFrom, RowsAfter
<1>5. ASSUME NEW a, NEW b PROVE RowsIn(n, a, b) \cap RowsFrom(L, w, n + 1) = {}
  <2>1. \A p \in RowsIn(n, a, b) : p[1] = n
    BY DEF RowsIn
  <2>2. ~ (n >= n + 1)
    BY <1>1
  <2> QED BY <2>1, <2>2 DEF RowsFrom
<1>6. RowsFrom(L, w, n) = RowsIn(n, 0, c - 1) \cup RowsFrom(L, w, n + 1)
  BY <1>3, Zenon
<1>7. \A j \in 0 .. c - 1 :
         RowsAfter(L, w, n, j) = RowsIn(n, j + 1, c - 1) \cup RowsFrom(L, w, n + 1)
  BY <1>4, Zenon
<1> QED BY <1>1, <1>5, <1>6, <1>7, Zenon

\* There are finitely many.
LEMMA RowsFinite ==
  ASSUME NEW L, NEW w, Drawable(L, w)
  PROVE  \A n : IsFiniteSet(RowsFrom(L, w, n)) /\ Cardinality(RowsFrom(L, w, n)) \in Nat
<1> DEFINE R(n) == RowsIn(n, 0, RowsOfLine(Len(L[n]), w) - 1)
           C == {R(n) : n \in 1 .. Len(L)}
<1>1. IsFiniteSet(1 .. Len(L))
  BY FS_Interval DEF Drawable
<1>2. \A n \in 1 .. Len(L) : IsFiniteSet(R(n)) /\ RowsOfLine(Len(L[n]), w) \in Nat
  <2> TAKE n \in 1 .. Len(L)
  <2>1. RowsOfLine(Len(L[n]), w) \in Nat
    BY RowBegins DEF Drawable
  <2>2. 0 \in Int /\ RowsOfLine(Len(L[n]), w) - 1 \in Int
    BY <2>1
  <2> QED BY <2>1, <2>2, RowsCounted
<1>3. IsFiniteSet(C)
  <2> HIDE DEF R
  <2> DEFINE f == [n \in 1 .. Len(L) |-> R(n)]
  <2>1. f \in Surjection(1 .. Len(L), C)
    BY DEF Surjection
  <2> QED BY <1>1, <2>1, FS_Surjection
<1>4. IsFiniteSet(UNION C)
  <2>1. \A T \in C : IsFiniteSet(T)
    BY <1>2
  <2> HIDE DEF C
  <2> QED BY <1>3, <2>1, FS_UNION
<1>5. RowsOf(L, w) \subseteq UNION C
  <2>1. ASSUME NEW p \in RowsOf(L, w) PROVE p \in UNION C
    <3>1. p = <<p[1], p[2]>> /\ p[1] \in 1 .. Len(L) /\ p[2] \in Nat
          /\ p[2] < RowsOfLine(Len(L[p[1]]), w)
      BY RowsAre, Zenon DEF IsRow
    <3>2. p[2] \in 0 .. RowsOfLine(Len(L[p[1]]), w) - 1
      BY <1>2, <3>1
    <3>3. p \in R(p[1])
      BY <3>1, <3>2, Zenon DEF RowsIn
    <3> QED BY <3>1, <3>3
  <2> QED BY <2>1
<1> HIDE DEF C
<1>6. \A n : RowsFrom(L, w, n) \in SUBSET UNION C
  BY <1>5 DEF RowsFrom
<1>7. \A T \in SUBSET UNION C : IsFiniteSet(T) /\ Cardinality(T) \in Nat
  BY <1>4, FS_Subset, FS_CardinalityType
<1> QED BY <1>6, <1>7

\* How many there are.
Below(L, w, n) == Cardinality(RowsFrom(L, w, n))

LEMMA BelowIs ==
  ASSUME NEW L, NEW w, Drawable(L, w)
  PROVE  /\ \A n \in 1 .. Len(L) :
              /\ RowsOfLine(Len(L[n]), w) \in Nat
              /\ Below(L, w, n) = RowsOfLine(Len(L[n]), w) + Below(L, w, n + 1)
              /\ \A j \in 0 .. RowsOfLine(Len(L[n]), w) - 1 :
                    Cardinality(RowsAfter(L, w, n, j)) = Below(L, w, n) - 1 - j
         /\ Below(L, w, Len(L) + 1) = 0
         /\ Below(L, w, 1) = Cardinality(RowsOf(L, w))
         /\ \A n : Below(L, w, n) \in Nat
<1>1. ASSUME NEW n \in 1 .. Len(L)
      PROVE  /\ RowsOfLine(Len(L[n]), w) \in Nat
             /\ Below(L, w, n) = RowsOfLine(Len(L[n]), w) + Below(L, w, n + 1)
             /\ \A j \in 0 .. RowsOfLine(Len(L[n]), w) - 1 :
                   Cardinality(RowsAfter(L, w, n, j)) = Below(L, w, n) - 1 - j
  <2> DEFINE c == RowsOfLine(Len(L[n]), w)
             F == RowsFrom(L, w, n + 1)
  <2>0. c = RowsOfLine(Len(L[n]), w) /\ F = RowsFrom(L, w, n + 1)
    OBVIOUS
  <2> HIDE DEF c, F
  <2>1. /\ c \in Nat /\ RowsFrom(L, w, n) = RowsIn(n, 0, c - 1) \cup F
        /\ \A j \in 0 .. c - 1 : RowsAfter(L, w, n, j) = RowsIn(n, j + 1, c - 1) \cup F
        /\ \A a, b : RowsIn(n, a, b) \cap F = {}
    BY <2>0, RowsNext
  <2>2. IsFiniteSet(F) /\ Cardinality(F) \in Nat
    BY <2>0, RowsFinite
  <2>3. ASSUME NEW a \in Int
        PROVE  Cardinality(RowsIn(n, a, c - 1) \cup F)
                 = (IF a > c - 1 THEN 0 ELSE c - 1 - a + 1) + Cardinality(F)
    <3> DEFINE I == RowsIn(n, a, c - 1)
    <3>1. c - 1 \in Int
      BY <2>1
    <3>2. IsFiniteSet(I) /\ Cardinality(I) = IF a > c - 1 THEN 0 ELSE c - 1 - a + 1
      BY <3>1, RowsCounted
    <3>3. I \cap F = {}
      BY <2>1
    <3> HIDE DEF I
    <3>4. Cardinality(I \cup F) = Cardinality(I) + Cardinality(F) - Cardinality(I \cap F)
      BY <2>2, <3>2, FS_Union
    <3>5. Cardinality(I \cap F) = 0
      BY <3>3, FS_EmptySet, Zenon
    <3>6. Cardinality(I) \in Nat
      BY <3>2, FS_CardinalityType
    <3>7. Cardinality(I \cup F) = Cardinality(I) + Cardinality(F)
      BY <2>2, <3>4, <3>5, <3>6
    <3> QED BY <3>2, <3>7 DEF I
  <2>4. Below(L, w, n) = c + Cardinality(F)
    <3>1. Cardinality(RowsIn(n, 0, c - 1) \cup F)
            = (IF 0 > c - 1 THEN 0 ELSE c - 1 - 0 + 1) + Cardinality(F)
      BY <2>3
    <3>2. Below(L, w, n) = Cardinality(RowsIn(n, 0, c - 1) \cup F)
      BY <2>1, Zenon DEF Below
    <3> QED BY <2>1, <2>2, <3>1, <3>2
  <2>5. \A j \in 0 .. c - 1 : Cardinality(RowsAfter(L, w, n, j)) = c + Cardinality(F) - 1 - j
    <3> TAKE j \in 0 .. c - 1
    <3>1. j + 1 \in Int /\ j \in Nat
      BY <2>1
    <3>2. Cardinality(RowsAfter(L, w, n, j))
            = (IF j + 1 > c - 1 THEN 0 ELSE c - 1 - (j + 1) + 1) + Cardinality(F)
      BY <2>1, <2>3, <3>1
    <3> QED BY <2>1, <2>2, <3>1, <3>2
  <2>6. Below(L, w, n + 1) = Cardinality(F)
    BY <2>0, Zenon DEF Below
  <2>7. \A j \in 0 .. c - 1 : Cardinality(RowsAfter(L, w, n, j)) = Below(L, w, n) - 1 - j
    <3> TAKE j \in 0 .. c - 1
    <3>1. Cardinality(RowsAfter(L, w, n, j)) = c + Cardinality(F) - 1 - j
      BY <2>5
    <3> QED BY <2>1, <2>2, <2>4, <3>1
  <2> QED BY <2>0, <2>1, <2>4, <2>6, <2>7, Zenon
<1>2. RowsFrom(L, w, Len(L) + 1) = {} /\ RowsFrom(L, w, 1) = RowsOf(L, w)
  <2>1. \A p \in RowsOf(L, w) : p[1] \in 1 .. Len(L)
    BY RowsAre, Zenon DEF IsRow
  <2>2. Len(L) \in Nat
    BY DEF Drawable
  <2>3. \A n \in 1 .. Len(L) : n >= 1 /\ ~ (n >= Len(L) + 1)
    BY <2>2
  <2> QED BY <2>1, <2>3 DEF RowsFrom
<1>3. Cardinality({}) = 0
  BY FS_EmptySet
<1>4. Below(L, w, Len(L) + 1) = 0 /\ Below(L, w, 1) = Cardinality(RowsOf(L, w))
  BY <1>2, <1>3, Zenon DEF Below
<1>5. \A n : Below(L, w, n) \in Nat
  BY RowsFinite DEF Below
<1> QED BY <1>1, <1>4, <1>5, Zenon

\* The code adds them up from the last line.
LEMMA RowsSummed ==
  ASSUME NEW w, Drawable(text.lines, w), NEW n \in 1 .. Len(text.lines) + 1
  PROVE  Text!rowsFrom(n, w) = Below(text.lines, w, n)
<1> DEFINE L == text.lines
           M == Len(L)
           c(k) == Text!rows(L[k], w)
           B(k) == Below(L, w, k)
           sums(s) == [k \in n .. (M + 1) |-> IF k > M THEN 0 ELSE c(k) + s[k + 1]]
           sum == CHOOSE s : s = sums(s)
<1>1. Text!rowsFrom(n, w) = sum[n]
  BY Zenon DEF Text!rowsFrom
<1>2. M \in Nat /\ n \in 1 .. M + 1
  BY DEF Drawable
<1>3. /\ \A k \in 1 .. M : c(k) \in Nat /\ B(k) = c(k) + B(k + 1)
      /\ B(M + 1) = 0 /\ \A k : B(k) \in Nat
  <2>1. \A k : c(k) = RowsOfLine(Len(L[k]), w)
    BY DEF Text!rows, RowsOfLine
  <2> HIDE DEF c
  <2> QED BY <2>1, BelowIs
<1> HIDE DEF L, c, B, M
<1>4. \A k \in n .. (M + 1) : k > M \/ (k \in 1 .. M /\ k + 1 \in n .. (M + 1))
  BY <1>2
<1>5. \A k \in n .. (M + 1) : k > M => k = M + 1
  BY <1>2
<1>6. \E s : s = sums(s)
  <2> DEFINE s == [k \in n .. (M + 1) |-> B(k)]
  <2>1. \A k \in n .. (M + 1) : B(k) = IF k > M THEN 0 ELSE c(k) + s[k + 1]
    <3> TAKE k \in n .. (M + 1)
    <3>1. CASE k > M
      BY <1>3, <1>5, <3>1
    <3>2. CASE ~ (k > M)
      <4>1. k \in 1 .. M /\ s[k + 1] = B(k + 1)
        BY <1>4, <3>2
      <4> QED BY <1>3, <3>2, <4>1
    <3> QED BY <3>1, <3>2
  <2>2. s = sums(s)
    BY <2>1, Zenon
  <2> QED BY <2>2
<1>7. sum = sums(sum)
  BY <1>6, Zenon
<1> HIDE DEF sum
<1>8. \A k \in n .. (M + 1) : sum[k] = IF k > M THEN 0 ELSE c(k) + sum[k + 1]
  BY <1>7
<1> DEFINE D == {d \in Nat : \E k \in n .. (M + 1) : k + d = M + 1 /\ sum[k] # B(k)}
<1>9. D = {}
  <2>1. SUFFICES ASSUME D # {} PROVE FALSE
    OBVIOUS
  <2>2. D \in SUBSET Nat
    OBVIOUS
  <2>3. PICK d \in D : \A m \in D : d <= m
    <3> HIDE DEF D
    <3> QED BY <2>1, <2>2, Least
  <2>4. PICK k \in n .. (M + 1) : k + d = M + 1 /\ sum[k] # B(k)
    BY <2>3
  <2>5. CASE k > M
    BY <1>3, <1>5, <1>8, <2>4, <2>5
  <2>6. CASE ~ (k > M)
    <3>1. k \in 1 .. M /\ k + 1 \in n .. (M + 1)
      BY <1>4, <2>6
    <3>2. sum[k + 1] = B(k + 1)
      <4>1. SUFFICES ASSUME sum[k + 1] # B(k + 1) PROVE FALSE
        OBVIOUS
      <4>2. d - 1 \in Nat /\ (k + 1) + (d - 1) = M + 1
        BY <1>2, <2>2, <2>4, <3>1
      <4>3. d - 1 \in D
        BY <3>1, <4>1, <4>2
      <4>4. d <= d - 1
        BY <2>3, <4>3, Zenon
      <4> QED BY <4>2, <4>4
    <3>3. sum[k] = c(k) + sum[k + 1]
      BY <1>8, <2>6
    <3> QED BY <1>3, <2>4, <3>1, <3>2, <3>3
  <2> QED BY <2>5, <2>6
<1>10. sum[n] = B(n)
  <2>1. n \in n .. (M + 1) /\ M + 1 - n \in Nat /\ n + (M + 1 - n) = M + 1
    BY <1>2
  <2> QED BY <1>9, <2>1
<1> QED BY <1>1, <1>10 DEF B, L

\* The text of a window, and its width, which fits its pixels.
LEMMA WindowFits ==
  ASSUME TextInv
  PROVE  /\ Drawable(text.lines, Text!width(pixels))
         /\ Text!height(pixels) \in Nat
         /\ 8 * Text!width(pixels) + 2 <= pixels.x /\ 16 * Text!height(pixels) + 2 <= pixels.y
         /\ pixels.x \in Nat /\ pixels.y \in Nat
<1> DEFINE w == Text!width(pixels)
           h == Text!height(pixels)
           x == pixels.x
           y == pixels.y
<1>1. x \in Nat /\ y \in Nat /\ y > 1 /\ w \in Nat \ {0}
  BY WindowShape, Zenon DEF TextInv, Text!TextShape
<1>2. Drawable(text.lines, w)
  <2>1. text.lines \in Seq(Seq(Cells))
    BY Zenon DEF TextInv, TextOk, Texts, Lines
  <2>2. Len(text.lines) \in Nat /\ \A n \in 1 .. Len(text.lines) : Len(text.lines[n]) \in Nat
    BY <2>1
  <2> QED BY <1>1, <2>2 DEF Drawable
<1>3. ASSUME NEW a \in Nat PROVE a % 2 ^ 8 \in Nat /\ a % 2 ^ 8 <= a
  <2>1. 2 ^ 8 = 256
    OBVIOUS
  <2> QED BY <2>1
<1>4. /\ w = IF x < 2 THEN 0 ELSE ((x - 2) \div 8) % 2 ^ 8
      /\ h = ((y - 2) \div 16) % 2 ^ 8
  BY Zenon DEF Text!width, Text!height
<1> HIDE DEF w, h, x, y
<1>5. ~ (x < 2) /\ w = ((x - 2) \div 8) % 2 ^ 8
  BY <1>1, <1>4
<1>6. (x - 2) \div 8 \in Nat /\ (y - 2) \div 16 \in Nat
  BY <1>1, <1>5
<1>7. w <= (x - 2) \div 8 /\ h \in Nat /\ h <= (y - 2) \div 16
  BY <1>3, <1>4, <1>5, <1>6
<1>8. 8 * w + 2 <= x
  BY <1>1, <1>5, <1>6, <1>7
<1>9. 16 * h + 2 <= y
  BY <1>1, <1>6, <1>7
<1> QED BY <1>1, <1>2, <1>7, <1>8, <1>9 DEF w, h, x, y

\* Where a character of a line is.
LEMMA CharPlaced ==
  ASSUME NEW L, NEW w, Drawable(L, w), NEW n \in 1 .. Len(L), NEW i \in 1 .. Len(L[n]), NEW j \in Nat
  PROVE  /\ (i - 1) \div w \in Nat /\ (i - 1) % w \in 0 .. w - 1
         /\ (i - 1) \div w = j <=> (j * w < i /\ i <= j * w + w)
         /\ (i - 1) \div w = j => /\ (i - 1) % w = i - j * w - 1
                                  /\ IsRow(L, w, n, j)
<1> DEFINE l == Len(L[n])
           a == i - 1
<1>1. l \in Nat /\ w \in Nat \ {0} /\ i \in 1 .. l
  BY DEF Drawable
<1>2. a \in Nat /\ a = i - 1 /\ i = a + 1 /\ a < l /\ i \in Nat
  BY <1>1
<1> HIDE DEF l, a
<1>3. /\ a \div w \in Nat /\ (a \div w) * w \in Nat
      /\ (a \div w) * w <= a /\ a < (a \div w) * w + w /\ a % w = a - (a \div w) * w
  BY <1>1, <1>2, Divided
<1>4. a % w \in 0 .. w - 1
  BY <1>1, <1>2
<1>5. j * w \in Nat
  BY <1>1
<1>6. a \div w = j <=> (j * w < i /\ i <= j * w + w)
  <2>1. j * w < i /\ i <= j * w + w <=> j * w <= a /\ a < j * w + w
    BY <1>1, <1>2, <1>5
  <2>2. a \div w = j => j * w <= a /\ a < j * w + w
    BY <1>3, Zenon
  <2>3. j * w <= a /\ a < j * w + w => a \div w = j
    BY <1>1, <1>2, Quotient
  <2> QED BY <2>1, <2>2, <2>3, Zenon
<1>7. ASSUME a \div w = j PROVE a % w = i - j * w - 1 /\ IsRow(L, w, n, j)
  <2>1. a % w = a - j * w /\ j * w <= a
    BY <1>3, <1>7, Zenon
  <2>2. a % w = i - j * w - 1 /\ j * w < l
    BY <1>1, <1>2, <1>5, <2>1
  <2>3. j < RowsOfLine(l, w)
    BY <1>1, <2>2, RowBegins
  <2> QED BY <2>2, <2>3, Zenon DEF IsRow, l
<1> QED BY <1>2, <1>3, <1>4, <1>6, <1>7, Zenon

\* The place of a row of the text on the screen.
LEMMA RowPlaced ==
  ASSUME NEW L, NEW w, Drawable(L, w), NEW n, NEW j, IsRow(L, w, n, j), NEW used \in Nat,
         NEW later, later = Cardinality(RowsAfter(L, w, n, j))
  PROVE  /\ used - Below(L, w, n) + j = used - later - 1 /\ used - Below(L, w, n) + j < used
         /\ used - Below(L, w, n) + j \in Int
         /\ used - Below(L, w, n) + j >= 0 <=> later < used
<1> DEFINE b == Below(L, w, n)
           c == RowsOfLine(Len(L[n]), w)
<1>1. n \in 1 .. Len(L) /\ j \in Nat /\ j < c
  BY Zenon DEF IsRow
<1>2. /\ c \in Nat /\ b \in Nat /\ b = c + Below(L, w, n + 1) /\ Below(L, w, n + 1) \in Nat
      /\ \A k \in 0 .. c - 1 : Cardinality(RowsAfter(L, w, n, k)) = b - 1 - k
  BY <1>1, BelowIs
<1> HIDE DEF b, c
<1>3. j \in 0 .. c - 1
  BY <1>1, <1>2
<1>4. later = b - 1 - j
  BY <1>2, <1>3
<1>5. b \in Nat /\ b > j
  <2> DEFINE r == Below(L, w, n + 1)
  <2>1. c \in Nat /\ b \in Nat /\ b = c + r /\ r \in Nat
    BY <1>2
  <2> HIDE DEF r
  <2> QED BY <1>1, <2>1
<1> HIDE DEF c
<1>6. /\ used - b + j = used - later - 1 /\ used - b + j < used /\ used - b + j \in Int
      /\ used - b + j >= 0 <=> later < used
  BY <1>1, <1>4, <1>5
<1> QED BY <1>6 DEF b

\* The screen shows the end of the text, row by row, in a window of any size.
LEMMA DrawnIs == TextInv => DrawnExact
<1> SUFFICES ASSUME TextInv PROVE DrawnExact
  OBVIOUS
<1> DEFINE L == text.lines
           w == Text!width(pixels)
           h == Text!height(pixels)
           R == Text!Rows
           A(n, j) == Text!Later(n, j)
           used == IF Text!Cardinality(R) < h THEN Text!Cardinality(R) ELSE h
           spot(n, i) == [x |-> (i - 1) % w, y |-> used - Below(L, w, n) + ((i - 1) \div w),
                          cell |-> L[n][i]]
           place(p, i) == [x |-> i - p[2] * w - 1, y |-> used - A(p[1], p[2]) - 1,
                           cell |-> L[p[1]][i]]
           spot0(n, i) == [x |-> (i - 1) % w, y |-> used - Text!rowsFrom(n, w) + ((i - 1) \div w),
                           cell |-> L[n][i]]
           Drawn == {d \in UNION {{spot(n, i) : i \in 1 .. Len(L[n])} : n \in 1 .. Len(L)} : d.y >= 0}
           Shown == UNION {{place(p, i) : i \in {k \in 1 .. Len(L[p[1]]) :
                                                    p[2] * w < k /\ k <= p[2] * w + w}}
                           : p \in {q \in R : A(q[1], q[2]) < used}}
<1>1. /\ Drawable(L, w) /\ h \in Nat /\ w \in Nat \ {0} /\ Len(L) \in Nat
      /\ 8 * w + 2 <= pixels.x /\ 16 * h + 2 <= pixels.y /\ pixels.x \in Nat /\ pixels.y \in Nat
  BY WindowFits DEF Drawable
<1>2. R = RowsOf(L, w) /\ \A n, j : A(n, j) = Cardinality(RowsAfter(L, w, n, j))
  <2>1. Text!Rows = RowsOf(L, w)
    BY Zenon DEF Text!Rows, RowsOf
  <2> QED BY <2>1, CountsAgree, Zenon DEF Text!Later, RowsAfter
<1>3. \A n \in 1 .. Len(L) + 1 : Text!rowsFrom(n, w) = Below(L, w, n)
  BY <1>1, RowsSummed
<1>4. Text!Cardinality(R) = Below(L, w, 1) /\ Text!Cardinality(R) \in Nat
  BY <1>1, <1>2, BelowIs, CountsAgree
<1>5. Text!DrawnCells = Drawn
  <2>1. Text!rowsFrom(1, w) = Text!Cardinality(R)
    <3>1. 1 \in 1 .. Len(L) + 1
      BY <1>1
    <3> QED BY <1>3, <1>4, <3>1
  <2>2. (IF Text!rowsFrom(1, w) >= h THEN h ELSE Text!rowsFrom(1, w)) = used
    BY <1>1, <1>4, <2>1
  <2>3. \A n \in 1 .. Len(L) : Text!rowsFrom(n, w) = Below(L, w, n)
    <3>1. \A n \in 1 .. Len(L) : n \in 1 .. Len(L) + 1
      BY <1>1
    <3> QED BY <1>3, <3>1
  <2>4. w # 0
    BY <1>1
  <2> HIDE DEF used
  <2>5. Text!send = UNION {{spot0(n, i) : i \in 1 .. Len(L[n])} : n \in 1 .. Len(L)}
    <3> DEFINE u == IF Text!rowsFrom(1, w) >= h THEN h ELSE Text!rowsFrom(1, w)
               S(v) == UNION {{[x |-> (i - 1) % w, y |-> v - Text!rowsFrom(n, w) + ((i - 1) \div w),
                                cell |-> L[n][i]] : i \in 1 .. Len(L[n])} : n \in 1 .. Len(L)}
    <3>1. Text!send = IF w = 0 THEN {} ELSE S(u)
      BY DEF Text!send
    <3> HIDE DEF S, w
    <3>2. Text!send = S(u)
      BY <2>4, <3>1, Zenon
    <3>3. Text!send = S(used)
      BY <2>2, <3>2, Zenon
    <3> QED BY <3>3, Zenon DEF S
  <2>6. \A n \in 1 .. Len(L) : \A i : spot0(n, i) = spot(n, i)
    BY <2>3, Zenon
  <2> HIDE DEF spot, spot0
  <2>7. UNION {{spot0(n, i) : i \in 1 .. Len(L[n])} : n \in 1 .. Len(L)}
          = UNION {{spot(n, i) : i \in 1 .. Len(L[n])} : n \in 1 .. Len(L)}
    BY <2>6
  <2> QED BY <2>5, <2>7, Zenon DEF Text!DrawnCells
<1>6. used \in Nat /\ used <= h
  BY <1>1, <1>4
<1> HIDE DEF used, L, w, h, R, A
<1>7. ASSUME NEW n \in 1 .. Len(L), NEW i \in 1 .. Len(L[n]), spot(n, i).y >= 0
      PROVE  /\ spot(n, i) \in Shown
             /\ 8 * spot(n, i).x + 9 < pixels.x /\ 16 * spot(n, i).y + 17 < pixels.y
  <2> DEFINE j == (i - 1) \div w
  <2>0. j \in Nat /\ (i - 1) \div w = j
    <3>1. 0 \in Nat
      OBVIOUS
    <3> QED BY <1>1, <3>1, CharPlaced, Zenon
  <2> HIDE DEF j
  <2>1. /\ j \in Nat /\ (i - 1) % w \in 0 .. w - 1 /\ (i - 1) % w = i - j * w - 1
        /\ j * w < i /\ i <= j * w + w /\ IsRow(L, w, n, j)
    <3>1. Drawable(L, w)
      BY <1>1
    <3>2. (i - 1) \div w = j <=> (j * w < i /\ i <= j * w + w)
      BY <2>0, <3>1, CharPlaced
    <3>3. (i - 1) \div w = j => /\ (i - 1) % w = i - j * w - 1
                               /\ IsRow(L, w, n, j)
      BY <2>0, <3>1, CharPlaced
    <3>4. (i - 1) % w \in 0 .. w - 1
      BY <2>0, <3>1, CharPlaced
    <3> QED BY <2>0, <3>2, <3>3, <3>4, Zenon
  <2>2. <<n, j>> \in R
    BY <1>1, <1>2, <2>1, RowsAre, Zenon
  <2>3. /\ used - Below(L, w, n) + j = used - A(n, j) - 1 /\ used - Below(L, w, n) + j < used
        /\ used - Below(L, w, n) + j \in Int
        /\ used - Below(L, w, n) + j >= 0 <=> A(n, j) < used
    <3>1. A(n, j) = Cardinality(RowsAfter(L, w, n, j))
      BY <1>2
    <3> QED BY <1>1, <1>6, <2>1, <3>1, RowPlaced
  <2>4. spot(n, i).x = (i - 1) % w /\ spot(n, i).y = used - Below(L, w, n) + j
    BY DEF j
  <2>5. A(n, j) < used
    BY <1>7, <2>3, <2>4
  <2>6. spot(n, i) = place(<<n, j>>, i)
    BY <2>1, <2>3 DEF j
  <2> HIDE DEF spot, place, A
  <2>7. spot(n, i) \in Shown
    BY <2>1, <2>2, <2>5, <2>6
  <2>8. 8 * spot(n, i).x + 9 < pixels.x
    <3>1. spot(n, i).x \in 0 .. w - 1
      BY <2>1, <2>4
    <3> QED BY <1>1, <3>1
  <2>9. 16 * spot(n, i).y + 17 < pixels.y
    <3>1. spot(n, i).y < used /\ spot(n, i).y \in Int
      BY <2>3, <2>4
    <3> QED BY <1>1, <1>6, <3>1
  <2> QED BY <2>7, <2>8, <2>9
<1>8. ASSUME NEW p \in R, A(p[1], p[2]) < used, NEW i \in 1 .. Len(L[p[1]]),
             p[2] * w < i, i <= p[2] * w + w
      PROVE  p[1] \in 1 .. Len(L) /\ place(p, i) = spot(p[1], i) /\ spot(p[1], i).y >= 0
  <2> DEFINE n == p[1]
             j == p[2]
  <2>1. IsRow(L, w, n, j) /\ n \in 1 .. Len(L) /\ j \in Nat
    BY <1>1, <1>2, RowsAre, Zenon DEF IsRow
  <2>2. (i - 1) \div w = j /\ (i - 1) % w = i - j * w - 1
    <3>1. i \in 1 .. Len(L[n]) /\ j * w < i /\ i <= j * w + w
      BY <1>8
    <3> HIDE DEF n, j
    <3> QED BY <1>1, <2>1, <3>1, CharPlaced
  <2>3. /\ used - Below(L, w, n) + j = used - A(n, j) - 1
        /\ used - Below(L, w, n) + j >= 0
    <3>1. A(n, j) < used
      BY <1>8
    <3> HIDE DEF n, j
    <3>2. A(n, j) = Cardinality(RowsAfter(L, w, n, j))
      BY <1>2
    <3> QED BY <1>1, <1>6, <2>1, <3>1, <3>2, RowPlaced
  <2>4. spot(n, i) = [x |-> i - j * w - 1, y |-> used - A(n, j) - 1, cell |-> L[n][i]]
    <3> HIDE DEF n, j, A
    <3> QED BY <2>2, <2>3
  <2>5. spot(n, i).y = used - Below(L, w, n) + j
    <3> HIDE DEF n, j, A
    <3> QED BY <2>2
  <2>6. place(p, i) = spot(n, i)
    BY <2>4, Zenon
  <2>7. spot(n, i).y >= 0
    BY <2>3, <2>5, Zenon
  <2> QED BY <2>1, <2>6, <2>7, Zenon
<1>9. Drawn = Shown
  <2>1. ASSUME NEW d \in Drawn PROVE d \in Shown
    <3> HIDE DEF spot
    <3>0. PICK n \in 1 .. Len(L) : \E i \in 1 .. Len(L[n]) : d = spot(n, i) /\ d.y >= 0
      BY Zenon
    <3>1. PICK i \in 1 .. Len(L[n]) : d = spot(n, i) /\ d.y >= 0
      BY <3>0
    <3> HIDE DEF spot, Shown
    <3> QED BY <1>7, <3>1
  <2>2. ASSUME NEW d \in Shown PROVE d \in Drawn
    <3> HIDE DEF spot, place, A
    <3>0. PICK p \in R : \E i \in 1 .. Len(L[p[1]]) :
            /\ d = place(p, i) /\ A(p[1], p[2]) < used /\ p[2] * w < i /\ i <= p[2] * w + w
      BY Zenon
    <3>1. PICK i \in 1 .. Len(L[p[1]]) :
            /\ d = place(p, i) /\ A(p[1], p[2]) < used /\ p[2] * w < i /\ i <= p[2] * w + w
      BY <3>0
    <3>2. d = spot(p[1], i) /\ d.y >= 0 /\ p[1] \in 1 .. Len(L)
      BY <1>8, <3>1, Zenon
    <3> QED BY <3>2
  <2> HIDE DEF Drawn, Shown
  <2> QED BY <2>1, <2>2
<1>10. \A d \in Drawn : 8 * d.x + 9 < pixels.x /\ 16 * d.y + 17 < pixels.y
  <2> TAKE d \in Drawn
  <2> HIDE DEF spot
  <2>0. PICK n \in 1 .. Len(L) : \E i \in 1 .. Len(L[n]) : d = spot(n, i) /\ d.y >= 0
    BY Zenon
  <2>1. PICK i \in 1 .. Len(L[n]) : d = spot(n, i) /\ d.y >= 0
    BY <2>0
  <2> HIDE DEF spot, Shown
  <2> QED BY <1>7, <2>1
<1>11. Text!DrawnCells = Shown
  BY <1>5, <1>9, Zenon
<1>12. \A d \in Text!DrawnCells : 8 * d.x + 9 < pixels.x /\ 16 * d.y + 17 < pixels.y
  BY <1>5, <1>10, Zenon
<1> HIDE DEF Drawn
<1> QED BY <1>11, <1>12, Zenon DEF DrawnExact, Text!DrawnExact, L, w, h, used, A, R

\* The screen shows the end of the text, row by row without a gap, and nothing outside the
\* window, whatever is written and typed, of any size that the window is given (send).
THEOREM DrawingStaysExact == MCSpec => []DrawnExact
<1>1. TextInv => DrawnExact
  BY DrawnIs
<1> QED BY <1>1, TextAlways, PTL
==============================================================================
