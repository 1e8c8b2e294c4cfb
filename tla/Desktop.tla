------------------------------ MODULE Desktop ------------------------------
(* Workspaces and windows (Graphics/Workspace.cpp, Window.cpp) driven by      *)
(* kloop (kmain.cpp): it empties the keyboard, then the mouse, and hands each *)
(* event to the active workspace.  System calls of user programs create and   *)
(* destroy windows between two runs of kloop.                                 *)
(*                                                                           *)
(* A window is the memory block it lives in: a block that was freed may hold  *)
(* the next window.  Where windows are and how big they are is abstracted:    *)
(* the window under the pointer is any window of the workspace, or none.      *)
EXTENDS Keyboard, SequencesExt

CONSTANTS Window,     \* blocks for windows
          NoWindow,   \* the null pointer
          NbWs,       \* Workspace::_totalNumber (10)
          InitialWins,\* the windows of each workspace after kinit
          KernelWins, \* those that the kernel owns
          Fkey,       \* the F1..F10 scan codes used: code -> its rank, 1 to 10
          Buttons,    \* the states of the mouse buttons used
          MaxMouse    \* bound: mouse events waiting

Ws == 0 .. NbWs - 1

ASSUME DesktopAssumption ==
  /\ NbWs \in 1 .. 10 /\ NoWindow \notin Window
  /\ InitialWins \in [Ws -> Seq(Window)]
  /\ \A n \in Ws : IsInjective(InitialWins[n])
  /\ \A m, n \in Ws : m # n => ToSet(InitialWins[m]) \intersect ToSet(InitialWins[n]) = {}
  /\ \A c \in DOMAIN Fkey : Fkey[c] \in Nat /\ Fkey[c] % 10 \in Ws
  /\ \A B \in Buttons : B \subseteq {"left", "right"}

VARIABLES pc,          \* "user", or the loop of kloop that runs: "keys", "mouse"
          wins,        \* Workspace::_wins; the first has the focus
          wsOf,        \* Window::_ws of each block
          alive,       \* the blocks that hold a window
          active,      \* Workspace::active
          superState,  \* _superState of each workspace
          grab,        \* _state and, unless it is NORMAL, _currentWindow
          mouseQueue,  \* Mouse::_deque: the events in it
          mouseSize,   \* ... and its _size
          lastPressed, \* Mouse::_lastPressed
          stale        \* ghost: windows removed while not in their workspace

deskVars == <<wins, wsOf, alive, active, superState, grab, stale>>
mouseVars == <<mouseQueue, mouseSize, lastPressed>>
vars == <<kbdVars, deskVars, mouseVars, pc>>

\* _currentWindow is compared with the window in front, and only where _state
\* is not NORMAL: it may point to a block that was freed.
Normal == [state |-> "normal", win |-> NoWindow]
Moving(w) == [state |-> "moving", win |-> w]
Resizing(w) == [state |-> "resizing", win |-> w]

Init ==
  /\ KeyboardInit
  /\ pc = "user"
  /\ wins = InitialWins
  /\ alive = UNION {ToSet(InitialWins[n]) : n \in Ws}
  /\ wsOf = [w \in Window |-> IF \E n \in Ws : w \in ToSet(InitialWins[n])
                              THEN CHOOSE n \in Ws : w \in ToSet(InitialWins[n])
                              ELSE 0]
  /\ active = 1 % NbWs
  /\ superState = [n \in Ws |-> FALSE]
  /\ grab = [n \in Ws |-> Normal]
  /\ mouseQueue = <<>> /\ mouseSize = 0 /\ lastPressed = {}
  /\ stale = FALSE

Focused(n) == IF wins[n] = <<>> THEN NoWindow ELSE Head(wins[n])

\* Where the search from the front finds window w in list s.
Place(s, w) == CHOOSE i \in DOMAIN s : s[i] = w /\ \A j \in 1 .. i - 1 : s[j] # w

-----------------------------------------------------------------------------
(* Keyboard events.                                                          *)

Held(ms) == "win" \in ms
ToFront(s, w) == <<w>> \o s
Rotate(s) == Append(Tail(s), Head(s))

\* Workspace::handleEventOnMe for a key of the active workspace: Win+Tab
\* cycles the windows, and the state follows the Win key.
keyOnMe(sc, ms) ==
  /\ wins' = IF Held(ms) /\ sc = Make("tab") /\ wins[active] # <<>>
               THEN [wins EXCEPT ![active] = Rotate(@)] ELSE wins
  /\ superState' = [superState EXCEPT ![active] = Held(ms)]
  /\ grab' = IF Held(ms) THEN grab ELSE [grab EXCEPT ![active] = Normal]
  /\ UNCHANGED <<wsOf, alive, active, stale>>

\* The workspace that F1..F10 stand for.
workspaceNum(sc) == Fkey[sc.code] % 10

\* Mutant of moveWindow: the window is not told its new workspace.
moveWindowUntold(n) ==
  /\ IF wins[active] = <<>> THEN UNCHANGED wins
     ELSE wins' = [[wins EXCEPT ![active] = Tail(@)]
                     EXCEPT ![n] = ToFront(@, Focused(active))]
  /\ UNCHANGED wsOf

\* Win+Shift+Fn: the window in front moves to the front of workspace n.
moveWindow(n) ==
  IF wins[active] = <<>> THEN UNCHANGED <<wins, wsOf>>
  ELSE /\ wins' = [[wins EXCEPT ![active] = Tail(@)]
                     EXCEPT ![n] = ToFront(@, Focused(active))]
       /\ wsOf' = [wsOf EXCEPT ![Focused(active)] = n]

\* Mutant of IsCommand: an F key alone switches the workspace.
IsCommandAlone(sc, ms) == ~sc.release /\ sc.code \in DOMAIN Fkey

\* A key that handleEvent keeps for itself.
IsCommand(sc, ms) == Held(ms) /\ ~sc.release /\ sc.code \in DOMAIN Fkey

\* Workspace::handleEvent for key sc with modifiers ms.
handleKey(sc, ms) ==
  \/ /\ IsCommand(sc, ms)
     /\ IF "shift" \in ms
          THEN moveWindow(workspaceNum(sc)) /\ UNCHANGED active
          ELSE active' = workspaceNum(sc) /\ UNCHANGED <<wins, wsOf>>
     /\ UNCHANGED <<alive, superState, grab, stale>>
  \/ ~IsCommand(sc, ms) /\ keyOnMe(sc, ms)

-----------------------------------------------------------------------------
(* Mouse events: [pressed, changed].  It is the packets of the mouse that     *)
(* make them (mouseint, Mouse::handleByte).                                   *)

\* A packet with another state of the buttons: one more event.
mouseint(B) ==
  /\ ~stopped /\ pc = "mouse" /\ B # lastPressed /\ Len(mouseQueue) < MaxMouse
  /\ mouseQueue' = Append(mouseQueue, [pressed |-> B,
                      changed |-> (B \ lastPressed) \union (lastPressed \ B)])
  /\ mouseSize' = mouseSize + 1
  /\ lastPressed' = B
  /\ UNCHANGED <<kbdVars, deskVars, pc>>

JustPressed(e, b) == b \in e.pressed /\ b \in e.changed

\* The state after the first test of handleEventOnMe: a button that goes down
\* with Win held grabs the window in front.
Grabbed(e) ==
  IF ~superState[active] \/ wins[active] = <<>> THEN grab[active]
  ELSE IF JustPressed(e, "left") THEN Moving(Focused(active))
  ELSE IF JustPressed(e, "right") THEN Resizing(Focused(active))
  ELSE IF e.pressed = {} THEN Normal
  ELSE grab[active]

\* Whether the event then moves or resizes the window in front.
Drags(e) == superState[active] /\ wins[active] # <<>>
              /\ Grabbed(e).win = Focused(active)

\* A click on window w raises it: those before it go to the back.
Raised(e, w) ==
  IF w # NoWindow /\ e.pressed \intersect e.changed # {}
    THEN LET s == wins[active]
             k == Place(s, w)
         IN SubSeq(s, k, Len(s)) \o SubSeq(s, 1, k - 1)
    ELSE wins[active]

\* Workspace::handleEventOnMe for mouse event e over window w of the active
\* workspace, or over none.
handleMouse(e, w) ==
  /\ w \in ToSet(wins[active]) \union {NoWindow}
  /\ grab' = [grab EXCEPT ![active] = IF Drags(e) THEN Grabbed(e) ELSE Normal]
  /\ wins' = [wins EXCEPT ![active] = Raised(e, w)]
  /\ UNCHANGED <<wsOf, alive, active, superState, stale>>

\* Mouse::poll: pop_front, and the event.  An interrupt between the load and
\* the store of _size adds an event and its increment is lost.
pollMouse ==
  /\ ~stopped /\ pc = "mouse" /\ mouseSize > 0
  /\ \E w \in Window \union {NoWindow} : handleMouse(mouseQueue[1], w)
  /\ mouseSize' = mouseSize - 1
  /\ \/ mouseQueue' = Tail(mouseQueue) /\ UNCHANGED lastPressed
     \/ \E B \in Buttons \ {lastPressed} :
          /\ Len(mouseQueue) < MaxMouse
          /\ mouseQueue' = Append(Tail(mouseQueue), [pressed |-> B,
                      changed |-> (B \ lastPressed) \union (lastPressed \ B)])
          /\ lastPressed' = B
  /\ UNCHANGED <<kbdVars, pc>>

-----------------------------------------------------------------------------
(* kloop.                                                                    *)

enterKloop ==
  /\ ~stopped /\ pc = "user" /\ pc' = "keys"
  /\ UNCHANGED <<kbdVars, deskVars, mouseVars>>

pollKey ==
  /\ pc = "keys"
  /\ \/ LoadPop /\ UNCHANGED deskVars
     \/ StoreFirst /\ UNCHANGED deskVars
     \/ StoreLast /\ handleKey(load.sc, mods')
  /\ UNCHANGED <<mouseVars, pc>>

keysDone ==
  /\ ~stopped /\ pc = "keys" /\ load = NoLoad /\ NothingToPoll
  /\ pc' = "mouse"
  /\ UNCHANGED <<kbdVars, deskVars, mouseVars>>

\* The queue is empty: the last event tells where the mouse is.
pollLast ==
  /\ ~stopped /\ pc = "mouse" /\ mouseSize = 0
  /\ \E w \in Window \union {NoWindow} :
        handleMouse([pressed |-> lastPressed, changed |-> {}], w)
  /\ pc' = "user"
  /\ UNCHANGED <<kbdVars, mouseVars>>

-----------------------------------------------------------------------------
(* System calls and the end of a window.                                     *)

\* sysopenwin, sysopentwin: a new window, in front of workspace n.
openWindow(n, w) ==
  /\ ~stopped /\ pc = "user" /\ w \notin alive
  /\ alive' = alive \union {w}
  /\ wins' = [wins EXCEPT ![n] = ToFront(@, w)]
  /\ wsOf' = [wsOf EXCEPT ![w] = n]
  /\ UNCHANGED <<kbdVars, mouseVars, pc, active, superState, grab, stale>>

\* Workspace::remWin of a window that is in list s.
remWin(s, w) == RemoveAt(s, Place(s, w))

\* The last descriptor of a window is closed: ~Window takes it out of the
\* workspace it was told of, where it must be (the assertion of remWin).
closeWindow(w) ==
  /\ ~stopped /\ pc = "user" /\ w \in alive \ KernelWins
  /\ IF w \in ToSet(wins[wsOf[w]])
       THEN /\ wins' = [wins EXCEPT ![wsOf[w]] = remWin(@, w)]
            /\ alive' = alive \ {w}
            /\ UNCHANGED <<stopped, stale>>
       ELSE stopped' = TRUE /\ stale' = TRUE /\ UNCHANGED <<wins, alive>>
  /\ UNCHANGED <<queueVars, load, mods, held, rest, pending, lost, overrun>>
  /\ UNCHANGED <<mouseVars, pc, wsOf, active, superState, grab>>

\* Only pollSC reads the keyboard's queue and only Mouse::poll the mouse's: an
\* interrupt that comes at another time has the effect it has when the loop that
\* polls its queue begins, and is modelled there.
keyboard == pc = "keys" /\ KeyInterrupt /\ UNCHANGED <<deskVars, mouseVars, pc>>

Next ==
  \/ keyboard
  \/ \E B \in Buttons : mouseint(B)
  \/ enterKloop \/ pollKey \/ keysDone \/ pollMouse \/ pollLast
  \/ \E n \in Ws, w \in Window : openWindow(n, w)
  \/ \E w \in Window : closeWindow(w)

Spec == Init /\ [][Next]_vars

-----------------------------------------------------------------------------
(* Properties.                                                               *)

\* Every byte that the keyboard sent and the kernel did not take is in the
\* queue, in the order it was sent, whatever the handler interrupts
\* (Keyboard.cpp:12 "Code qui peut etre modifie par une interruption"), also
\* after an increment of _size was lost: a byte may come late, but none is
\* lost, doubled or overtaken, and the modifiers that poll computes are those
\* held once all is taken.  This ends where a byte is written over (overrun): that
\* takes a full ring and a lost increment, after which _size is too small for the
\* assertion of push_back (Deque.h:17) for ever.
KeysInOrder == KeyboardTypeOK /\ RingIsPending /\ ModifiersAgree

\* Each window is in the list of one workspace, once, and it is the workspace
\* that Window::_ws names: the destructor finds it (the assertion of remWin),
\* whatever moved, cycled or raised windows before.
WindowsPlaced ==
  /\ \A w \in alive : /\ w \in ToSet(wins[wsOf[w]])
                      /\ \A n \in Ws \ {wsOf[w]} : w \notin ToSet(wins[n])
  /\ \A n \in Ws : IsInjective(wins[n]) /\ ToSet(wins[n]) \subseteq alive
  /\ ~stale

\* A mouse event moves or resizes a window only with the Win key held and a
\* button down, and then a window that exists: _superState and _state are per
\* workspace and miss the keys typed while another workspace is active, and
\* _currentWindow outlives its window (Workspace.cpp:72-119).
NoStrayDrag ==
  pc = "mouse" =>
    LET next == IF mouseSize > 0 THEN mouseQueue[1]
                ELSE [pressed |-> lastPressed, changed |-> {}]
    IN Drags(next) => /\ Held(mods) /\ next.pressed # {}
                      /\ Focused(active) \in alive
=============================================================================
