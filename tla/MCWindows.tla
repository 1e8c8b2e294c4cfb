----------------------------- MODULE MCWindows -----------------------------
(***************************************************************************)
(* The desktop, and a text window on it.  A behaviour is one of the desktop *)
(* (two workspaces; the keys Win, an extended code, Shift, Tab, F1 and F10; *)
(* the right button, which resizes, and both) or one of the window (2 x 3  *)
(* or 1 x 2 characters inside the edge), which share no state.             *)
(***************************************************************************)
EXTENDS Desktop, TLC

CONSTANTS LineNum, Sizes, Keys, Scripts, Counts, Reader, MaxKeys, MaxScripts

VARIABLES text, pixels, keyboardBuffer, inputBuffer, reader, out, failed, typed, got, from,
          scripts,
          machine     \* the part that runs in this behaviour

Text == INSTANCE TextWindow WITH stopped <- failed

ASSUME WindowShape == Text!TextShape

textVars == <<text, pixels, keyboardBuffer, inputBuffer, reader, out, failed, typed, got,
              from, scripts>>

MCInit ==
    /\ Init /\ Text!Init /\ machine \in {"desktop", "text"}
    /\ machine = "desktop" => pixels = CHOOSE s \in Sizes : \A t \in Sizes : s.y <= t.y

\* Bound: interrupts of the keyboard fall between a load and a store, where an increment
\* is lost or the kernel stops, only while windows and mouse are as they were at the start.
AtStart == /\ wins = InitialWins /\ active = 1 % NbWs /\ \A w \in Window : wsOf[w] = 0
           /\ \A n \in Ws : grab[n] = Normal /\ (n # active => ~superState[n])
           /\ mouseQueue = <<>> /\ lastPressed = {}
Lossy == lost > 0 \/ (load # NoLoad /\ (size > load.size \/ stopped))
Bounded == Lossy' => AtStart'

MCNext ==
    \/ machine = "desktop" /\ Next /\ Bounded /\ UNCHANGED <<textVars, machine>>
    \/ machine = "text" /\ Text!Next /\ UNCHANGED <<vars, machine>>

MCSpec == MCInit /\ [][MCNext]_<<vars, textVars, machine>>

\* The properties of the text window, which TextWindow states.
TextSound == Text!TextSound
LinesTyped == Text!LinesTyped
EchoShown == Text!EchoShown
DrawnExact == Text!DrawnExact

Typed == {Make("tab"), Make("f1"), Make("f10")}
FkeyDef == ("f1" :> 1) @@ ("f10" :> 10)
NoWins == [n \in 0 .. 1 |-> <<>>]
ButtonStates == {{}, {"right"}, {"left", "right"}}
PixelSizes == {[x |-> 26, y |-> 34], [x |-> 18, y |-> 18]}
Writes == {<<"nl", "a">>, <<"bs">>, <<"ff">>, <<"cr", "a">>, <<"tab", "a">>,
           <<"esc", "[", "3", "2", "m", "a">>, <<"esc", "nl">>,
           <<"esc", "[", "3", "8", "m">>}
Interchangeable == Permutations(Window) \union Permutations(Reader)
=============================================================================
