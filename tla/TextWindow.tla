----------------------------- MODULE TextWindow -----------------------------
(***************************************************************************)
(* A text window (Graphics/TextWindow.cpp): the lines a program writes,    *)
(* with control characters and escape sequences, and the lines the user    *)
(* types, which are echoed through the same parser.  Programs write byte   *)
(* by byte, so that keys fall between the bytes of an escape sequence.     *)
(*                                                                         *)
(* The deques and vectors are sequences (Containers).  A colour is the     *)
(* kind of command that chose it; brightness is left out.                  *)
(***************************************************************************)
EXTENDS Integers, Sequences, FiniteSets, SequencesExt

CONSTANTS LineNum,     \* TextWindow::LineNum, the lines that are kept (256)
          Sizes,       \* the sizes in pixels that the window may get
          Keys,        \* what the user types: symbols of the keymap
          Scripts,     \* what the program writes
          Counts,      \* how many bytes it reads at once
          Reader,      \* its threads
          MaxKeys, MaxScripts \* bounds on keys typed and scripts written

VARIABLES text,        \* lines, cursor, format, parser: see Blank below
          pixels,      \* _size in pixels; _width and _height follow from it
          keyboardBuffer, inputBuffer,
          reader,      \* each thread: [state |-> "no" | "waiting" | "woken", count]
          out,         \* the bytes that the program has still to write
          stopped,     \* a failed assertion or allocation stopped the kernel
          typed,       \* ghost: every key
          got,         \* ghost: every byte read
          from,        \* ghost: the column where the line that is typed began, or None
                       \* if that was not at the end of the text, or the program has
                       \* written something or a tab or a carriage return (the 7 of
                       \* the keypad) was typed since
          scripts      \* scripts written

vars == <<text, pixels, keyboardBuffer, inputBuffer, reader, out, stopped, typed,
          got, from, scripts>>

Default == [fg |-> "default", bg |-> "default", underline |-> FALSE]
Cell(c, f) == [c |-> c, format |-> f]
Space == Cell("space", Default)

\* A text window as it is made.  An x of -1 stands for the column 2^32 - 1.
Blank == [lines |-> <<<<>>>>, x |-> 0, y |-> 0, format |-> Default,
          state |-> "NORMAL", stack |-> <<>>, ok |-> TRUE]

\* _width and _height: u8 of what is inside the edge.
width(s)  == IF s.x < 2 THEN 0 ELSE ((s.x - 2) \div 8) % 2 ^ 8
height(s) == ((s.y - 2) \div 16) % 2 ^ 8

\* The window is as high as its edge and has the width of a character; no key is an escape,
\* a form feed or another control character.
TextShape ==
    /\ LineNum \in Nat \ {0}
    /\ \A s \in Sizes : s.x \in Nat /\ s.y \in Nat /\ s.y > 1 /\ width(s) \in Nat \ {0}
    /\ Keys \subseteq STRING \ {"esc", "ff", "ctl"}
    /\ Scripts \subseteq Seq(STRING) /\ Counts \subseteq Nat

Init ==
    /\ text = Blank /\ pixels \in Sizes
    /\ keyboardBuffer = <<>> /\ inputBuffer = <<>>
    /\ reader = [r \in Reader |-> [state |-> "no", count |-> 0]]
    /\ out = <<>> /\ stopped = FALSE
    /\ typed = <<>> /\ got = <<>> /\ from = 0 /\ scripts = 0

-----------------------------------------------------------------------------
(* putChar: operators on the text t, with the width w. *)

\* Mutant of newLine: the cursor moves down also when the first line goes.
newLineAlwaysDown(t) ==
    IF t.y + 1 = Len(t.lines) /\ Len(t.lines) = LineNum
    THEN [t EXCEPT !.x = 0, !.y = @ + 1, !.lines = Append(Tail(@), <<>>)]
    ELSE [t EXCEPT !.x = 0, !.y = @ + 1,
                   !.lines = IF t.y + 1 = Len(@) THEN Append(@, <<>>) ELSE @]
newLine(t) ==
    IF t.y + 1 = Len(t.lines) /\ Len(t.lines) = LineNum
    THEN [t EXCEPT !.x = 0, !.lines = Append(Tail(@), <<>>)]
    ELSE [t EXCEPT !.x = 0, !.y = @ + 1,
                   !.lines = IF t.y + 1 = Len(@) THEN Append(@, <<>>) ELSE @]

\* Line::write of a cell at the index x: the line grows with spaces.
writeAt(line, x, cell) ==
    [i \in 1..(IF Len(line) <= x THEN x + 1 ELSE Len(line)) |->
        IF i = x + 1 THEN cell ELSE IF i <= Len(line) THEN line[i] ELSE Space]

\* The assertion of at() fails past the last line; a line of 2^32 cells is more
\* than there is memory.
addPrintableChar(t, c) ==
    IF t.y >= Len(t.lines) \/ t.x < 0 THEN [t EXCEPT !.ok = FALSE]
    ELSE [t EXCEPT !.lines[t.y + 1] = writeAt(@, t.x, Cell(c, t.format)), !.x = @ + 1]

error(t) == addPrintableChar(addPrintableChar([t EXCEPT !.state = "NORMAL"], "~"), "~")

backspace(t, w) ==
    IF t.x = 0 THEN [t EXCEPT !.x = w - 1, !.y = IF @ > 0 THEN @ - 1 ELSE @]
    ELSE [t EXCEPT !.x = @ - 1]

\* A character where no escape sequence is open.
putNormal(t, c, w) ==
    CASE c = "esc" -> [t EXCEPT !.state = "WAITINGOB"]
      [] c = "nl"  -> newLine(t)
      [] c = "tab" -> LET spaces[n \in 0..4] ==
                              IF n = 0 THEN t ELSE addPrintableChar(spaces[n - 1], "space")
                      IN  spaces[4 - (t.x % 4)]
      [] c = "bs"  -> backspace(t, w)
      [] c = "cr"  -> [t EXCEPT !.x = 0]
      [] c = "ff"  -> [newLine(t) EXCEPT !.x = t.x]
      [] c = "ctl" -> error(t)
      [] OTHER     -> addPrintableChar(t, c)

\* The format that a command with the parameters p makes of f: 38 and 48 test for five
\* and read the last three of six.
commanded(f, p) ==
    LET rgb == IF Len(p) = 5 THEN "junk" ELSE "rgb"
    IN  CASE p[1] = 0  -> Default
          [] p[1] = 4  -> [f EXCEPT !.underline = TRUE]
          [] p[1] = 24 -> [f EXCEPT !.underline = FALSE]
          [] p[1] = 7  -> [f EXCEPT !.fg = f.bg, !.bg = f.fg]
          [] p[1] \in 30..37 -> [f EXCEPT !.fg = "palette"]
          [] p[1] \in 40..47 -> [f EXCEPT !.bg = "palette"]
          [] p[1] = 38 -> [f EXCEPT !.fg = rgb]
          [] p[1] = 48 -> [f EXCEPT !.bg = rgb]
          [] p[1] = 39 -> [f EXCEPT !.fg = "default"]
          [] p[1] = 49 -> [f EXCEPT !.bg = "default"]
          [] OTHER -> f

SGR(t) ==
    LET p == t.stack
    IN  IF p[1] \in {38, 48} /\ (Len(p) < 5 \/ p[2] # 2) THEN error(t)
        ELSE [t EXCEPT !.format = commanded(t.format, p)]

Digits == <<"0", "1", "2", "3", "4", "5", "6", "7", "8", "9">>
val(c) == (CHOOSE i \in 1..10 : Digits[i] = c) - 1
\* A digit of the last parameter.
addDigit(p, c) == [p EXCEPT ![Len(p)] = 10 * @ + val(c)]

\* putChar.
putChar(t, c, w) ==
    CASE t.state = "NORMAL" -> putNormal(t, c, w)
      [] t.state = "WAITINGOB" /\ c = "[" -> [t EXCEPT !.stack = <<0>>, !.state = "ESCAPE"]
      [] t.state = "ESCAPE" /\ c \in ToSet(Digits) -> [t EXCEPT !.stack = addDigit(@, c)]
      [] t.state = "ESCAPE" /\ c = "semicolon" -> [t EXCEPT !.stack = Append(@, 0)]
      [] t.state = "ESCAPE" /\ c = "m" -> [SGR(t) EXCEPT !.state = "NORMAL"]
      [] OTHER -> putNormal(error(t), c, w)

\* Several characters, one after the other.
putAll(t, cs, w) ==
    LET put[n \in 0..Len(cs)] == IF n = 0 THEN t ELSE putChar(put[n - 1], cs[n], w)
    IN  put[Len(cs)]

\* The kernel stops at the first failure.
Show(cs) ==
    LET t == putAll(text, cs, width(pixels))
    IN  text' = t /\ stopped' = ~t.ok

\* The column of a cursor that is behind all text, if no escape sequence is open.
None == -1
Begin(t) == IF t.state = "NORMAL" /\ t.y + 1 = Len(t.lines) /\ t.x = Len(t.lines[t.y + 1])
            THEN t.x ELSE None

-----------------------------------------------------------------------------
(* The keyboard *)

\* Waitable::free: every waiting thread will evaluate its checker.
free == reader' = [r \in Reader |-> IF reader[r].state = "waiting"
                                    THEN [reader[r] EXCEPT !.state = "woken"] ELSE reader[r]]

\* Mutant of enter: the typed line does not wake the readers.
enterQuiet == /\ inputBuffer' = inputBuffer \o Append(keyboardBuffer, "nl")
              /\ keyboardBuffer' = <<>> /\ Show(<<"nl">>) /\ UNCHANGED reader
enter == /\ inputBuffer' = inputBuffer \o Append(keyboardBuffer, "nl")
         /\ keyboardBuffer' = <<>>
         /\ Show(<<"nl">>)
         /\ free

\* Mutant of erase: the last character is erased on the screen only when another is left.
eraseLate ==
    /\ IF keyboardBuffer = <<>> THEN UNCHANGED <<keyboardBuffer, text, stopped>>
       ELSE /\ keyboardBuffer' = Front(keyboardBuffer)
            /\ Show(IF Len(keyboardBuffer) > 1 THEN <<"bs", "space", "bs">> ELSE <<>>)
    /\ UNCHANGED <<inputBuffer, reader>>
erase ==
    /\ IF keyboardBuffer = <<>> THEN UNCHANGED <<keyboardBuffer, text, stopped>>
       ELSE /\ keyboardBuffer' = Front(keyboardBuffer)
            /\ Show(<<"bs", "space", "bs">>)
    /\ UNCHANGED <<inputBuffer, reader>>

insert(k) ==
    /\ keyboardBuffer' = Append(keyboardBuffer, k)
    /\ Show(<<k>>)
    /\ UNCHANGED <<inputBuffer, reader>>

\* handleEvent for a key with the symbol k, pressed.
handleEvent(k) ==
    /\ ~stopped /\ Len(typed) < MaxKeys
    /\ \/ k = "nl" /\ enter
       \/ k = "bs" /\ erase
       \/ k \notin {"nl", "bs"} /\ insert(k)
    /\ typed' = Append(typed, k)
    /\ from' = IF k = "nl" THEN Begin(text') ELSE IF k \in {"tab", "cr"} THEN None ELSE from
    /\ UNCHANGED <<pixels, out, got, scripts>>

-----------------------------------------------------------------------------
(* Programs *)

\* A program starts to write: printf issues a system call for each byte.
startWrite(s) ==
    /\ ~stopped /\ out = <<>> /\ scripts < MaxScripts
    /\ out' = s /\ scripts' = scripts + 1
    /\ UNCHANGED <<text, pixels, keyboardBuffer, inputBuffer, reader, stopped, typed, got, from>>

write ==
    /\ ~stopped /\ out # <<>>
    /\ Show(<<Head(out)>>)
    /\ out' = Tail(out)
    /\ from' = IF keyboardBuffer = <<>> THEN Begin(text') ELSE None
    /\ UNCHANGED <<pixels, keyboardBuffer, inputBuffer, reader, typed, got, scripts>>

\* read of at most n bytes by the thread r, which waits where there is none: sysread,
\* and its checker when a woken thread is run.
read(r, n) ==
    LET k == IF Len(inputBuffer) < n THEN Len(inputBuffer) ELSE n IN
    /\ inputBuffer' = SubSeq(inputBuffer, k + 1, Len(inputBuffer))
    /\ got' = got \o SubSeq(inputBuffer, 1, k)
    /\ reader' = [reader EXCEPT ![r] = IF k > 0 THEN [state |-> "no", count |-> 0]
                                       ELSE [state |-> "waiting", count |-> n]]
    /\ UNCHANGED <<text, pixels, keyboardBuffer, out, stopped, typed, from, scripts>>

sysread(r) == ~stopped /\ reader[r].state = "no" /\ \E n \in Counts : read(r, n)
check(r)   == ~stopped /\ reader[r].state = "woken" /\ read(r, reader[r].count)

\* The window is resized by the mouse or by sysresizewin.
setSize(s) ==
    /\ ~stopped /\ s # pixels
    /\ pixels' = s
    /\ UNCHANGED <<text, keyboardBuffer, inputBuffer, reader, out, stopped, typed, got,
                   from, scripts>>

Next == \/ \E k \in Keys : handleEvent(k)
        \/ \E s \in Scripts : startWrite(s)
        \/ write
        \/ \E r \in Reader : sysread(r) \/ check(r)
        \/ \E s \in Sizes : setSize(s)

Spec == Init /\ [][Next]_vars

-----------------------------------------------------------------------------
(* send *)

\* Mutant of rows: a line that fills its last row gets another.
rowsOneMore(line, w) == Len(line) \div w + 1
\* The rows of the screen that a line takes.
rows(line, w) == (Len(line) + w - 1) \div w

\* The rows that the lines from n on take.
rowsFrom(n, w) ==
    LET sum[k \in n..(Len(text.lines) + 1)] ==
            IF k > Len(text.lines) THEN 0 ELSE rows(text.lines[k], w) + sum[k + 1]
    IN  sum[n]

\* What send draws: the last lines from the bottom up, each from its last row up.
send ==
    LET w    == width(pixels)
        used == IF rowsFrom(1, w) >= height(pixels) THEN height(pixels) ELSE rowsFrom(1, w)
    IN  IF w = 0 THEN {}
        ELSE UNION {{[x |-> (i - 1) % w,
                      y |-> used - rowsFrom(n, w) + (i - 1) \div w,
                      cell |-> text.lines[n][i]] : i \in 1..Len(text.lines[n])}
                    : n \in 1..Len(text.lines)}
DrawnCells == {d \in send : d.y >= 0}

-----------------------------------------------------------------------------
(* Properties *)

\* The assertions of TextWindow and the deque hold, whatever is written and typed: the
\* cursor is on a line, and no more than LineNum lines are kept.
TextSound ==
    /\ ~stopped
    /\ Len(text.lines) \in 1..LineNum /\ text.y \in 0..(Len(text.lines) - 1) /\ text.x >= 0
    /\ text.state = "ESCAPE" => text.stack # <<>>

\* How many of the keys i to j are backspaces, and how many are not.
Backspaces(i, j) == Cardinality({n \in i..j : typed[n] = "bs"})
Others(i, j)     == Cardinality({n \in i..j : typed[n] # "bs"})

\* The character i of what was typed is still there: no backspace of its line has
\* erased it.
Kept(i) ==
    /\ typed[i] # "bs"
    /\ \A j \in (i + 1)..Len(typed) :
          (\A n \in i..j : typed[n] # "nl") => Backspaces(i + 1, j) <= Others(i + 1, j)

\* A program reads what was typed, line by line as edited, once and in order: whatever
\* is written meanwhile, and however few bytes it reads; and no thread that wants a byte
\* sleeps on a line.
LinesTyped ==
    LET kept == {i \in 1..Len(typed) : Kept(i)}
        all  == got \o inputBuffer \o keyboardBuffer
    IN  /\ Len(all) = Cardinality(kept)
        /\ \A i \in kept : all[Cardinality({j \in kept : j <= i})] = typed[i]
        /\ inputBuffer # <<>> =>
              \A r \in Reader : reader[r].state = "waiting" => reader[r].count = 0

\* The screen shows the line that is being typed, as long as it began at the end of
\* the text and the program has written nothing since: its characters stand before the
\* cursor, and behind it there is nothing.
EchoShown ==
    from # None =>
        LET line == text.lines[text.y + 1]
            n    == Len(keyboardBuffer)
        IN  /\ text.x = from + n
            /\ \A i \in 1..n : line[from + i].c = keyboardBuffer[i]
            /\ \A i \in (text.x + 1)..Len(line) : line[i].c = "space"

\* The rows that the text takes, wrapped at the width: <<n, j>> is the row j of the line n
\* and begins behind j * width of its characters.
Rows == UNION {{<<n, j>> : j \in {k \in 0..Len(text.lines[n]) :
                                    k * width(pixels) < Len(text.lines[n])}}
               : n \in 1..Len(text.lines)}
\* How many of them come after the row j of the line n.
Later(n, j) == Cardinality({p \in Rows : p[1] > n \/ (p[1] = n /\ p[2] > j)})

\* The window shows the end of its text: row by row without a gap, one character in each
\* place, and inside the edge (the assertions of Screen::putChar).
DrawnExact ==
    width(pixels) > 0 =>
        LET w == width(pixels)
            h == IF Cardinality(Rows) < height(pixels) THEN Cardinality(Rows) ELSE height(pixels)
        IN  /\ DrawnCells =
                  UNION {{[x |-> i - p[2] * w - 1, y |-> h - Later(p[1], p[2]) - 1,
                           cell |-> text.lines[p[1]][i]]
                          : i \in {k \in 1..Len(text.lines[p[1]]) :
                                      p[2] * w < k /\ k <= p[2] * w + w}}
                         : p \in {q \in Rows : Later(q[1], q[2]) < h}}
            /\ \A d \in DrawnCells : 8 * d.x + 9 < pixels.x /\ 16 * d.y + 17 < pixels.y
=============================================================================
