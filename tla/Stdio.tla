-------------------------------- MODULE Stdio --------------------------------
(***************************************************************************)
(* The streams of the C library (src/libc/src/stdio.c) over the system     *)
(* calls read and write: printing of numbers and formats, and the loops    *)
(* that go on after a short transfer.  A file takes `room` characters, and *)
(* then fails; a character is its code, a char that is read is signed.     *)
(***************************************************************************)
LOCAL INSTANCE Integers
LOCAL INSTANCE Sequences
LOCAL INSTANCE SequencesExt
LOCAL INSTANCE FiniteSetsExt

EOF == -1
Newline == 10
Zero == 48
Minus == 45
LetterA == 97

File(n) == [out |-> <<>>, room |-> n]

-----------------------------------------------------------------------------
\* write of s: what there is room for, or the error -1.
Taken(f, s) == Min({f.room, Len(s)})
Wrote(f, s) == [out |-> f.out \o SubSeq(s, 1, Taken(f, s)), room |-> f.room - Taken(f, s)]

\* putc for each character of s, up to the first that fails: the file and the
\* number of characters, or EOF.
Emit(f, s) == [file |-> Wrote(f, s), ret |-> IF f.room < Len(s) THEN EOF ELSE Len(s)]

\* fputs: write goes on after a short transfer.  It returns what is left to write.
fputs(f, s) == [file |-> Wrote(f, s), ret |-> IF f.room < Len(s) THEN EOF ELSE 0]
puts(f, s) == IF fputs(f, s).ret = EOF THEN fputs(f, s)
              ELSE Emit(fputs(f, s).file, <<Newline>>)

printDigit(d) == IF d <= 9 THEN Zero + d ELSE LetterA + (d - 10)

\* i of printUInt is base^Top: the first power that leaves one digit.
Top(n, base) == CHOOSE k \in 0..n : /\ n \div base^k < base
                                    /\ \A j \in 0..k - 1 : n \div base^j >= base

\* The two loops of printUInt: digits while n is not 0, then zeros.
Digits(n, base) ==
    LET from[e \in -1..Top(n, base), m \in 0..n] ==
            IF m > 0 THEN <<printDigit(m \div base^e)>> \o from[e - 1, m % base^e]
                     ELSE [i \in 1..e + 1 |-> Zero]
    IN  from[Top(n, base), n]

\* padding loses one for each digit but the last, if it can, and counts the last.
printUInt(f, n, base, padding) ==
    LET pad == Max({1, padding - Top(n, base)})
    IN  Emit(f, [j \in 1..pad - 1 |-> Zero] \o Digits(n, base))

\* The sign is not part of the padding, and a failure to print it is not seen.
printInt(f, n, base, padding) ==
    IF n >= 0 THEN printUInt(f, n, base, padding)
    ELSE LET r == printUInt(Wrote(f, <<Minus>>), -n, base, padding)
         IN  [r EXCEPT !.ret = IF @ = EOF THEN EOF ELSE @ + 1]

\* SWITCHSIZE: the argument as the length of the conversion reads it, in a long of
\* LongBits bits of which an int has half.
LongBits == 8
Unsigned(v, long) == v % 2^(IF long THEN LongBits ELSE LongBits \div 2)
Signed(v, long) ==
    LET half == 2^((IF long THEN LongBits ELSE LongBits \div 2) - 1)
    IN  ((v + half) % (2 * half)) - half

\* One conversion of vfprintf, or a character outside of conversions.
Convert(f, item) ==
    CASE item.conv = "char" -> Emit(f, <<item.arg>>)
      [] item.conv = "u" -> printUInt(f, Unsigned(item.arg, item.long), 10, item.pad)
      [] item.conv = "x" -> printUInt(f, Unsigned(item.arg, item.long), 16, item.pad)
      [] item.conv = "d" -> printInt(f, Signed(item.arg, item.long), 10, item.pad)
      [] item.conv = "s" -> fputs(f, item.arg)

\* vfprintf adds up what the conversions return, and stops at the first failure.
vfprintf(f, format) ==
    LET step(acc, item) ==
            IF acc.ret = EOF THEN acc
            ELSE LET r == Convert(acc.file, item)
                 IN  [r EXCEPT !.ret = IF @ = EOF THEN EOF ELSE acc.ret + @]
    IN  FoldLeft(step, [file |-> f, ret |-> 0], format)

-----------------------------------------------------------------------------
\* fgetc of a stream of chars: the end of the file, an error and the char -1 look
\* the same to fgets.
fgetc(input) == IF input = <<>> THEN EOF ELSE Head(input)

\* fgets: the string, <<>> for NULL, and the rest of the input.
fgets(num, input) ==
    LET line[n \in 0..Len(input)] ==
            LET rest == SubSeq(input, n + 1, Len(input))
            IN  CASE n >= num - 1 -> [str |-> SubSeq(input, 1, n), rest |-> rest]
                  [] n < num - 1 /\ fgetc(rest) = EOF ->
                        [str |-> SubSeq(input, 1, n), rest |-> SubSeq(rest, 2, Len(rest))]
                  [] n < num - 1 /\ fgetc(rest) = Newline ->
                        [str |-> SubSeq(input, 1, n + 1), rest |-> Tail(rest)]
                  [] OTHER -> line[n + 1]
    IN  line[0]

\* fread and fwrite after the system calls have answered `answers`, each a number of
\* bytes or -1, cut to what is asked: what was transferred, as pairs of the place in
\* the caller's buffer and the place in the file.  -1 is added as a size_t: the place
\* in the buffer goes back by one.
Transfer(total, answers) ==
    LET call(s, a) ==
            IF s.over \/ s.at = total THEN [s EXCEPT !.over = TRUE]
            ELSE LET cur == Min({a, total - s.at})
                 IN  [s EXCEPT !.at = @ + cur, !.over = cur = 0,
                               !.moved = @ \o [i \in 1..Max({cur, 0}) |-> <<s.at + i, s.pos + i>>],
                               !.pos = @ + Max({cur, 0})]
    IN  FoldLeft(call, [at |-> 0, pos |-> 0, moved |-> <<>>, over |-> FALSE], answers)
fread(size, count, answers) == Transfer(size * count, answers).at \div size

-----------------------------------------------------------------------------
\* printUInt prints the number, in as many digits as asked for and no more than it
\* takes, up to the first character the file does not take.
PrintsNumber(n, base, padding, room) ==
    LET chars == printUInt(File(1000), n, base, padding).file.out
        short == printUInt(File(room), n, base, padding)
        digit(c) == CHOOSE d \in 0..base - 1 : c = printDigit(d)
    IN  /\ n = FoldLeft(LAMBDA v, c : base * v + digit(c), 0, chars)
        /\ Len(chars) >= Max({1, padding})
        /\ Len(chars) > Max({1, padding}) => chars[1] # Zero
        /\ short.file.out = SubSeq(chars, 1, Min({room, Len(chars)}))
        /\ short.ret = IF room < Len(chars) THEN EOF ELSE Len(chars)

\* printf returns the number of characters it has printed, those of %s apart, which
\* count for nothing: fputs returns what is left.
CountsCharacters(format, room) ==
    LET r == vfprintf(File(room), format)
        strings == FoldLeft(LAMBDA n, i : IF i.conv = "s" THEN n + Len(i.arg) ELSE n, 0, format)
    IN  r.ret # EOF => r.ret = Len(r.file.out) - strings

\* fgets reads up to the end of the line, of the file or of the buffer, and loses no
\* character, if the input has no char that looks like EOF.
ReadsLine(num, input) ==
    LET r == fgets(num, input)
    IN  /\ r.str \o r.rest = input
        /\ Len(r.str) <= Max({0, num - 1})
        /\ \A i \in 1..Len(r.str) - 1 : r.str[i] # Newline
        /\ r.rest # <<>> /\ num > 1 => Len(r.str) = num - 1 \/ Last(r.str) = Newline

\* As long as no call fails, every byte goes to its own place and the result is the
\* number of objects that are complete.
TransfersAll(size, count, answers) ==
    LET t == Transfer(size * count, answers)
        n == FoldLeft(LAMBDA s, a : [sum |-> IF s.open THEN s.sum + a ELSE s.sum,
                                     open |-> s.open /\ a # 0],
                      [sum |-> 0, open |-> TRUE], answers).sum
    IN  /\ t.moved = [i \in 1..t.at |-> <<i, i>>]
        /\ fread(size, count, answers) = Min({n, size * count}) \div size
=============================================================================
