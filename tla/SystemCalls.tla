----------------------------- MODULE SystemCalls -----------------------------
(***************************************************************************)
(* The boundary between the programs and the kernel: the numbers of the    *)
(* system calls, the table `handlers` and what each handler takes          *)
(* (src/src/User/Syscall.h, Syscall.cpp, Syscalls.h, Syscalls.cpp), the    *)
(* functions of libc that make the calls (unistd.c, window.c, malloc.cpp)  *)
(* and what they make of the answer.  An argument stands for its kind: a   *)
(* file descriptor, a pointer into user memory, or a number.               *)
(***************************************************************************)
LOCAL INSTANCE Integers
LOCAL INSTANCE Sequences
LOCAL INSTANCE TLC

\* The numbers that have a handler, those that are reserved left out.
Number ==
    [read |-> 0, write |-> 1, open |-> 2, close |-> 3, seek |-> 8, brk |-> 12, pipe |-> 22,
     openwin |-> 24, opentwin |-> 25, resizewin |-> 26, getsize |-> 27, getoff |-> 28,
     getws |-> 29, getevt |-> 30, dup |-> 32, dup2 |-> 33, test |-> 42, clone |-> 56,
     fork |-> 57, exit |-> 58, exec |-> 59, texit |-> 60, wait |-> 61, opend |-> 72,
     readd |-> 73, chdir |-> 80, rename |-> 82, mkdir |-> 83, rmdir |-> 84, link |-> 86,
     unlink |-> 87]
SYSCALLNUM == 256

-----------------------------------------------------------------------------
\* The parameters of the handlers that have a name, in their order.
FileHandlers ==
    [read |-> <<"fd", "ptr", "num">>, write |-> <<"fd", "ptr", "num">>,
     open |-> <<"ptr", "num">>, close |-> <<"fd">>, seek |-> <<"fd", "num", "num">>,
     brk |-> <<"ptr">>, pipe |-> <<"ptr">>]
WindowHandlers ==
    [openwin |-> <<"num", "num", "num">>, opentwin |-> <<"num", "num", "num">>,
     resizewin |-> <<"fd", "num", "num">>, getsize |-> <<"fd">>, getoff |-> <<"fd">>,
     getws |-> <<"fd">>, getevt |-> <<"fd">>]
CopyHandlers == [dup |-> <<"fd">>, dup2 |-> <<"fd", "fd">>]
ProcessHandlers ==
    [clone |-> <<"ptr", "ptr">>, fork |-> <<>>, exit |-> <<"num">>, exec |-> <<"ptr", "ptr">>,
     texit |-> <<"num">>, wait |-> <<"num", "ptr">>]
DirectoryHandlers ==
    [opend |-> <<"ptr">>, readd |-> <<"fd", "ptr">>, chdir |-> <<"ptr">>,
     rename |-> <<"ptr", "ptr">>, mkdir |-> <<"ptr">>, rmdir |-> <<"ptr">>,
     link |-> <<"ptr", "ptr">>, unlink |-> <<"ptr">>]
Declared == FileHandlers @@ WindowHandlers @@ CopyHandlers @@ ProcessHandlers @@ DirectoryHandlers

\* syscallFill registers the handlers that are declared, except poll.
syscallFill == DOMAIN Declared

\* The table after syscallInit, which clears it and puts systest, and syscallFill.
handlers ==
    [n \in 0..SYSCALLNUM - 1 |->
        IF \E call \in syscallFill \cup {"test"} : Number[call] = n
        THEN CHOOSE call \in syscallFill \cup {"test"} : Number[call] = n
        ELSE "nullptr"]

\* The handler of a number: number -1 stands for every call that is disabled.
handler(rax) == IF rax >= SYSCALLNUM \/ handlers[rax] = "nullptr" THEN "syserror" ELSE handlers[rax]

-----------------------------------------------------------------------------
\* The registers of the instruction syscall, in the order of the parameters.
Registers == <<"rdi", "rsi", "rdx", "r10", "r8", "r9">>

\* What the functions of libc put in the registers.
FileCalls ==
    [read |-> [rax |-> 0, rdi |-> "fd", rsi |-> "ptr", rdx |-> "num"],
     write |-> [rax |-> 1, rdi |-> "fd", rsi |-> "ptr", rdx |-> "num"],
     open |-> [rax |-> 2, rdi |-> "ptr", rsi |-> "num"],
     close |-> [rax |-> 3, rdi |-> "fd"],
     poll |-> [rax |-> 22, rdi |-> "ptr", rsi |-> "num"],
     seek |-> [rax |-> 8, rdi |-> "fd", rsi |-> "num", rdx |-> "num"],
     pipe |-> [rax |-> 22, rdi |-> "ptr"],
     dup |-> [rax |-> 32, rdi |-> "fd"],
     dup2 |-> [rax |-> 33, rdi |-> "fd", rsi |-> "fd"]]
ThreadCalls ==
    [exit |-> [rax |-> 58, rdi |-> "num"], texit |-> [rax |-> 60, rdi |-> "num"],
     fork |-> [rax |-> 57], clone |-> [rax |-> 56, rdi |-> "ptr", rsi |-> "ptr"]]
ExecCalls ==
    [exec |-> [rax |-> 59, rdi |-> "ptr", rsi |-> "ptr"],
     wait |-> [rax |-> 61, rdi |-> "num", rsi |-> "ptr"]]
DirectoryCalls ==
    [opend |-> [rax |-> 72, rdi |-> "ptr"],
     readd |-> [rax |-> 73, rdi |-> "fd", rsi |-> "ptr"],
     chdir |-> [rax |-> 80, rdi |-> "ptr"],
     rename |-> [rax |-> 82, rdi |-> "ptr", rsi |-> "ptr"],
     mkdir |-> [rax |-> 83, rdi |-> "ptr"],
     rmdir |-> [rax |-> 84, rdi |-> "ptr"],
     link |-> [rax |-> 86, rdi |-> "ptr", rsi |-> "ptr"],
     unlink |-> [rax |-> 87, rdi |-> "ptr"]]
WindowCalls ==
    [openwin |-> [rax |-> 24, rdi |-> "num", rsi |-> "num", rdx |-> "num"],
     opentwin |-> [rax |-> 25, rdi |-> "num", rsi |-> "num", rdx |-> "num"],
     resizewin |-> [rax |-> 26, rdi |-> "fd", rsi |-> "num", rdx |-> "num"],
     getsize |-> [rax |-> 27, rdi |-> "fd"],
     getoff |-> [rax |-> 28, rdi |-> "fd"],
     getws |-> [rax |-> 29, rdi |-> "fd"],
     getevt |-> [rax |-> 30, rdi |-> "fd"]]
BreakCall == [brk |-> [rax |-> 12, rdi |-> "ptr"]]
Calls == FileCalls @@ ThreadCalls @@ ExecCalls @@ DirectoryCalls @@ WindowCalls @@ BreakCall

-----------------------------------------------------------------------------
\* A long has twice the bits of an int.
IntBits == 8
LongBits == 2 * IntBits
AsInt(a) == ((a + 2^(IntBits - 1)) % 2^IntBits) - 2^(IntBits - 1)

Errors == [EBADF |-> 1, ECHILD |-> 2, EPIPE |-> 3, EACCESS |-> 4, EFAULT |-> 5, ENOMEM |-> 6,
           EBLOCK |-> 7, EINVAL |-> 8, ENOTDIR |-> 9, EEXIST |-> 10, EXDEV |-> 11]

\* The u64 that `return -error` makes.
Fails(error) == 2^LongBits - Errors[error]

\* What a function of libc returns, and errno after it, for the answer in rax.
Result(answer, errno) ==
    LET res == AsInt(answer)
    IN  IF res < 0 THEN [ret |-> -1, errno |-> -res] ELSE [ret |-> res, errno |-> errno]

\* getsize and getoff: the answer is a pair, whose first half tells of errors.
vec(x, y) == x + y * 2^IntBits
VecResult(answer, errno) ==
    IF AsInt(answer) < 0 THEN [x |-> -1, y |-> 0, errno |-> AsInt(answer)]
    ELSE [x |-> answer % 2^IntBits, y |-> answer \div 2^IntBits, errno |-> errno]

-----------------------------------------------------------------------------
\* A function of libc other than poll reaches the handler of its name, which finds in
\* its parameters what the caller passed.
ReachesHandler(call) ==
    /\ handler(Calls[call].rax) = call
    /\ \A i \in 1..Len(Declared[call]) :
          Registers[i] \in DOMAIN Calls[call] /\ Calls[call][Registers[i]] = Declared[call][i]

\* No two calls have the same number, every handler can be called from libc, and poll,
\* which has no handler, makes a pipe.
TableSound ==
    /\ \A c, d \in DOMAIN Number : Number[c] = Number[d] => c = d
    /\ \A call \in syscallFill : call \in DOMAIN Calls
    /\ DOMAIN Calls \ syscallFill = {"poll"} /\ handler(Calls.poll.rax) = "pipe"

\* The caller sees the error of a handler as -1 and errno, and an answer that fits in an
\* int as it is.  For a window's size and offset errno is the opposite of the error.
AnswerSeen(errno) ==
    /\ \A e \in DOMAIN Errors : /\ Result(Fails(e), errno) = [ret |-> -1, errno |-> Errors[e]]
                                /\ VecResult(Fails(e), errno).x = -1
                                /\ VecResult(Fails(e), errno).errno = -Errors[e]
    /\ \A n \in 0..2^(IntBits - 1) - 1 :
          /\ Result(n, errno) = [ret |-> n, errno |-> errno]
          /\ \A y \in {0, 1, n} : VecResult(vec(n, y), errno) = [x |-> n, y |-> y, errno |-> errno]
=============================================================================
