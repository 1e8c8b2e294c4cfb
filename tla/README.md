# A TLA+ verification of the SupOS kernel

SupOS (the repository ENS_sysres) is a small 64-bit operating system: a preemptive
scheduler for processes and threads, a Unix-like set of system calls, pipes and
reference-counted file descriptors, an ext2 driver under a virtual file system, windows,
and a libc and libc++ that the kernel and its programs share. This directory holds TLA+
models of these parts, the TLC configurations that check them, and proofs that TLAPS
checks.

## Inventory

| Part | State | Operations | What makes it correct |
|---|---|---|---|
| Scheduler (`Processes/Scheduler`) | `_processes`, `_threads`, `_threadFIFO`, `_current`, `_halted`, `_runTryNum`, the free tids | `run`, `exit`, `texit`, `fork`, `clone`, `timerHandler` | no live thread leaves the queue, the processor halts only when every thread is blocked, every ready thread runs |
| Process and Thread | threads, parent, sons, `_terminated`, `_mainTerminated`, owner of a thread | fork constructor, `terminate`, `mainTerm`, `remThread`, `orphan`, destructor, `clear` | one consistent object graph; the hierarchy is a tree rooted at init; a zombie owns no thread; only the parent reaps |
| Waiting / Waitable | `_waiting`, `_waited`, `_waitings` | `wait`, `free`, `OK`, `accept`, `refuse` | a blocked thread is registered where it waits; no wake-up is lost |
| Time slices (`Scheduler`, `Syscall`) | `_remainingTime`, `_timeToRendering` | the timer tick in each mode, `sysleave`, `doneRender` | no overrun of the quantum; the screen is served for ever |
| File descriptors, pipes | `_owners`, `_fds` and its capacity, `_deque`, `_eof`, `_out`, `_nbRef` | `pipe`, `read`, `write`, `close`, `dup`, `dup2`, and fork, exit, wait on descriptors | a stream lives as long as a descriptor names it; bytes keep their order; a blocked reader gets its data |
| User memory (`UserMemory`, `Heap`) | page tables, breaks, frames | fork, exec, exit, `brk` | a process has its own copy; a frame has one owner |
| Kernel memory (`Paging`, `PageHeap`, `PhysicalMemoryAllocator`, `Bitset`) | frame bitset, kernel tables, temporary windows, TLB | `alloc`, `alloc2M`, `createMapping`, `freeMapping`, `ialloc` | a page leads where it was mapped; a frame has one use |
| Ext2 driver (`HDD/Ext2`) | bitmaps, counters, inodes, indirect blocks, records of directories | read, write, resize, link, unlink, `addEntry`, `removeEntry` | a block is in one tree; what is read was written; names, link counts and chains agree |
| Disk (`HDD/HardDrive`) | the sectors of the drive | `readaddr`, `writeaddr` | exactly the bytes asked for |
| VFS and RamFS (`HDD/VFS`, `HDD/RamFS`, `BytesStream`) | mount tables, directories, open descriptors | lookup, open, create, link, rename, remove, read, write, seek, readd | a path leads back by `..`; devices do not mix; no offset is behind the end |
| Keyboard, mouse (`IO/`, `Deque.h`) | a ring shared with the interrupt handler, modifiers, mouse events | `handleScanCode`, `pollSC`, `poll`, `handleByte` | no scan code is lost, duplicated or reordered (the code loses some, see "Windows" below) |
| Windows (`Graphics/Workspace`, `Window`) | lists of windows, the Win key, the drag | events, `addWin`, `remWin` | a window is where it says; a drag needs the key, the button and a window |
| Text windows (`Graphics/TextWindow`) | lines, cursor, parser, line being typed, input | `write`, `handleEvent`, `read`, `setSize`, `send` | a program reads what was typed, the screen shows it |
| `malloc` (`libc/src/malloc.cpp`) | the chain of headers, tags, break | `malloc`, `free`, `realloc`, `sbrk` | live blocks are disjoint and intact; free memory is merged and given back |
| System call boundary (`User/Syscall*`, `unistd.c`, `window.c`) | the table of handlers, `errno` | a call of libc, the answer in `rax` | a function reaches the handler of its name with its arguments; the caller sees the error |
| Containers (`libc++`) | deque, vector, map, set | what the kernel calls | each is the sequence or table it stands for |
| Streams of libc (`stdio.c`) | none | `printf`, `fgets`, `fread`, `fwrite` | digits, counts, lines and transfers are right |

The parts interact as follows. A system call runs on the kernel stack of the only
processor and is not preempted: `timerHandler` returns at once when it hits kernel code.
A call that must wait registers the thread in a `Waitable` (a `Process` or a `Stream`)
with a checker, calls `stopCurent` and `run()`; `Waitable::free` marks the waiters, and
`run()` evaluates the checker the next time it pops the thread. So the concurrency of the
kernel is in the time between blocking, waking and checking, during which every other
thread runs: threads deleted while blocked, processes reaped under a checker that holds a
pointer to them, descriptors reassigned under a blocked reader, tids reused while an old
one is still queued. The handlers of the keyboard and the mouse do interrupt the kernel:
they share rings with `kloop()`, which polls them, sends events to the workspace and the
window in front, and wakes the readers of that window. Files have no such concurrency;
what is hard there are long sequences of calls, and objects (an inode, an offset, a mount
point) that are held while other calls change what they stand for.

## Modules

| Module | Models | State and actions |
|---|---|---|
| `Processes` | `Scheduler.cpp/.h`, `Process.cpp`, `Thread.cpp`, `Waiting.h`, the calls of `Syscalls.cpp` on processes | One variable per member of the classes, tids standing for pointers. `fork`, `clone`, `exec`, `exit`, `texit`, `waitReap`, `waitBlock`, `waitBadPid`, `read`, `readBlock` are system calls (`read` on text windows, whose state is whether there is input); `runIdle`, `runDeleted`, `runReady`, `runBlocked`, `runRefuse`, `runAcceptReap`, `runAcceptNoChild`, `runRefuseRead`, `runAcceptRead` are the cases of one pass of the loop of `run()`; `timerPreempt` and `timerHalted` are the timer, which calls `kloop`, where typed lines reach the windows. |
| `ProcessLife` | the promise of the pages "Process System" and "Process protocols" of `Process.h` | active, zombie, destroyed; `Fork`, `Die`, `Reap`. |
| `Timer` | `timerHandler`, `sysleave`, `Syscall.s` | `mode` is what a tick can hit. |
| `Pipes` | `FileDescriptor.cpp`, `PipeStream.cpp`, `vector`, the calls of `Syscalls.cpp` on descriptors | Each call is one action; `wakeData`, `wakeEnd`, `wakeRefuse` are the checker of `sysread`. Scheduling is abstracted to "any thread that is not blocked", and which process may reap which to "any process", both of which `Processes` models. |
| `UserMemory` | `UserMemory.cpp`, `Heap.cpp`, the 4K part of `Paging.cpp`, `PhysicalMemoryAllocator.cpp`, `loadFromBytes`, the memory side of fork, exec, exit, wait and `prepare` | `mem` is physical memory: the free frames, the present entries of all tables, the contents of pages; `mmu` is `PML4[0]` and the TLB. A table has `Fan` entries (512 in the code); the pages of the program, its stack and its heap are constants. A call that needs more frames than are free is disabled, as the assertion of `alloc` stops the kernel (`Room`). `store` writes where the TLB or else the tables lead, also through a page that `brk` took away and the TLB still translates (`GivenBack`); the model ends where that is a page table (`wild`). |
| `AddressSpaces` | the promise of `UserMemory.h`: a deep copy on fork, an empty memory on clear, nothing shared | pages and contents of each process, and which one runs: only that one changes its memory, and only its own |
| `Frames` | `PhysicalMemoryAllocator.cpp` over `Bitset.h`, the kernel's part of `Paging.cpp`, `PageHeap.cpp`, the screen buffer, the slots of user heaps | `mem` has the bits of free frames and the tables; `mmu` the temporary windows and the TLB; `flat` (ghost) says where each page should lead, `use` (ghost) what each frame is for. A word has `WordBits` bits, a large page `Large` frames, a table `KernelFan` entries. |
| `Ext2` | `FS` and `Inode` of `Ext2.cpp`: bitmaps, counters, `getNewBlock`, `i_readaddr`, `i_writeaddr`, `i_resize`, `link`, `unlink` | Blocks are sequences of cells (a cell is four bytes); an inode has `NDirect` direct pointers and `NLevels` levels of indirection. |
| `Ext2Dirs` | `Directory` of `Ext2.cpp` and the system calls that change directories | `recs` maps positions to records, `blocks` is the count of blocks, the indirect one included, which the code takes for the length; `links` and `dirCount` are the counters; `names` (ghost) is what the directory should hold. `Create(e, d, ..)` searches `e` and adds to `d`, as `open` may; `Search` is a call that walks a directory longer than its records and does not return (`Endless`). |
| `Disk` | `HardDrive.cpp` | `sectors` is the drive, `bytes` (ghost) what the writes asked for; `Write` is `HDD::writeaddr`, and every read is compared with `bytes` |
| `Vfs` | `VFS.cpp`, `RamFS.cpp`, `FileSystem.cpp`, `BytesStream.cpp`, the system calls on paths and files | one `fs` with the entries, link counts and sizes of two devices; `fds` with a file and an offset; `wd` the working directory. A path has a start, directories and a last name: `Whole` is what it leads to, `Parent` the directory the calls act in, which for `/name` is the working directory (`SyscallUtils.cpp:22`). `chdir` to `/` keeps a destroyed object (`Null`). A file whose last name goes while it is open is cut to nothing and freed; its descriptors (`lost`, ghost) read and write on through the inode |
| `Keyboard` | `Keyboard.cpp`, `Deque.h` | the ring with `_begin`, `_end`, `_size`, and the program counter of the popping code, between whose loads and stores `KeyInterrupt` falls; the assertion of `push_back` tests `_size`, so that a byte may go over one that was not taken (`overrun`) |
| `Desktop` | `Workspace.cpp`, `Window.cpp`, `Mouse.cpp`, `kloop` | extends `Keyboard`: what was polled is handled by the workspace |
| `TextWindow` | `TextWindow.cpp`, `read` and `write` on it | the lines, the parser, `keyboardBuffer`, `inputBuffer`, and the states of the readers |
| `Malloc` | `malloc.cpp`, `malloc.h` | Memory is a function on 8-byte words; the client fills its blocks so that an overwritten word is seen. |
| `Deque`, `SortedVector`, `Containers` | `deque`, `vector`, `map`, `set` of libc++ | arrays with capacity and indices; one operator per member function |
| `Collections` | what the containers promise | sequences and tables |
| `Stdio` | `stdio.c` | functions only |
| `SystemCalls` | the numbers and the table `handlers` of `Syscall.cpp` and `Syscalls.cpp`, the parameters of the handlers of `Syscalls.h`, the functions of `unistd.c`, `window.c` and `malloc.cpp` that make the calls | functions only: which handler a call reaches with what in its registers, and what the caller sees of the answer. A `long` has twice the bits of an `int`, as in the code, but few of them |
| `MCProcesses`, `MCScheduling`, `MCPipes`, `MCMemory`, `MCExt2`, `MCVfs`, `MCWindows`, `MCLibc` | instances, documented claims that fail, refinement mappings | |
| `ProcessesProofs`, `PipesProofs`, `WindowsProofs`, `VfsProofs`, `MallocProofs`, `ContainersProofs`, `FramesProofs`, `MemoryProofs` | theorems and lemmas | |

Some MC modules put two machines that share no state into one specification: a variable
`machine` (in `MCPipes` `shape`) is chosen at the start and says which of them runs, the
other keeping its initial state. The behaviours are then those of either machine, so an
invariant of the sum is an invariant of both; a temporal property is stated for the
machine it is about. This is so for `Timer` and `Processes` (preemption in `Processes` is
an event that keeps coming, and `Timer` says when), `UserMemory` and `Frames` (different
entries of the PML4), `Ext2`, `Ext2Dirs` and `Disk` (a directory is a file of its own, and
there are two instances of it; a block is some sectors of the disk), `Desktop` and `TextWindow`, and the heap and the containers.

Failed assertions call `bsod()`, which never returns. In `Processes` and `Pipes` the
variable `power` then names the assertion and nothing else happens; `Ext2`, `Ext2Dirs`,
`Vfs`, `Frames`, `Desktop` and `TextWindow` have such a variable too (`panic`, `halted`,
`stop`, `stale`, `stopped`). A claim that an assertion never fails is an invariant on it.
Undefined behaviour that follows (a use of freed memory) stops the model in the same way;
where it is a use of something that still has a defined content, the model goes on with it:
a translation in the TLB, an inode that was freed, a byte of the ring.
A failed assertion of `malloc` disables the call, and `HeapInv` says that it does not
fail.

Ghost variables are what properties speak of: `written`, `taken` and `retargeted` in `Pipes`
(bytes ever written and read; blocked readers whose descriptor was reassigned), `ran` in
`Timer`, `dist` in `UserMemory` (the break last asked for), `flat` and `use` in `Frames`,
`written` in `Ext2`, `names`, `exposed` and `doubled` in `Ext2Dirs`, `moved` and `lost` in
`Vfs`, `bytes` in `Disk`, the pending codes, `lost` and `overrun` in `Keyboard`, `typed`,
`got` and `from` in `TextWindow`. No guard that stands for a condition of the code reads
one. Three are read otherwise: by the bound `MaxLost` (no interrupt whose increment would be
one more to be lost), by the end of the model of a directory when removed records are in its
chain again or a name is in it twice (`exposed`, `doubled`), and by `Keyboard` when a byte is
popped: until one was written over (`overrun`), it puts a mark in the slot, which the code
does not, so that a byte read twice would be seen.

Reductions. A system call is one step wherever nothing preempts it. `UserMemory` takes the
frames of a call together: which frame becomes which table follows the order of the tree,
and the set of frames taken, the lowest free ones, is that of the code. A program is one
page with a stack of one page; the TLB keeps what a write has loaded until `invlpg` or a
switch drops it, also for pages that `brk` has freed, as `freeMapping` invalidates nothing,
and a program may write through them. The death of init stops the kernel and is left out.
Interrupts of the keyboard and the mouse fall between the loads and stores of the polling
code, where the compiler (`-Og`) puts them; elsewhere they only push, which nobody there
looks at. The deques and vectors of the other modules are sequences, tables and sets,
which is what `CollectionsImplemented` proves of them.

## Runs

| Run | Instance | Shows |
|---|---|---|
| `processes` | 4 tids, queue of at most 4, as long as no text window is used; 3 tids, a text window and a queue of at most 3 otherwise (`Bounds`) | all invariants of the process system, and that `Processes` implements `ProcessLife` (only the parent reaps) |
| `scheduling` | quanta 5 and 60, as in the code; 3 tids, a text window, queue of at most 4; fairness | quantum and rendering; the processor halts only when all threads are blocked; no reader sleeps over input; every ready thread runs; a wait that a dead child can satisfy ends |
| `pipes` | 3 threads, 1 pipe, 1 byte; or 2 threads, 3 descriptors, 2 bytes; fairness of `wake` | the descriptors, the pipe and the waiters of up to three processes; no write is missed; data is delivered |
| `libc` | 12 words, 4 clients, sizes of 1 and 2 words; up to 6 elements, 6 keys | no corruption by any sequence of calls; the containers implement `Collections`; as assumptions, `Stdio` computes what it should, and the functions of libc reach their handlers and report the errors (`CallsReachHandlers`, `AnswersSeen`) |
| `memory` | 2 processes, 18 frames, tables of 2 entries and so 8 pages, at most 4 operations that allocate, breaks at 0, 1, 4096 and 4097 bytes; the kernel with 14 frames, tables of 3 entries, words of 2 bits, large pages of 4 frames | frames have one use, the heap reaches the break, the processor never walks freed tables, pages lead where they should, and `UserMemory` implements `AddressSpaces`, but for a write through a page that was given back (`StrayStore`) |
| `ext2` | 2 inodes in 2 groups of 6 blocks, 1 direct pointer and 2 levels of 2; directories of blocks of 32 bytes with at most 4 blocks, the indirect one included: 2 inodes, 3 names of different lengths and 12 direct blocks, as in the code, or 3 inodes, 2 names and 2 direct blocks; a disk of 3 sectors of 4 bytes, words of 2, and writes of 3 patterns of bits at every address and of every length, in any sequence | the volume is consistent, data and directories are kept, beyond the direct blocks too; every read of the disk gives what the writes asked for |
| `vfs` | 2 inodes per device besides the roots, names `a` and `tmp`, 2 descriptors, a working directory | link counts, lookups across the mount point, offsets of files that were not freed |
| `windows` | ring of 2 codes; keys Win (an extended code), Shift, Tab, F1, F10; at most 1 lost increment; queue of 2 mouse events, two buttons (the right one, which resizes, and both), 2 workspaces and windows; or a text window of 2 x 3 or 1 x 2 characters, 2 lines, 4 keys, 2 readers, scripts of at most 6 bytes with escape sequences, a tab, a form feed and a carriage return | codes are taken in order, and none is lost, until one is written over, which takes a lost increment; windows are where they say, no stray drags or resizes; typed lines are read once and in order, echoed and drawn |

Why the bounds are enough. Four tids give init, a parent, a child and a grandchild, or
two threads that wait for the same child, and make tids be reused; four entries of the
queue let a dead tid and a reused one be queued twice. For liveness three tids suffice for
a waiter, a child and a third thread that competes. Only with a text window can all threads
be blocked (init cannot wait without a child, and some descendant does not wait), so the
idle processor is checked there. The queue bound (`MaxFIFO`) only cuts behaviours in which
dead tids pile up.
Three readers and writers of one pipe make two readers compete for a byte; the second
shape makes the vector grow and reads be partial.
A process needs 9 frames at most, so two never run out of 18; that the kernel stops when they
do is the guard `Room`, which only the proofs need. Four allocations suffice to grow, fork, shrink and grow again, or to fork,
reap and fork again, with the frames of one process reused by the other; the four breaks
are the two sides of the page boundaries. The heap crosses from one PD into the next, so
that tables of each level are made and freed. In `Frames` two words of bits are crossed by
every large page. The calls of `Frames` need up to three frames, and `Left` keeps them from
the end of memory, where the kernel stops.
A heap of twelve words holds four one-word blocks and the end, so that a block can be
freed between two free blocks and another be in use after them; sizes 1 and 2 make both a
split and a rest too small to split. Six elements make a deque wrap and grow twice.
The twelve blocks of the volume fill up, in the middle of a write too; the addresses 0, 3
and 9 are the direct block and the first and second level, holes between them included.
Names of different lengths make records that fit into a gap and records that do not,
and three blocks let removed records span a block border. With two direct blocks the third
block of data brings the indirect one, where the length that the code uses is no more that of
the records. (A walk in such a directory ends only where it finds room before the end of the
data; that it then writes behind the data, `PlaceRecord` with "past the end", takes a fourth
inode and is not reached.) Sectors of four bytes, three of them, give every position of the
ends of a transfer: odd, even, at a border, in the first, a middle or the last sector.
A ring of two codes fills up and wraps in a few pushes, and one lost increment lets
a byte be written over. Interrupts that lose an increment, or that stop the kernel between a
load and a store, are checked only while the windows and the mouse are as they were at the
start (`Bounded` in `MCWindows`): what they do to the ring does not depend on the windows,
and `KeysArriveInOrder` has no such bound. Four keys and six bytes are one
line with a correction and another line, against every interleaving with an escape
sequence.

The other runs show disagreements between the code and what its comments and assertions
say; each is described in `PROJECT.json` under "findings":

| Run | What the run shows |
|---|---|
| `blocked_thread_deleted` | exit or exec with a blocked sibling thread fails the assertion of `~Waiting` |
| `lost_orphan` | init sleeps although it inherited a zombie |
| `eof_delivered` | a blocked reader is not woken by end of file |
| `removed_names` | an entry that was removed from a directory is found again |

The models reach more such states, or their modelling met them. No run is about them, but
where an operator is named the behaviours of the runs above go through them, and the
properties hold with them or say what they except.

Processes and descriptors:

- `wait` for a pid that no process has stops the kernel in `map::at` (action
  `waitBadPid`), where `Syscalls.h:289` promises `ECHILD`;
- when a thread closes or replaces the last descriptor of a stream on which a sibling is
  blocked, the stream is deleted and the assertion of `~Waitable` fails (`Waiting.h:35`;
  `power` is then "~Waitable");
- a zombie that nobody reaps keeps its descriptors, as the loop that closes them is
  commented out (`Process.cpp:238`), against `Process.h:251`: a parent that reads from a
  pipe to which only its own dead child could still write sleeps for ever;
- `vector::reserve` copies the descriptors of a process and frees the old ones without
  destroying them (`vector:212`), so that their streams keep owners that are gone and are
  never deleted, against `FileDescriptor.h:16` (`Leaked`; the run `pipes` outgrows the first
  capacity only while no pipe is there, so that only the proofs go through this);
- the children of a zombie stay its children until it is reaped (`Process.cpp:217`),
  where `Process.h:169` says that they are orphaned when the parent dies, and
  `Process.h:254` when it is destroyed;
- a reader that was woken and whose fd was reassigned before it runs registers again on
  its old stream, which may be deleted (`refuse`), and then sleeps although its fd has
  data;
- `dup2(fd, fd)` of a descriptor with one owner frees the stream and then copies the
  freed descriptor (`dup2Self`);
- `~PipeStreamOut` writes to the pipe after `decrRef` may have deleted it
  (`PipeStream.cpp:109`); `getFreshTid` does not test that a tid is left
  (`Scheduler.h:88`); `clone` returns a `u16`, so that `-EFAULT` becomes a tid
  (`Syscalls.cpp:384`); `dup2` resizes the vector to any number (`Syscalls.cpp:370`).

Memory:

- `freeMapping` leaves the translations of the pages it frees in the TLB (`Paging.cpp:325`),
  where `Paging.h:556` wants the entry removed: after `brk` has given a page back, a program
  may still write through it to a frame that is a page of another process by then
  (`StrayStore` in `MCMemory`), or a page table, where the model ends (`wild`);
- where a range begins at a word, `Bitset::unset` (`Bitset.h:102`) and `set`
  (`Bitset.h:74`) take 64 from its length without changing a bit: `alloc2M` leaves the last
  64 of its 512 frames free, and `alloc` gives them out again (`LeftByAlloc2M`);
- an allocation of several pages by the `PageHeap` marks the bits upwards and maps the
  pages of the bits downwards (`PageHeap.cpp:22`), which goes well for the two that the
  kernel makes when it starts;
- `createMapping` does not look whether the entry above is a large page; `brk` below the
  start of the heap fails an assertion (`Heap.cpp:16`);
- `malloc(0)` makes a block of size 0, which is taken for the end of the list, and the
  next `malloc` that needs memory fails its assertion (`malloc.cpp:109-113`).

Files:

- a disk without a free block or inode stops the kernel (`Ext2.cpp:121`, `171`);
- the size of a file is cut but never grown by `i_resize`;
- what is written to a file after its last name went, through a File object that was open
  (`Ext2.cpp:493`), takes blocks that belong to no file once the inode is used again and that
  are never freed (`leaked` in `Ext2`), where `Ext2.h:209` says that the inode is deleted;
- a descriptor that was behind byte 0 of such a file stands behind its end: the length left is
  unsigned and wraps (`BytesStream.cpp:7`), and read goes on instead of returning the 0 of
  `Syscalls.h:25` (`sysread` in `Vfs`, `left < 0`);
- `open("/a", O_CREAT)` looks for `a` in the root and makes it in the working directory
  (`Syscalls.cpp:136-148`), which may have an `a` already: on the ext2 volume the name is then
  there twice, and the models end (`sysopen` in `Vfs`, `doubled` in `Ext2Dirs`);
- `chdir("/")` leaves the process with a working directory that is destroyed: the object that
  `resolvePath` returns for `/` (`SyscallUtils.cpp:35`, `FileSystem.cpp:51`) belongs to a
  temporary (`wd = Null` in `Vfs`);
- the length of a directory is taken from its count of blocks (`Ext2.cpp:619`), which
  includes the indirect ones (`Ext2.cpp:377`): behind the data the walk finds an entry of
  inode 0 and `rec_len` 0, which it skips for ever, so that a search in a directory with an
  indirect block does not return (`Search` in `Ext2Dirs`), where `FileSystem.h:50` promises a
  file or `nullptr`;
- an entry that is added to a directory beyond its records, which are shorter than the length
  the code uses, is written behind its data (`Ext2.cpp:694`, `703`);
- what a descriptor of a freed file writes goes to the file, or over the directory, that has
  the inode by then (`syswrite` in `Vfs`, which ends at the directory); a read behind the end
  of a RamFS file would stop the kernel;
- `mkdir`, `rmdir`, `unlink`, `link` and `rename` of `/name` act in the working directory,
  and so does `open` where it makes a file; a RamFS that has the name keeps the old entry;
- a directory can be renamed into itself, and `rec_len` is a `u16` that merged records of
  many blocks overflow; removing the first record of a block chain writes a `rec_len` that
  was never initialised (`Ext2.cpp:785`);
- the kernel stops on `rename` of a file that does not exist and on `O_CREAT` below a
  directory that does not exist (null pointers at `Syscalls.cpp:541` and `142`), on the
  first use of a descriptor opened on a directory, on removing a RamFS file in use;
- a RamFS frees nothing (`RamFS.cpp:209`) and a directory renamed in it keeps its first
  `..` (`RamFS.cpp:199`); `/tmp` can be removed while the RamFS on it is empty, and
  `rename("/tmp", "/tmp/x")` passes the test for one device;
- `sysseek` returns the position asked for also when `seek` refused it; an iterator of an
  open RamFS directory is not valid after the directory changes;
- the last byte of a transfer, when it is the first of its sector, is read without
  waiting for the drive (`HardDrive.cpp:159`).

Windows:

- an interrupt of the keyboard between the load and the store of `_size` in `pop_front`
  loses an increment: the code that came stays in the ring and is read late, when the next
  one has come (`lost` in `Keyboard`, at most `MaxLost` times), in order, until the ring is
  full and `_size` does not say so; the assertion of `push_back` (`Deque.h:17`) then passes and
  the next code is written over the oldest one (`Deque.h:18`; `overrun`);
- the state of a drag is kept per workspace and survives a switch of workspaces, where
  `NoStrayDrag` shows that it does no harm;
- `sysopenwin` accepts a window as large as the screen and `sysresizewin` does not;
  `addWin` stops the kernel for a window that does not fit (`Workspace.cpp:190`); the
  events of a graphic window are kept without a bound (`GraphWindow.h:21`);
- the parser of escape sequences is shared by what a program writes and the echo of keys;
  the sequences 38 and 48 test for 5 numbers and read the sixth (`TextWindow.cpp:177`,
  `197`); a window smaller than its edge has a height that underflows,
  and one narrower than a character lets a backspace at the start of a line move the cursor to
  the column 2^32 - 1, where the next character needs more memory than there is;
- the 7 of the keypad without NumLock types a carriage return, which goes into the typed line
  and moves the cursor to the start of its line (`Keymap.cpp:25`, `79`);
- a `read` of 0 bytes of a window sleeps, and sleeps again after each line, because a read of
  no byte is taken for one that has to wait (`Syscalls.cpp:64`); `LinesTyped` therefore speaks of
  the threads that want a byte;
- one backspace takes back one cell of an echoed tab, and after output of the program it
  may go to the line before.

Libraries:

- `vector::insert` into a full vector forgets the old array (`vector:293`); the const
  `find`, `count` and `at` of `map` read the element at `end()` (`map:93`);
- `fputs` returns what is left to write, so that `printf` does not count the characters of
  `%s` (`stdio.c:208`); a failed `read` or `write` moves `fread` and `fwrite` back by one
  byte and they go on for as long as it fails (`stdio.c:330`, `343`); `fgets` takes the
  character 255 for the end of the file (`stdio.c:48`);
- libc's `poll()` makes the call 22, which is `pipe`, and so writes the two descriptors of a
  new pipe where its argument points; `Syscalls.h` documents poll as the call 7, whose
  handler is commented out, and exec as the call 57, which is fork's;
- `getsize` and `getoff` set `errno` to the negative error (`window.c:67`, `85`); the type of
  the answer of `getevt` is a packed enumeration without negative values, so that its test
  for errors never holds (`window.c:119`); the functions of libc cut the answer to an `int`,
  so that a transfer of 2^31 bytes looks like an error;
- `strncmp` (`string.c:52`) does not declare the registers that its assembly changes: its
  result depends on the optimisation, and `unitTests/025libc.out` on one level of it.

Properties that hold only in the absence of these say so: `NoMissedWrite` and
`DataDelivered` except readers whose descriptor was reassigned, invariants of `Pipes` on
the waiters while the kernel is on, `FdInv` with the copies that `reserve` leaves
(`Leaked`) among the owners, `FramesExclusive` except the frames that `alloc2M`
leaves free, `VolumeSound` except the blocks written to freed files, `TreeKept`, `ChainTiles`
and `LinksExact` until removed records come back or a name is there twice, `PathsAgree`
except directories renamed in a RamFS, `EntriesSound` until a name is made twice on the ext2
volume, `OffsetsInside` except descriptors whose file was freed, `KeysInOrder` until a code is
written over, `ImplementsAddressSpaces` except writes through pages that were given back, and
`ReadsBack` except a last byte of a transfer that is the first of its sector. The lists above
say what the code does then.

## Fairness

`Processes`: weak fairness of `run` (the loop of `run()` does not stop before it has
launched a thread or halted), of `timerPreempt` (the PIT interrupts user code) and of
`timerHalted` (it wakes the halted processor). System calls have no fairness: a thread
need not make one. `WaitServed` needs nothing else, as a blocked thread is in the
queue and the checker is evaluated when it is popped.

`Pipes`: weak fairness of `wake(t)`, that is, `run()` comes back to every queued thread,
which is `ReadyRuns` of `Processes`.

`Timer`: weak fairness of the kernel's own steps, and strong fairness of `tickUser`: a
thread that keeps entering and leaving the kernel may dodge each single tick, but ticks
are not synchronised with it. Without it `ScreenServed` fails, since `Syscall.s`
returns without looking at the counters.

`MCScheduling` states the same conditions for the machine that runs. The other modules
state safety only and no fairness.

## Proofs

`ProcessesProofs` proves for every number of tids and every queue bound:

- `ObjectsSound`: `Spec => []ObjectInv`, which is `TypeCorrect` (`TypeOK`) and
  `ObjectGraph` (`GraphInv`, the inductive invariant of the core). `GraphInv` is the
  conjunction of `Registered`, `TidsAccounted`, `ThreadsOwned`, `Hierarchy` and
  `ZombieIffThreadless`; `Registered` also says that the current thread is alive. None of
  these is inductive alone: that a tid is free when its thread dies needs the owner of the
  thread to be alive (`ThreadsOwned`, `ZombieIffThreadless`); that reaping leaves a
  consistent tree needs that a son names its parent (`Hierarchy`) and that a zombie has no
  thread. There is one lemma per action that changes the graph (`GraphFork`,
  `GraphClone`, `GraphExit`, `GraphTexit`, `GraphExec`, `GraphReap`) and one for those
  that leave it alone;
- `TidsNeverShared`, `HierarchyKept`, `ZombiesThreadless`, `OwnershipKept` follow.

`ThreadsKept` (`ThreadInv`) follows from it: `exit` and `exec` take out of the scheduler
exactly the threads of the process of the running thread (`ThreadsOwned`), and all others
stay in the queue, whose entries are only dropped when they are launched or dead.

`EveryoneBelowInit` (`RootedAtInit`): the links of `Hierarchy` make no cycle. It is stated
as well-foundedness (a set of processes without init has a member whose parent is a
process outside of it), which is inductive: a new process adds the one exit of a set that
is that process alone, and what a deleted process leaves comes under init.

Three more parts are about time. The first proves `QuantumTheorem`, that the counters keep
their types and `QuantumRespected` holds in `Timer`, for all quanta that fit in a `u8`; the
invariant is inductive because the ticks a thread has had and those it has left add up to at
most the quantum. `SlicesKept` carries it over to the specification that the run `scheduling`
checks: a step of the sum is one of `Timer` or leaves its variables alone.

The second proves the waiting protocol, for any number of threads and windows:

- `WakeupsKept` (`WaitInv`). The strengthening is `WaitShape`: a tid without thread and the
  running thread are not blocked (`DeadIdle`, `CurrentIdle`), so that deleting an idle
  thread leaves nothing registered; a thread waits for one object at a time (`OneWait`), so
  that `free()` of it unregisters the thread everywhere; it waits only for its own process
  or a window (`WaitsOwn`), so that the death of a son reaches it through `_parent`. That no
  wake-up is lost then has three cases: a son dies (`WakeupDied`), a son is reaped by
  another thread (`WakeupReaped`: it was no candidate of a thread that sleeps), a process
  takes the address of a deleted one (`WakeupFork`);
- `NobodyIsForgotten` (`NobodyForgotten`). For the windows, every blocked reader is
  registered and so is woken by each line (`ReadersKloop`). For the idle processor, the
  strengthening is `ScanInv`: the last `_runTryNum` places of the queue hold threads that
  are blocked or dead, also when dead ones are dropped from its front (`ScanDeleted`).

The third proves `LifeImplemented`, `Spec => ImplementsLife`: the initial state of the
kernel is one of `ProcessLife`, and each step is one of its `Fork`, `Die` and `Reap` or
changes neither the state nor the parent of a process. Besides `GraphInv` it needs that a
destroyed process has no parent (`DeadParent`).

`PipesProofs` proves for every number of threads, pipes, descriptors and bytes
`DescriptorsSafe` (`FdInv`), `PipesAreFifo` (`PipeFifo`) and `WritesNotMissed`
(`NoMissedWrite`). The inductive invariant `IInv` has these parts:

- `FilesInv`: while the kernel is on, a descriptor names a living stream, and a stream has
  at least as many owners as there are descriptors of it (more, because of the copies that
  `vector::reserve` leaves). The sum over processes of the places that name a stream is the
  cardinality of one set (`Places`), so that `fork`, `dup`, `dup2`, `close`, the growth of a
  vector and reaping are unions and differences of finite sets (`ForkChanges`, `OneChanges`,
  `ReapChanges`). `_eof`, `_out` and `_nbRef` follow the ends that live (`EndsCounted`),
  for the pipes that have been made (`Made`);
- `Asleep`: a blocked thread waits for a read end, and is registered there until that end
  wakes it, and nowhere else. Without it the wake-up by a write might miss a reader;
- `Aimed`: a blocked reader whose descriptor nobody has reassigned waits for the stream
  that the descriptor names, so that "no data in the stream" and "no data behind the
  descriptor" are the same;
- `Fifo`: the bytes in a pipe are those between the counts taken and written.

`WindowsProofs` proves for every ring of two codes or more, every number of windows and up
to ten workspaces (the function keys) `KeysArriveInOrder` (`KeysInOrder`),
`WindowsStayPlaced` (`WindowsPlaced`) and `NoDragWithoutWin` (`NoStrayDrag`). For the ring,
`KbdInv` says which places hold the pending codes (`RingIsPending`), what the registers of
the popping code still have to do with them at each point where the interrupt may fall
(`LoadAgrees`), that a code is written over only after a lost increment, as `_size` is short
of the pending codes by exactly those, and that what the polling code believes of the modifiers is what the codes
it has taken tell (`StreamTells`, with the byte `e0` that changes the meaning of the next
one). `WindowsPlaced` is inductive with the types; the lemmas are about the list of a
workspace when a window is brought to the front, turned to the end, added or removed.
A drag needs the Win key: what the active workspace believes of it is what the keyboard
has read (`SuperHeld`), though an inactive one may have missed keys.

It proves for any number of lines, any sizes of one character or more, any keys and any
scripts `TextStaysSound` (`TextSound`) and `EchoStaysShown` (`EchoShown`). The cursor stays
on a line because every operation that moves it stays within the text or starts a line; the
parser needs that an open escape sequence has a parameter, to which a digit is added
(`_stack.back()`). For the echo, the strengthening `EchoAt` says that no escape sequence is
open while `from` is set: the characters of the line being typed stand before the cursor, and
behind it are the blanks that backspaces have left. There is one lemma per operation of the
parser (`NewLine`, `Written`, `Tabbed`, `Backspace`, `SGROk`, `Error`), and `Inserted`,
`EchoErased` and `Begins` for the three ways a key changes the echo.

It proves for any keys, readers and sizes of reads `LinesStayTyped` (`LinesTyped`): a program
reads the lines as they were edited, once and in order. The property says of each key whether
it is kept, by counting the backspaces and the other keys behind it; the code keeps a buffer
from which a backspace takes the last character. What connects the two is `Balanced`: behind
each kept character of the line that is edited there are as many other keys as backspaces and
kept characters. So a backspace leaves one key, the last that is kept, with more backspaces
than others behind it (`KeptLess`), and the kept characters of the line are as many as
`keyboardBuffer` holds (`TypedIs`). Lemmas about what one more key does to the sets that are
counted (`KeptMore`, `EditingMore`, `KeptLess`) come first, then one per operation on what was
typed (`CharTyped`, `VainTyped`, `BackspaceTyped`) and one per action. A read only moves bytes
from one buffer to another (`BytesRead`), and sleeps on a line only where it asks for no byte
(`NoneSleeps`).

Of `send` it proves `DrawingStaysExact` (`DrawnExact`): the screen shows the end of the text,
wrapped at the width, row by row without a gap, one character in each place and none outside
the window. The code adds up the rows of the lines, and draws from the last row up; the
property speaks of the rows themselves (`Rows`), each as far above the bottom as there are
rows after it (`Later`). The sum is the number of rows from a line on (`RowsSummed`, by
descent from a line where they differ), a line has the rows that begin within it
(`RowBegins`), and a character stands at the remainder in the row of the quotient
(`CharPlaced`).

`MemoryProofs` proves for any number of processes and frames `ActiveStaysAlive`
(`ActiveAlive`): the tables that the processor walks are never those of a process that has
terminated. It holds because `clear` leaves the memory that it empties (`Left`): at the end
of a process the active PDP is the default one or that of another process, which is alive
and stays so.

It proves, for tables of any size and programs with any pages and stack as well,
`FramesAreOwned` (`MemInv`), `HeapStaysMapped` (`HeapMapped`) and `ProcessesAreIsolated`
(`MCSpec => ImplementsAddressSpaces`): each step is one of the process that runs on its own
memory, or a write through a page that it gave back, which may change any page. The inductive invariant `MemoryInv` says that there is
a set `X` of triples of a process, a path and a frame with

- `Planted`: a frame is one node of one tree, and a node that is not the root hangs at a
  table. This is what makes freeing safe: the frames below a cut are in no other tree;
- `Held`: memory is what `X` says. The other frames are free, the entries are the links
  between the nodes, and exactly the leaves have a content;
- `ProcessIs`: in each phase, what `X` has of the process: nothing, the PDP and the first PD
  with its identity map, or these and exactly the pages of the program, its stack and its
  heap up to its break (`BreakIs`: at least the break asked for and no page more than one
  beyond it);
- `Cached`: of the pages that the active memory has, the TLB says nothing but what the tables
  say. Of the pages that `brk` has freed the TLB may say anything, as `freeMapping` does not
  invalidate them; that `brk` invalidates the pages that it maps (`PagesAdded`, `Translated`)
  is what makes this inductive.

`tree` reads the trees of `X` back out of the entries (`TreeIs`). All steps are made of three
operations, each with a lemma: `graft` plants new nodes in free frames (`Grafted`; the frames
that successive calls of `alloc` take are different, `Allocated`, and the order in which the
nodes are visited tells them apart, `PreorderUnique`), `free` with the entries that are
cleared prunes what lies below a cut (`Pruned`), and a write changes one page (`Written`).
A write through a page that was given back changes the content of some leaf, of any process,
or a frame that is free, and leaves the rest of the invariant as it was (`Rewritten`,
`StrayStoreKeeps`); or it hits a table, and nothing is claimed of the tables from then on, as
the model ends (`WildStep`).
`Constructed`, `ClearedOf`, `CopiedInto`, `LoadedInto`, `DestroyedOf`, `PagesAdded` and
`PagesRemoved` say what the functions of the code make of them; the steps of the actions
(`StartSteps`, `ForkSteps`, ...) give the `X` of the next state together with what the step
does to what the processes see (`Changes`), which is a step of `AddressSpaces` (`SpaceStep`).

`FramesProofs` proves of the kernel's memory, for tables, words, large pages and memories of
any size, that `KernelInv` is inductive; `MemoryProofs` draws from it `MapStaysExact`
(`MapExact`) and `FramesStayExclusive` (`FramesExclusive`). `KernelInv` has three parts:

- `PagesInv`: between two calls every window on a table is shut and none is cached
  (`Resting`), the tables form a tree below the PDP whose nodes are frames that are not free
  (`Tables`: no table is reached by two entries, and the only large page is the screen's), the
  walk of each page gives `flat`, and so does the TLB where the page is mapped. That a window
  is not cached is what makes the next call see the table that it opens: `act` and `freeTmp`
  each drop it, and a write through an open window is all that loads it;
- `BootInv`: what was mapped at each stage of the start. The font lies in the slots 0 and 1,
  though the bitset counts 1 and 2 as used: slot 0 is never handed out and slot 1 is
  counted, so that no window of the pageHeap meets the font;
- `UsesInv`: two uses never name one frame, nor a free one (`Exclusive`), the screen's tail
  apart, and each page of the kernel has a frame of its own, so that `freeMappingAndPhy` gives
  back exactly what it unmaps.

The calls are taken apart one by one: a window that is opened, read, written or shut
(`Opens`, `Finds`, `Writes`, `Erases`, `Clears`, `Closes`); a table found or made one level
down (`Descends`, `Descended`, `TableSeen`); then `MappingCreated`, `MappingFreed` and
`LargeCreated`, that a call of Paging changes the walk of one page, or of the pages of one
large page, takes only free frames for its tables and ends at rest. `LargePlace` finds where
`alloc2M` puts the screen: above every used frame, though `Bitset::unset` leaves the last word
of it free. There is one lemma per action (`BootScreenStep`, `KernelMapStep`, ...). The
specification of the run joins two instances of the memory, so `MemoryProofs` carries the
result over by showing that each operator of the one is that of the other (`SamePlaces` to
`SameSteps`).

`VfsProofs` proves for all sets of names and every number of inodes and descriptors
`EntriesStaySound` (`EntriesSound`), `PathsStayTrue` (`PathsAgree`) and `OffsetsStayInside`
(`OffsetsInside`). `EntriesSound` is not inductive: to free an inode when its count is 0
the count must be exact, and a directory that is removed must be named nowhere else. The
strengthening `Sound` has the parts

- `Tree`: only directories have entries, within a device and to what is not free, and `.`
  is the directory itself;
- `Upward`, `Once`, `Downward`: on the ext2 volume `..` leads to the one directory that
  names this one, under one name, and a directory that is named has `..`. So when the last
  name of an empty directory goes, with its `..`, what is left is the `.`, and freeing it
  leaves no entry behind. A directory of the RamFS that was renamed (ghost `moved`) is
  exempt, as the code forgets to change its `..`;
- `Covered`: the directory under the mount point stays empty and the root of the RamFS is
  named only where it was renamed to;
- `Counted`: `st_nlink` is at least the number of entries that name a file, and exactly
  that number on the ext2 volume (a RamFS unlinks nothing).

An operation of the code is several small changes (an entry is put, a link counted, `..`
put, an inode freed), between which the parts do not hold; there is a lemma for each order
in which the code makes them, and one for each system call. The directory that a call changes
is that of `Parent`, any directory or the working directory (`ParentLeads`), and what it found
is that of `Whole` (`WholeLeads`): a file that is made has a new name there, except in a RamFS
that has the name already and keeps its old entry, so that the new file has none (`CreateAgain`).
`OffsetsInside` needs `FilesOpen`: what a descriptor that is not `lost` names stays a regular
file of at least its offset. That a file is freed under a descriptor makes it `lost`, for good,
so that the files that get its inode later are no concern of the property.

`MallocProofs` proves for heaps of every size, any number of clients and all sizes but 0
`HeapStaysSound` (`HeapInv`), `ContentStaysIntact` (`ContentIntact`) and `NothingLeaks`
(`NoLeak`). The inductive invariant speaks of a set of addresses, the headers:

- `Tiled`: each header ends where the next one starts, and the only one of size 0 is the
  end of the list, in the last word below the break. `ChainIs` shows that these are the
  headers that the loop of `malloc` visits (it goes upwards, so it ends);
- `Flagged`, `Tagged`, `Apart`: a header tells whether the block before it is free, a free
  block has its tag, and what follows it is in use. Without them `free` may take the wrong
  word for the tag of the previous block, or merge with a block that is not free;
- `Held`, `Filled`: the blocks in use are those of the clients, one for each, at least as
  large as was asked for and with what the client wrote.

`free` breaks these parts between its steps, but only at the block that is freed and the
one before it; `Freeing`, `Untagged` and `Freed` say what holds after each step, and there
is one lemma per step (`NextMerged`, `PrevMerged`, `TagWritten`, `Trimmed`), as for the three
ways in which `malloc` finds a block (`Extended`, `TakenWhole`, `TakenSplit`). That the
blocks of all others keep their size and content (`Keeps`) goes through each of them.
`realloc` is the composition of a `malloc`, a copy and a `free` of another block.

`ContainersProofs` proves `ContainersStaySound` (`ContainersSound`) and
`CollectionsImplemented` (`ContainersSpec => ImplementsCollections`) for any values, all keys
that are integers and any number of elements. The inductive invariant is that each container
holds some sequence: `Ring` says that the cells of a deque from `_begIndex` on, around the
end of the array, are those of the sequence and the others have no object, `Vec` the same of
a vector from its first cell on, `Tree` adds that the keys of the rows ascend. Class
invariant and abstraction (`Elements`, `Items`, `Entries`) follow from it (`RingIs`, `VecIs`,
`TableIs`). There is one lemma per member function; each says that of a container that holds
`s` it makes one that holds what the abstract call makes of `s` (`PushedFront`, `Erased`,
`VInserted`, `VGrown`, `RowPutIn`, `RowOut`). Arrays grow to a power of two (`StrategyGrows`:
a set of `n` elements has more than `n` subsets). `lower_bound` is recursive: that its
definition has a solution, and that each solution divides the rows into the keys below `k`
and the others, is `BisectionDivides`, by the smallest range where a solution would not.

Four of these modules need a least element (the power of 2 to which an array grows, the range
that is bisected, the free inode that is taken, the first fit). The lemma `Least` gives it,
from the well-founded order of finite sets, since the induction theorems cannot be applied;
`PowersDouble` and `PowerAbove` count subsets for the same reason.

The assumptions are those on the constants. `BoundsAssumption`, `TerminalAssumption` and
`QuantaFit` are bounds and types. `KeyboardAssumption` says that the ring has two places or
more and that `e0` and the plain keys are no modifiers, as in the key map;
`DesktopAssumption` that the windows at the start are each in one list and that the number of
a function key names a workspace, as there are ten; `VfsAssumption` that there are finitely
many names, with `tmp` among them and without `.` and `..`: calls whose path ends in these
are left out of the model. `WindowShape` says that a window is at least one character wide and as
high as its edge (see the limits above for smaller ones), that no key gives an escape, a form feed or another control character, as in the key
maps, and that a read asks for a number of bytes; in `UserMemory`, `LayoutAssumption`
says that a table has two entries or more and that the segment of a program, which is one page,
its heap and its stack lie in this order above the identity map, where `loadFromBytes` puts
them; `HeapAssumption` that no break a program asks for makes its heap
reach its stack: nothing in `Heap::brk` prevents that, but the stack is at 512G and the
machine has less memory. `KernelShape` gives the sizes of the kernel's memory what the proofs
use of 512 entries, words of 64 bits, large pages of 512 frames and 4096 slots: whole words in
memory and in half a large page, two entries in a table, no more slots than pages below
`base`, and a font of two frames of the kernel's image. `SizesAssumption` says that no
client asks for 0 words (see the limits above), `ContainersAssumption` that keys are integers
and that no value is one of the two that mark a cell without an object.

Only model-checked: the liveness properties, which are out of the prover's reach,
and the properties of `Ext2` and `Ext2Dirs`. These two use recursive operators where the code
recurses over its data, which the prover cannot follow. The transfers of `Disk` are checked on a small drive only. `Stdio` and `SystemCalls` are functions, computed on bounded
inputs.

## Not modelled

FAT is disabled by `#if 0`. DevFS has a fixed list of entries. The 32-bit loader, the
set-up of the interrupt tables and segments, and the ELF parser are sequential code that
runs once on its input. Drawing, fonts, key maps and logging move data without control of
their own. User programs (`init`, `ttsh`) run on the kernel and may call
anything: no property assumes that `init` waits for its children. Permissions, times and
return codes are left out of the system calls.

## Plan

Next, in this order:

1. The allocations of several pages, and the start of the kernel before the allocator
   works.
2. Graphic windows as descriptors, and process groups.
